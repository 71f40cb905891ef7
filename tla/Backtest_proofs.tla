--------------------------- MODULE Backtest_proofs ---------------------------
(***************************************************************************)
(* Proofs about a backtest, for all inputs: what an order is filled at     *)
(* (OrderMatching), what the report makes of the fills (TradeLedgers), and *)
(* what closes a position because of its profit (RiskExits).               *)
(*                                                                         *)
(* The ledgers agree because every fill is shared out whole: what it takes *)
(* of the open lots is what it closes, what it does not close opens a lot, *)
(* and so are its commission and its profit.  A day comes out even since   *)
(* each fill and each close moves the account and the day's result by the  *)
(* same amount.  A profit is a fraction, the same for every size of a      *)
(* position of one average cost: that is why a best profit stays good      *)
(* after a sale that keeps the average, and after no other.                *)
(***************************************************************************)
EXTENDS OrderMatching, TradeLedgers, RiskExits, SequenceTheorems, DataTheorems

-----------------------------------------------------------------------------
(* The matching of orders: the extreme of a trailing stop is the furthest of the
   prices known, and a triggered order is one that a bar touched. *)

MatchOutcome == [reached : BOOLEAN, qty : Nat, price : Int]

MatchingTypeOK ==
  /\ order \in Orders
  /\ left \in Nat
  /\ triggered \in BOOLEAN
  /\ extreme \in Price0
  /\ bars \in Seq(Bars)
  /\ matches \in Seq(MatchOutcome)
  /\ Len(matches) = Len(bars)

\* No price before the first bar; then the furthest of the prices known.
ExtremeIsFurthest ==
  /\ Len(bars) = 0 => extreme = 0
  /\ Len(bars) > 0 /\ order.type = "TRAILING_STOP" =>
       /\ extreme \in Known(Len(bars) + 1)
       /\ \A p \in Known(Len(bars) + 1) : IF order.buy THEN extreme <= p ELSE p <= extreme

TriggeredIsTouched ==
  order.type \in TouchedTypes => (triggered <=> \E i \in Seen : Touches(order, bars[i]))

MatchingInv == MatchingTypeOK /\ ExtremeIsFurthest /\ TriggeredIsTouched /\ MatchingIsFair

-----------------------------------------------------------------------------
\* Before the first bar nothing was known, reached or touched.
LEMMA MatchingInitHolds == MatchingInit => MatchingInv
<1> SUFFICES ASSUME MatchingInit PROVE MatchingInv
  OBVIOUS
<1> USE MatchingAssumption DEF MatchingAssumption
<1>1. MatchingTypeOK
  <2>1. order \in Orders /\ left \in Nat /\ triggered \in BOOLEAN /\ extreme \in Price0
    BY DEF MatchingInit, Price0
  <2>2. bars = <<>> /\ matches = <<>>
    BY DEF MatchingInit
  <2>3. bars \in Seq(Bars) /\ matches \in Seq(MatchOutcome) /\ Len(matches) = Len(bars)
    BY <2>2
  <2> QED
    BY <2>1, <2>3 DEF MatchingTypeOK
<1>2. Len(bars) = 0 /\ Seen = {}
  BY DEF MatchingInit, Seen
<1>3. ExtremeIsFurthest /\ TriggeredIsTouched
  BY <1>2 DEF MatchingInit, ExtremeIsFurthest, TriggeredIsTouched
<1>4. MatchingIsFair
  BY <1>2 DEF MatchingIsFair, ReachedWhenDue, PriceInBar, PriceIsFair
<1> QED
  BY <1>1, <1>3, <1>4 DEF MatchingInv

\* What a bar adds to the history.
LEMMA MatchAppends ==
  ASSUME MatchingTypeOK, NEW b \in Bars, Match(b)
  PROVE  /\ MatchingTypeOK'
         /\ order' = order
         /\ Len(bars') = Len(bars) + 1
         /\ bars'[Len(bars) + 1] = b
         /\ \A i \in 1 .. Len(bars) : bars'[i] = bars[i] /\ matches'[i] = matches[i]
         /\ matches'[Len(bars) + 1].reached = IsReached(order, b, triggered, StopOf(b))
         /\ matches'[Len(bars) + 1].price = MatchPrice(order, b, StopOf(b))
<1> USE MatchingAssumption DEF MatchingAssumption
<1>1. b \in Bar /\ b.open \in Int /\ b.close \in Int /\ b.low \in Int /\ b.high \in Int
  BY DEF Bar
<1>2. /\ order \in OrderType /\ order.limit \in Int /\ order.stop \in Int
      /\ order.back \in [BarPrices -> Int]
  <2>1. order \in OrderType
    BY DEF MatchingTypeOK
  <2>2. order.limit \in Price0 /\ order.stop \in Price0 /\ order.back \in [BarPrices -> Int]
    BY ONLY <2>1 DEF OrderType
  <2>3. Price0 \subseteq Int
    BY DEF Price0
  <2> QED
    BY ONLY <2>1, <2>2, <2>3
<1>3. Seeded(b) \in BarPrices /\ Updated(Seeded(b), b) \in BarPrices
  BY <1>1, <1>2 DEF Seeded, Updated, Lower, Upper, MatchingTypeOK, Price0, Bar
<1>4. StopOf(b) \in Int
  BY <1>2, <1>3 DEF StopOf
<1>5. MatchPrice(order, b, StopOf(b)) \in Int
  BY <1>1, <1>2, <1>4 DEF MatchPrice, LimitPrice, StopPrice, Lower, Upper
<1>6. IsReached(order, b, triggered, StopOf(b)) \in BOOLEAN
  BY DEF IsReached, IsTriggered, LimitReached, StopReached, Touches
<1>7. PICK q \in 0 .. left :
        /\ left' = left - q
        /\ matches' = Append(matches, [reached |-> IsReached(order, b, triggered, StopOf(b)),
                                       qty |-> q, price |-> MatchPrice(order, b, StopOf(b))])
  BY DEF Match
<1>8. [reached |-> IsReached(order, b, triggered, StopOf(b)),
       qty |-> q, price |-> MatchPrice(order, b, StopOf(b))] \in MatchOutcome
  BY <1>5, <1>6, <1>7 DEF MatchOutcome, MatchingTypeOK
<1>9. bars' = Append(bars, b) /\ order' = order
  BY DEF Match
<1>10. extreme' \in Price0
  BY <1>3 DEF Match, MatchingTypeOK, Price0
<1>11. triggered' \in BOOLEAN
  BY DEF Match, IsTriggered, StopReached, Touches
<1>12. left' \in Nat
  BY <1>7 DEF MatchingTypeOK
<1>13. matches' \in Seq(MatchOutcome) /\ Len(matches') = Len(matches) + 1
  BY <1>7, <1>8, AppendProperties DEF MatchingTypeOK
<1>14. bars' \in Seq(Bars) /\ Len(bars') = Len(bars) + 1
  BY <1>9, AppendProperties DEF MatchingTypeOK
<1>15. MatchingTypeOK'
  BY <1>9, <1>10, <1>11, <1>12, <1>13, <1>14 DEF MatchingTypeOK
<1>16. Len(bars) \in Nat /\ Len(matches) = Len(bars)
  BY LenProperties DEF MatchingTypeOK
<1>17. /\ bars'[Len(bars) + 1] = b
       /\ \A i \in 1 .. Len(bars) : bars'[i] = bars[i] /\ matches'[i] = matches[i]
  BY <1>7, <1>8, <1>9, <1>16, AppendProperties DEF MatchingTypeOK
<1>18. matches'[Len(bars) + 1] =
         [reached |-> IsReached(order, b, triggered, StopOf(b)),
          qty |-> q, price |-> MatchPrice(order, b, StopOf(b))]
  BY <1>7, <1>8, <1>16, AppendProperties DEF MatchingTypeOK
<1> QED
  BY <1>9, <1>14, <1>15, <1>17, <1>18

\* What was known at an earlier bar, and what was due, does not change.
LEMMA HistoryStays ==
  ASSUME MatchingTypeOK, NEW b \in Bars, Match(b), NEW k \in 1 .. Len(bars)
  PROVE  /\ Known(k)' = Known(k) /\ Stops(k)' = Stops(k) /\ Due(k)' = Due(k)
         /\ Standing(k)' = Standing(k) /\ Start(k)' = Start(k)
<1>1. /\ order' = order
      /\ \A i \in 1 .. Len(bars) : bars'[i] = bars[i] /\ matches'[i] = matches[i]
  BY MatchAppends
<1>2. Len(bars) \in Nat /\ 1 \in 1 .. Len(bars) /\ 1 .. k \subseteq 1 .. Len(bars)
      /\ 1 .. k - 1 \subseteq 1 .. Len(bars)
  BY LenProperties DEF MatchingTypeOK
<1>3. {j \in 1 .. k - 1 : ~matches'[j].reached} = {j \in 1 .. k - 1 : ~matches[j].reached}
  BY <1>1, <1>2
<1>4. Known(k)' = Known(k)
  BY <1>1, <1>2, <1>3 DEF Known
<1>5. Stops(k)' = Stops(k)
  BY <1>1, <1>4 DEF Stops
<1>6. (\E i \in 1 .. k : Touches(order, bars'[i])) = (\E i \in 1 .. k : Touches(order, bars[i]))
  BY <1>1, <1>2
<1>7. Due(k)' = Due(k)
  BY <1>1, <1>5, <1>6 DEF Due
<1>8. (\E i \in 1 .. k - 1 : Touches(order, bars'[i])) = (\E i \in 1 .. k - 1 : Touches(order, bars[i]))
  BY <1>1, <1>2
<1>9. Standing(k)' = Standing(k)
  BY <1>1, <1>8 DEF Standing
<1>10. Start(k)' = Start(k)
  BY <1>1, <1>9 DEF Start
<1> QED
  BY <1>4, <1>5, <1>7, <1>9, <1>10

\* A trailing order that meets a bar has for its extreme the furthest of the prices
\* known when the bar opens.
LEMMA SeededIsFurthest ==
  ASSUME MatchingTypeOK, ExtremeIsFurthest, NEW b \in Bars, Match(b), order.type = "TRAILING_STOP",
         NEW k \in Nat, k = Len(bars) + 1
  PROVE  /\ Known(k)' \subseteq BarPrices
         /\ Seeded(b) \in Known(k)'
         /\ \A p \in Known(k)' :
              IF order.buy THEN Seeded(b) <= p ELSE p <= Seeded(b)
<1>1. /\ order' = order
      /\ bars'[Len(bars) + 1] = b
      /\ \A i \in 1 .. Len(bars) : bars'[i] = bars[i] /\ matches'[i] = matches[i]
  BY MatchAppends
<1>2. Len(bars) \in Nat
  BY LenProperties DEF MatchingTypeOK
<1>3. b.open \in Int
  BY MatchingAssumption DEF MatchingAssumption, Bar
<1>4. CASE Len(bars) = 0
  <2>1. extreme = 0 /\ Seeded(b) = b.open
    BY <1>4 DEF ExtremeIsFurthest, Seeded
  <2>2. Known(k)' = {b.open}
    BY <1>1, <1>4 DEF Known
  <2>3. b.open \in BarPrices
    BY MatchingAssumption DEF MatchingAssumption, Bar
  <2> QED
    BY <1>3, <2>1, <2>2, <2>3
<1>5. CASE Len(bars) > 0
  <2>1. {j \in 1 .. k - 1 : ~matches'[j].reached} =
        {j \in 1 .. k - 1 : ~matches[j].reached}
    BY <1>1, <1>2
  <2>2. \A j \in 1 .. k - 1 : bars'[j] = bars[j]
    BY <1>1, <1>2
  <2>3. bars'[1] = bars[1]
    BY <1>1, <1>2, <1>5
  <2>4. Known(k)' = Known(k)
    BY <1>1, <2>1, <2>2, <2>3 DEF Known
  <2>5. \A i \in 1 .. Len(bars) : bars[i] \in Bar
    BY MatchingAssumption DEF MatchingTypeOK, MatchingAssumption
  <2>6. Known(k) \subseteq BarPrices
    BY <1>2, <1>5, <2>5 DEF Known, Bar
  <2>7. extreme # 0
    BY <1>5, <2>6, MatchingAssumption DEF ExtremeIsFurthest, MatchingAssumption
  <2> QED
    BY <1>5, <2>4, <2>6, <2>7 DEF ExtremeIsFurthest, Seeded
<1> QED
  BY <1>2, <1>4, <1>5

\* Of all the stops known, the extreme gives the one that is reached first.
LEMMA StopIsFirst ==
  ASSUME MatchingTypeOK, ExtremeIsFurthest, NEW b \in Bars, Match(b), order.type \in StopTypes,
         NEW k \in Nat, k = Len(bars) + 1
  PROVE  /\ StopOf(b) \in Stops(k)'
         /\ \A s \in Stops(k)' : StopReached(order, b, s) => StopReached(order, b, StopOf(b))
<1>1. order' = order
  BY MatchAppends
<1>2. CASE order.type # "TRAILING_STOP"
  <2>1. Stops(k)' = {order.stop} /\ StopOf(b) = order.stop
    BY <1>1, <1>2 DEF Stops, StopOf
  <2> QED
    BY <2>1
<1>3. CASE order.type = "TRAILING_STOP"
  <2>1. Stops(k)' = {order.back[p] : p \in Known(k)'}
    BY <1>1, <1>3 DEF Stops
  <2>2. StopOf(b) = order.back[Seeded(b)]
    BY <1>3 DEF StopOf
  <2>3. /\ Known(k)' \subseteq BarPrices
        /\ Seeded(b) \in Known(k)'
        /\ \A p \in Known(k)' : IF order.buy THEN Seeded(b) <= p ELSE p <= Seeded(b)
    BY <1>3, SeededIsFurthest
  <2>4. b.low \in Int /\ b.high \in Int
    BY MatchingAssumption DEF MatchingAssumption, Bar
  <2>5. order \in Orders /\ order \in OrderType
    BY MatchingAssumption DEF MatchingAssumption, MatchingTypeOK
  <2>6. order.back \in [BarPrices -> Int]
    BY ONLY <2>5 DEF OrderType
  <2>7. \A p, q \in BarPrices : p <= q => order.back[p] <= order.back[q]
    BY ONLY <2>5, MatchingAssumption DEF MatchingAssumption
  <2>8. ASSUME NEW p \in Known(k)', StopReached(order, b, order.back[p])
        PROVE  StopReached(order, b, order.back[Seeded(b)])
    <3>1. order.back[p] \in Int /\ order.back[Seeded(b)] \in Int
      BY <2>3, <2>6
    <3>2. IF order.buy THEN order.back[Seeded(b)] <= order.back[p]
                       ELSE order.back[p] <= order.back[Seeded(b)]
      BY <2>3, <2>7
    <3> QED
      BY <2>4, <2>8, <3>1, <3>2 DEF StopReached
  <2> QED
    BY <2>1, <2>2, <2>3, <2>8
<1> QED
  BY <1>2, <1>3

\* A new bar reaches the order when it should.
LEMMA ReachedNow ==
  ASSUME MatchingTypeOK, ExtremeIsFurthest, TriggeredIsTouched, NEW b \in Bars, Match(b),
         NEW k \in Nat, k = Len(bars) + 1
  PROVE  /\ matches'[k].reached <=> Due(k)'
         /\ order.type \in TouchedTypes =>
              (triggered' <=> \E i \in 1 .. k : Touches(order, bars'[i]))
<1>1. /\ order' = order
      /\ bars'[k] = b
      /\ \A i \in 1 .. Len(bars) : bars'[i] = bars[i]
      /\ matches'[k].reached = IsReached(order, b, triggered, StopOf(b))
  BY MatchAppends
<1>2. Len(bars) \in Nat /\ 1 .. k = 1 .. Len(bars) \cup {k}
  BY LenProperties DEF MatchingTypeOK
<1>3. order.type \in TouchedTypes =>
        ((\E i \in 1 .. k : Touches(order, bars'[i])) <=> (triggered \/ Touches(order, b)))
  BY <1>1, <1>2 DEF TriggeredIsTouched, Seen
<1>4. triggered' = IsTriggered(order, b, triggered, StopOf(b))
  BY DEF Match
<1>5. order.type \in TouchedTypes =>
        (triggered' <=> \E i \in 1 .. k : Touches(order, bars'[i]))
  BY <1>3, <1>4 DEF IsTriggered, TouchedTypes, StopTypes
<1>6. order.type \in StopTypes =>
        ((\E s \in Stops(k)' : StopReached(order, b, s)) <=> StopReached(order, b, StopOf(b)))
  BY StopIsFirst
<1>7. Due(k)' <=>
        /\ order.type \in LimitTypes => LimitReached(order, b)
        /\ order.type \in TouchedTypes => \E i \in 1 .. k : Touches(order, bars'[i])
        /\ order.type \in StopTypes => \E s \in Stops(k)' : StopReached(order, b, s)
  BY <1>1 DEF Due
<1>8. Due(k)' <=> IsReached(order, b, triggered, StopOf(b))
  BY <1>3, <1>6, <1>7 DEF IsReached, IsTriggered, TouchedTypes, StopTypes
<1> QED
  BY <1>1, <1>5, <1>8

\* The price of a new bar that reaches the order is one of its own, and fair.
LEMMA FairNow ==
  ASSUME MatchingTypeOK, ExtremeIsFurthest, NEW b \in Bars, Match(b),
         IsReached(order, b, triggered, StopOf(b)),
         NEW k \in Nat, k = Len(bars) + 1
  PROVE  LET paying == MatchPrice(order, b, StopOf(b)) IN
         /\ b.low <= paying /\ paying <= b.high
         /\ order.type \in LimitTypes =>
              IF order.buy THEN paying <= order.limit ELSE paying >= order.limit
         /\ order.type \in StopTypes =>
              \E s \in Stops(k)' : IF order.buy THEN paying >= s ELSE paying <= s
         /\ order.type \in LimitTypes /\ (Standing(k)' \/ order.type # "STOP_LIMIT") =>
              IF order.buy THEN paying >= Lower(Start(k)', order.limit)
                           ELSE paying <= Upper(Start(k)', order.limit)
<1> DEFINE paying == MatchPrice(order, b, StopOf(b))
<1>1. /\ b.low \in Int /\ b.high \in Int /\ b.open \in Int /\ b.close \in Int
      /\ b.low <= b.open /\ b.open <= b.high /\ b.low <= b.close /\ b.close <= b.high
  BY MatchingAssumption DEF MatchingAssumption, Bar
<1>2. order \in OrderType
  BY MatchingAssumption DEF MatchingAssumption, MatchingTypeOK
<1>3. order.limit \in Price0 /\ order.stop \in Price0 /\ order.back \in [BarPrices -> Int]
  BY ONLY <1>2 DEF OrderType
<1>4. Price0 \subseteq Int
  BY MatchingAssumption DEF MatchingAssumption, Price0
<1>5. CASE order.type \in LimitTypes
  <2>1. paying = LimitPrice(order, b) /\ LimitReached(order, b)
    BY <1>5 DEF MatchPrice, IsReached, LimitTypes, TouchedTypes, StopTypes
  <2>2. order.type \notin StopTypes
    BY <1>5 DEF LimitTypes, TouchedTypes, StopTypes
  <2>3. order.limit \in Int /\ order.trigger \in Int
    BY <1>2, <1>3, <1>4 DEF OrderType
  <2>4. order' = order /\ bars'[k] = b
    BY MatchAppends
  <2>5. Standing(k)' => Start(k)' = b.open
    BY <2>4 DEF Start
  <2>6. ASSUME ~Standing(k)', order.type # "STOP_LIMIT"
        PROVE  IF order.buy THEN order.trigger < b.open ELSE b.open < order.trigger
    <3>1. order.type \in TouchedTypes /\ ~Touches(order, Opening(b))
      BY <2>4, <2>6 DEF Standing
    <3>2. Opening(b).low = b.open /\ Opening(b).high = b.open
      BY MatchingAssumption DEF MatchingAssumption, Bar, Opening
    <3> QED
      BY <1>1, <2>3, <2>6, <3>1, <3>2 DEF Touches
  <2>7. ~Standing(k)' /\ order.type # "STOP_LIMIT" => Start(k)' = order.trigger
    BY <2>4 DEF Start
  <2>8. paying = IF order.buy THEN Lower(b.open, order.limit) ELSE Upper(b.open, order.limit)
    BY <2>1 DEF LimitPrice
  <2>9. Standing(k)' \/ order.type # "STOP_LIMIT" =>
          IF order.buy THEN paying >= Lower(Start(k)', order.limit)
                       ELSE paying <= Upper(Start(k)', order.limit)
    <3>1. CASE Standing(k)'
      BY <1>1, <2>3, <2>5, <2>8, <3>1 DEF Lower, Upper
    <3>2. CASE ~Standing(k)' /\ order.type # "STOP_LIMIT"
      BY <1>1, <2>3, <2>6, <2>7, <2>8, <3>2 DEF Lower, Upper
    <3> QED
      BY <3>1, <3>2
  <2>10. /\ b.low <= paying /\ paying <= b.high
         /\ IF order.buy THEN paying <= order.limit ELSE paying >= order.limit
    BY <1>1, <2>1, <2>2, <2>3 DEF LimitPrice, LimitReached, Lower, Upper
  <2> QED
    BY <2>2, <2>9, <2>10
<1>6. CASE order.type \in StopTypes
  <2>1. order.type \notin LimitTypes
    BY <1>6 DEF LimitTypes, TouchedTypes, StopTypes
  <2>2. paying = StopPrice(order, b, StopOf(b)) /\ StopReached(order, b, StopOf(b))
    BY <1>6, <2>1 DEF MatchPrice, IsReached, IsTriggered, StopTypes, TouchedTypes
  <2>3. StopOf(b) \in Stops(k)'
    BY <1>6, StopIsFirst
  <2>4. order.type = "TRAILING_STOP" => Seeded(b) \in BarPrices
    BY SeededIsFurthest
  <2>5. StopOf(b) \in Int
    BY <1>3, <1>4, <2>4 DEF StopOf
  <2> QED
    BY <1>1, <2>1, <2>2, <2>3, <2>5 DEF StopPrice, StopReached, Lower, Upper
<1>7. CASE order.type \notin LimitTypes \cup StopTypes
  <2>1. paying = b.open \/ paying = b.close
    BY <1>7 DEF MatchPrice
  <2> QED
    BY <1>1, <1>7, <2>1
<1> QED
  BY <1>5, <1>6, <1>7

\* A bar leaves the extreme the furthest of the prices known when the next one opens.
LEMMA ExtremeStays ==
  ASSUME MatchingTypeOK, ExtremeIsFurthest, NEW b \in Bars, Match(b)
  PROVE  ExtremeIsFurthest'
<1> DEFINE k == Len(bars) + 1
<1>1. /\ order' = order
      /\ Len(bars') = k
      /\ bars'[k] = b
      /\ matches'[k].reached = IsReached(order, b, triggered, StopOf(b))
  BY MatchAppends
<1>2. Len(bars) \in Nat
  BY LenProperties DEF MatchingTypeOK
<1>3. SUFFICES ASSUME order.type = "TRAILING_STOP", NEW n \in Nat, n = k
               PROVE  /\ extreme' \in Known(n + 1)'
                      /\ \A p \in Known(n + 1)' : IF order.buy THEN extreme' <= p ELSE p <= extreme'
  <2>1. Len(bars') \in Nat /\ Len(bars') > 0
    BY <1>1, <1>2
  <2> QED
    BY <1>1, <1>2, <2>1 DEF ExtremeIsFurthest
<1>4. /\ Known(n)' \subseteq BarPrices
      /\ Seeded(b) \in Known(n)'
      /\ \A p \in Known(n)' : IF order.buy THEN Seeded(b) <= p ELSE p <= Seeded(b)
  BY <1>3, SeededIsFurthest
<1>5. BarPrices \subseteq Int /\ b.low \in Int /\ b.high \in Int
  BY MatchingAssumption DEF MatchingAssumption, Bar
<1>6. 1 .. (n + 1) - 1 = 1 .. n - 1 \cup {n}
  BY <1>2, <1>3
<1>7. Known(n + 1)' =
        IF matches'[n].reached THEN Known(n)'
        ELSE Known(n)' \cup {IF order.buy THEN b.low ELSE b.high}
  BY <1>1, <1>3, <1>6 DEF Known
<1>8. extreme' = IF matches'[n].reached THEN Seeded(b) ELSE Updated(Seeded(b), b)
  BY <1>1, <1>3 DEF Match
<1>9. CASE matches'[n].reached
  BY <1>4, <1>7, <1>8, <1>9
<1>10. CASE ~matches'[n].reached
  <2>1. extreme' = IF order.buy THEN Lower(Seeded(b), b.low) ELSE Upper(Seeded(b), b.high)
    BY <1>8, <1>10 DEF Updated
  <2> DEFINE far == IF order.buy THEN b.low ELSE b.high
  <2>2. far \in Int /\ Seeded(b) \in Int
    BY <1>4, <1>5
  <2>3. extreme' \in {Seeded(b), far}
    BY <2>1 DEF Lower, Upper
  <2>4. IF order.buy THEN extreme' <= far /\ extreme' <= Seeded(b)
                     ELSE far <= extreme' /\ Seeded(b) <= extreme'
    BY <2>1, <2>2 DEF Lower, Upper
  <2>5. Known(n + 1)' = Known(n)' \cup {far}
    BY <1>7, <1>10
  <2>6. ASSUME NEW p \in Known(n)'
        PROVE  IF order.buy THEN extreme' <= p ELSE p <= extreme'
    <3>1. p \in Int /\ extreme' \in Int
      BY <1>4, <1>5, <2>2, <2>3, <2>6
    <3> QED
      BY <1>4, <2>2, <2>4, <3>1
  <2> QED
    BY <1>4, <2>3, <2>4, <2>5, <2>6
<1> QED
  BY <1>9, <1>10

\* Every bar keeps the invariant.
LEMMA MatchingStepHolds == MatchingInv /\ [MatchingNext]_matchingVars => MatchingInv'
<1> SUFFICES ASSUME MatchingInv, [MatchingNext]_matchingVars PROVE MatchingInv'
  OBVIOUS
<1>1. CASE UNCHANGED matchingVars
  BY <1>1 DEF MatchingInv, matchingVars, MatchingTypeOK, ExtremeIsFurthest, TriggeredIsTouched, MatchingIsFair,
              ReachedWhenDue, PriceInBar, PriceIsFair, Seen, Due, Stops, Known,
              NoGainBeforeStart, Standing, Start
<1>2. ASSUME NEW b \in Bars, Match(b) PROVE MatchingInv'
  <2>1. MatchingTypeOK /\ ExtremeIsFurthest /\ TriggeredIsTouched
    BY DEF MatchingInv
  <2>2. /\ MatchingTypeOK' /\ order' = order
        /\ Len(bars') = Len(bars) + 1
        /\ bars'[Len(bars) + 1] = b
        /\ \A i \in 1 .. Len(bars) : bars'[i] = bars[i] /\ matches'[i] = matches[i]
        /\ matches'[Len(bars) + 1].reached = IsReached(order, b, triggered, StopOf(b))
        /\ matches'[Len(bars) + 1].price = MatchPrice(order, b, StopOf(b))
    BY <1>2, <2>1, MatchAppends
  <2>3. Len(bars) \in Nat
    BY <2>1, LenProperties DEF MatchingTypeOK
  <2>4. Seen' = 1 .. Len(bars) \cup {Len(bars) + 1}
    BY <2>2, <2>3 DEF Seen
  <2>5. TriggeredIsTouched'
    BY <1>2, <2>1, <2>2, <2>3, ReachedNow DEF TriggeredIsTouched, Seen
  <2>6. ASSUME NEW k \in Seen'
        PROVE  /\ matches'[k].reached <=> Due(k)'
               /\ matches'[k].reached =>
                    /\ bars'[k].low <= matches'[k].price /\ matches'[k].price <= bars'[k].high
                    /\ order.type \in LimitTypes =>
                         IF order.buy THEN matches'[k].price <= order.limit
                                      ELSE matches'[k].price >= order.limit
                    /\ order.type \in StopTypes =>
                         \E s \in Stops(k)' : IF order.buy THEN matches'[k].price >= s
                                                           ELSE matches'[k].price <= s
                    /\ order.type \in LimitTypes /\ (Standing(k)' \/ order.type # "STOP_LIMIT") =>
                         NoGainBeforeStart(k)'
    <3>1. CASE k \in 1 .. Len(bars)
      <4>1. /\ Stops(k)' = Stops(k) /\ Due(k)' = Due(k)
            /\ Standing(k)' = Standing(k) /\ Start(k)' = Start(k)
        BY <1>2, <2>1, <3>1, HistoryStays
      <4>2. NoGainBeforeStart(k)' = NoGainBeforeStart(k)
        BY <2>2, <3>1, <4>1 DEF NoGainBeforeStart
      <4> QED
        BY <2>2, <3>1, <4>1, <4>2
           DEF MatchingInv, MatchingIsFair, ReachedWhenDue, PriceInBar, PriceIsFair, Seen
    <3>2. CASE k = Len(bars) + 1
      <4>1. k \in Nat
        BY <2>3, <3>2
      <4>2. matches'[k].reached <=> Due(k)'
        BY <1>2, <2>1, <3>2, <4>1, ReachedNow
      <4> QED
        BY <1>2, <2>1, <2>2, <3>2, <4>1, <4>2, FairNow DEF NoGainBeforeStart
    <3> QED
      BY <2>4, <3>1, <3>2
  <2>7. ReachedWhenDue'
    BY <2>6 DEF ReachedWhenDue
  <2>8. PriceInBar' /\ PriceIsFair'
    BY <2>2, <2>6 DEF PriceInBar, PriceIsFair
  <2> QED
    BY <1>2, <2>1, <2>2, <2>5, <2>7, <2>8, ExtremeStays DEF MatchingInv, MatchingIsFair
<1> QED
  BY <1>1, <1>2 DEF MatchingNext

\* The matching of a waiting order (broker.py:667 _resolve_match) misses no bar that
\* reaches it and pays a price that the bar had and the order allows, for every order,
\* bar and trailing distance; it looks at no later price, except in the bar in which a
\* STOP_LIMIT or LIMIT_IF_TOUCHED order is touched: there the limit may be one that was
\* reached before the touch, and a STOP_LIMIT order may get the open.
THEOREM MatchesAreFair == MatchingSpec => []MatchingIsFair
<1>1. MatchingInv => MatchingIsFair
  BY DEF MatchingInv
<1> QED
  BY <1>1, MatchingInitHolds, MatchingStepHolds, PTL DEF MatchingSpec

-----------------------------------------------------------------------------
(* The ledgers of a backtest *)

\* A function that is given one more value.
LEMMA GivenOne ==
  ASSUME NEW g, NEW x, NEW v
  PROVE  /\ DOMAIN With(g, x, v) = DOMAIN g \cup {x}
         /\ With(g, x, v)[x] = v
         /\ \A y \in DOMAIN g : y # x => With(g, x, v)[y] = g[y]
BY DEF With

\* Its sum grows by this value.
LEMMA SumGrows ==
  ASSUME NEW g, NEW h, NEW x, IsFiniteSet(DOMAIN g), x \notin DOMAIN g,
         DOMAIN h = DOMAIN g \cup {x},
         \A y \in DOMAIN g : h[y] = g[y], \A y \in DOMAIN h : h[y] \in Int
  PROVE  SumOver(g) \in Int /\ SumOver(h) = SumOver(g) + h[x] /\ SumOver(h) \in Int
<1> DEFINE D == DOMAIN g
<1>1. \A y \in D : g[y] \in Int /\ h[y] = g[y]
  OBVIOUS
<1>2. \A y \in D \cup {x} : h[y] \in Int
  OBVIOUS
<1>3. IsFiniteSet(D) /\ x \notin D /\ DOMAIN h = D \cup {x}
  OBVIOUS
<1>4. SumOver(g) = SumFunctionOnSet(g, D) /\ SumOver(h) = SumFunctionOnSet(h, D \cup {x})
  BY <1>3 DEF SumOver
<1> HIDE DEF D
<1>5. SumFunctionOnSet(h, D \cup {x}) = SumFunctionOnSet(h, D) + h[x]
  BY <1>2, <1>3, SumAdd
<1>6. SumFunctionOnSet(h, D) = SumFunctionOnSet(g, D)
  BY <1>1, <1>3, SumSame
<1>7. SumFunctionOnSet(g, D) \in Int
  BY <1>1, <1>3, SumType
<1>8. h[x] \in Int
  BY <1>2
<1> QED BY <1>4, <1>5, <1>6, <1>7, <1>8

\* A sum over a set, of what is defined there.
LEMMA SumOverSet ==
  ASSUME NEW g, NEW S, IsFiniteSet(S), DOMAIN g = S, \A x \in S : g[x] \in Int
  PROVE  SumOver(g) = SumFunctionOnSet(g, S) /\ SumOver(g) \in Int
BY SumType DEF SumOver

-----------------------------------------------------------------------------

LotShape ==
  [sym : LedgerSymbols, dir : {"long", "short"}, qty : Nat \ {0}, orig : Nat \ {0}, fee : Nat]
FillShape ==
  [sym : LedgerSymbols, side : {"BUY", "SELL"}, qty : Nat, price : Nat, rate : Nat, gain : Int]

\* The lots that are open are of fills that were.
LotsTyped ==
  /\ points \in Nat /\ DOMAIN openLots \subseteq 1 .. points
  /\ \A i \in DOMAIN openLots : openLots[i] \in LotShape

\* The shares that some lots have left.
LEMMA OpenIs ==
  ASSUME LotsTyped, NEW I \in SUBSET DOMAIN openLots
  PROVE  /\ IsFiniteSet(I) /\ Open(I) \in Nat
         /\ Open(I) = 0 => I = {}
         /\ \A i \in I : openLots[i].qty \in Nat \ {0}
<1> DEFINE g == [i \in I |-> openLots[i].qty]
<1>1. IsFiniteSet(I)
  <2>1. IsFiniteSet(1 .. points) BY FS_Interval DEF LotsTyped
  <2>2. I \subseteq 1 .. points BY DEF LotsTyped
  <2> QED BY <2>1, <2>2, FS_Subset
<1>2. \A i \in I : openLots[i].qty \in Nat \ {0}
  BY DEF LotsTyped, LotShape
<1>3. \A i \in I : g[i] \in Nat /\ g[i] > 0 /\ g[i] \in Int
  BY <1>2
<1>4. DOMAIN g = I /\ Open(I) = SumOver(g)
  BY DEF Open
<1> HIDE DEF g
<1>5. Open(I) = SumFunctionOnSet(g, I)
  BY <1>1, <1>3, <1>4, SumOverSet
<1>6. Open(I) \in Nat
  BY <1>1, <1>3, <1>5, SumNat
<1>7. ASSUME NEW i \in I PROVE Open(I) > 0
  <2>1. g[i] <= SumFunctionOnSet(g, I)
    BY <1>1, <1>3, SumHasPart
  <2> QED BY <1>3, <1>5, <1>6, <2>1
<1> QED BY <1>1, <1>2, <1>6, <1>7

\* Smaller and larger of two.
LEMMA OfTwo ==
  ASSUME NEW a \in Int, NEW b \in Int
  PROVE  /\ Min({a, b}) = IF a <= b THEN a ELSE b
         /\ Max({a, b}) = IF a <= b THEN b ELSE a
<1>1. IsFiniteSet({a, b}) /\ {a, b} \subseteq Int /\ {a, b} # {}
  <2>1. IsFiniteSet({a}) BY FS_Singleton
  <2>2. {a, b} = {a} \cup {b} OBVIOUS
  <2> QED BY <2>1, <2>2, FS_AddElement
<1>2. Max({a, b}) \in {a, b} /\ \A x \in {a, b} : x <= Max({a, b})
  BY <1>1, MaxIs
<1>3. \E x \in {a, b} : \A y \in {a, b} : x <= y
  OBVIOUS
<1>4. Min({a, b}) \in {a, b} /\ \A y \in {a, b} : Min({a, b}) <= y
  BY <1>3 DEF Min
<1> QED BY <1>2, <1>4

\* How much a fill closes.
LEMMA ClosingIs ==
  ASSUME LotsTyped, NEW f \in FillShape
  PROVE  /\ Against(f) \in SUBSET DOMAIN openLots
         /\ Closing(f) \in Nat /\ Closing(f) <= f.qty /\ Closing(f) <= Open(Against(f))
         /\ Closing(f) = f.qty \/ Closing(f) = Open(Against(f))
         /\ f.qty \in Nat
<1>1. Against(f) \in SUBSET DOMAIN openLots
  BY DEF Against, LotsOf
<1>2. Open(Against(f)) \in Nat
  BY <1>1, OpenIs
<1>3. f.qty \in Nat
  BY DEF FillShape
<1> DEFINE a == f.qty
           b == Open(Against(f))
<1>4. a \in Int /\ b \in Int
  BY <1>2, <1>3
<1>5. Closing(f) = Min({a, b})
  BY DEF Closing
<1> HIDE DEF a, b
<1>6. Closing(f) = IF a <= b THEN a ELSE b
  BY <1>4, <1>5, OfTwo
<1> QED BY <1>1, <1>2, <1>3, <1>6 DEF a, b

\* First in, first out: every lot against the fill gives what the earlier ones do
\* not, and together they give what the fill closes.
LEMMA TakenAddsUp ==
  ASSUME LotsTyped, NEW f \in FillShape
  PROVE  /\ \A i \in Against(f) : Taken(f, i) \in Nat /\ Taken(f, i) <= openLots[i].qty
         /\ SumFunctionOnSet([i \in Against(f) |-> Taken(f, i)], Against(f)) = Closing(f)
<1> DEFINE A == Against(f)
           n == Closing(f)
           q == [i \in A |-> openLots[i].qty]
           t == [i \in A |-> Taken(f, i)]
           Up(m) == {i \in A : i < m}
           Sq(m) == SumFunctionOnSet(q, Up(m))
           St(m) == SumFunctionOnSet(t, Up(m))
<1>1. /\ A \in SUBSET DOMAIN openLots /\ IsFiniteSet(A) /\ points \in Nat /\ A \subseteq 1 .. points
      /\ n \in Nat /\ n <= Open(A)
  BY ClosingIs, OpenIs DEF LotsTyped
<1>2. \A i \in A : openLots[i].qty \in Nat \ {0}
  BY <1>1, OpenIs
<1>3. \A m \in Int : IsFiniteSet(Up(m)) /\ Up(m) \in SUBSET DOMAIN openLots /\ Up(m) \in SUBSET A
  BY <1>1, FS_Subset
<1>4. \A m \in Int : Open(Up(m)) = Sq(m) /\ Sq(m) \in Nat
  <2> TAKE m \in Int
  <2> DEFINE U == Up(m)
             g == [i \in U |-> openLots[i].qty]
  <2>1. IsFiniteSet(U) /\ U \in SUBSET DOMAIN openLots /\ U \in SUBSET A
    BY <1>3
  <2> HIDE DEF U
  <2>2. \A i \in U : g[i] \in Int /\ g[i] = q[i]
    BY <1>2, <2>1
  <2>3. DOMAIN g = U /\ Open(U) = SumOver(g) /\ Open(U) \in Nat
    BY <2>1, OpenIs DEF Open
  <2> HIDE DEF g, q
  <2>4. Open(U) = SumFunctionOnSet(g, U)
    BY <2>1, <2>2, <2>3, SumOverSet
  <2>5. SumFunctionOnSet(g, U) = SumFunctionOnSet(q, U)
    BY <2>1, <2>2, SumSame
  <2> QED BY <2>3, <2>4, <2>5 DEF U
<1>5. \A i \in A : t[i] \in Nat /\ t[i] <= q[i] /\ q[i] \in Nat
                   /\ t[i] = IF n <= Sq(i) THEN 0
                             ELSE IF n - Sq(i) <= q[i] THEN n - Sq(i) ELSE q[i]
  <2> TAKE i \in A
  <2> DEFINE w == n - Open(Up(i))
             l == Min({openLots[i].qty, w})
             o == openLots[i].qty
  <2>1. i \in Int BY <1>1
  <2>2. w \in Int /\ w = n - Sq(i) /\ Sq(i) \in Nat
    BY <1>1, <1>4, <2>1
  <2>3. o \in Nat /\ q[i] = o
    BY <1>2
  <2>4. t[i] = Max({0, l})
    BY DEF Taken
  <2> HIDE DEF w, o, q, t, Sq
  <2>5. l = (IF o <= w THEN o ELSE w) /\ l \in Int
    BY <2>2, <2>3, OfTwo DEF o
  <2> HIDE DEF l
  <2>6. t[i] = IF 0 <= l THEN l ELSE 0
    <3>1. Max({0, l}) = IF 0 <= l THEN l ELSE 0
      <4> DEFINE z == 0
      <4>1. z \in Int /\ l \in Int
        BY <2>5
      <4> HIDE DEF z
      <4>2. Max({z, l}) = IF z <= l THEN l ELSE z
        BY <4>1, OfTwo
      <4> QED BY <4>2 DEF z
    <3> QED BY <2>4, <3>1
  <2> HIDE DEF n
  <2>7. n \in Nat BY <1>1
  <2> QED BY <2>2, <2>3, <2>5, <2>6, <2>7
<1> DEFINE Ok == {m \in Nat : St(m) = IF n <= Sq(m) THEN n ELSE Sq(m)}
<1>6. 0 \in Ok
  <2>1. Up(0) = {}
    BY <1>1
  <2>2. St(0) = 0 /\ Sq(0) = 0
    BY <2>1, SumEmpty
  <2> QED BY <1>1, <2>2
<1>7. ASSUME NEW m \in Nat, m \in Ok PROVE m + 1 \in Ok
  <2>1. St(m) = IF n <= Sq(m) THEN n ELSE Sq(m)
    BY <1>7
  <2>2. m + 1 \in Nat /\ m \in Int
    OBVIOUS
  <2>3. CASE m \notin A
    <3>1. Up(m + 1) = Up(m)
      BY <1>1, <2>3
    <3> QED BY <2>1, <2>2, <3>1
  <2>4. CASE m \in A
    <3> DEFINE U == Up(m)
    <3>1. Up(m + 1) = U \cup {m} /\ m \notin U
      BY <1>1, <2>4
    <3>2. IsFiniteSet(U)
      BY <1>3
    <3>3. \A i \in U \cup {m} : q[i] \in Int /\ t[i] \in Int
      <4>1. U \cup {m} \subseteq A
        BY <2>4
      <4> HIDE DEF U, q, t, Sq, St, Up, n
      <4> QED BY <1>5, <4>1
    <3>4. Sq(m + 1) = SumFunctionOnSet(q, U \cup {m}) /\ St(m + 1) = SumFunctionOnSet(t, U \cup {m})
      BY <3>1
    <3>5. Sq(m) = SumFunctionOnSet(q, U) /\ St(m) = SumFunctionOnSet(t, U)
      OBVIOUS
    <3>6. Sq(m) \in Nat
      BY <1>4, <2>2
    <3>7. /\ t[m] \in Nat /\ t[m] <= q[m] /\ q[m] \in Nat
          /\ t[m] = IF n <= Sq(m) THEN 0 ELSE IF n - Sq(m) <= q[m] THEN n - Sq(m) ELSE q[m]
      BY <1>5, <2>4
    <3>8. n \in Nat
      BY <1>1
    <3> HIDE DEF U, q, t, Sq, St, n
    <3>9. Sq(m + 1) = Sq(m) + q[m]
      BY <3>1, <3>2, <3>3, <3>4, <3>5, SumAdd
    <3>10. St(m + 1) = St(m) + t[m]
      BY <3>1, <3>2, <3>3, <3>4, <3>5, SumAdd
    <3>11. St(m + 1) = IF n <= Sq(m + 1) THEN n ELSE Sq(m + 1)
      BY <2>1, <3>6, <3>7, <3>8, <3>9, <3>10
    <3> QED BY <2>2, <3>11
  <2> QED BY <2>3, <2>4
<1>8. Up(points + 1) = A /\ points + 1 \in Nat
  BY <1>1
<1>9. points + 1 \in Ok
  <2> HIDE DEF Ok
  <2>1. \A m \in Nat : m \in Ok
    BY <1>6, <1>7, Induction
  <2> QED BY <1>8, <2>1
<1>10. St(points + 1) = IF n <= Sq(points + 1) THEN n ELSE Sq(points + 1)
  BY <1>9
<1>11. Sq(points + 1) = Open(A) /\ St(points + 1) = SumFunctionOnSet(t, A)
  <2>1. St(points + 1) = SumFunctionOnSet(t, A)
    BY <1>8
  <2>2. Open(Up(points + 1)) = Sq(points + 1)
    <3> HIDE DEF Sq, Up
    <3> QED BY <1>4, <1>8
  <2>3. Open(Up(points + 1)) = Open(A)
    BY <1>8
  <2> QED BY <2>1, <2>2, <2>3
<1>12. SumFunctionOnSet(t, A) = n
  BY <1>1, <1>10, <1>11
<1>13. \A i \in A : Taken(f, i) \in Nat /\ Taken(f, i) <= openLots[i].qty
  BY <1>5
<1> QED BY <1>12, <1>13

\* What a fill does to the lots.
LotsStep(f) == openLots' = Lots(f, points + 1) /\ points' = points + 1

\* What is left of a lot, and a lot of what closes nothing.
LEMMA LotsAre ==
  ASSUME LotsTyped, NEW f \in FillShape, LotsStep(f)
  PROVE  /\ points + 1 \notin DOMAIN openLots /\ points \in Nat
         /\ Rest(f) \in Nat /\ Rest(f) = f.qty - Closing(f)
         /\ \A i \in DOMAIN openLots : Left(f, i) \in Nat
         /\ DOMAIN openLots' = {i \in DOMAIN openLots : Left(f, i) > 0}
                                 \cup (IF Rest(f) > 0 THEN {points + 1} ELSE {})
         /\ \A i \in DOMAIN openLots : Left(f, i) > 0 =>
              openLots'[i] = [openLots[i] EXCEPT !.qty = Left(f, i)]
         /\ Rest(f) > 0 => openLots'[points + 1] =
              [sym |-> f.sym, dir |-> Opens(f), qty |-> Rest(f), orig |-> Rest(f),
               fee |-> Share(Fees(f), Rest(f), f.qty)]
<1>1. points \in Nat /\ points + 1 \notin DOMAIN openLots
  BY DEF LotsTyped
<1>2. Rest(f) \in Nat /\ Rest(f) = f.qty - Closing(f)
  BY ClosingIs DEF Rest
<1>3. \A i \in DOMAIN openLots : Left(f, i) \in Nat
  <2> TAKE i \in DOMAIN openLots
  <2>1. openLots[i].qty \in Nat
    BY DEF LotsTyped, LotShape
  <2>2. i \in Against(f) => Taken(f, i) \in Nat /\ Taken(f, i) <= openLots[i].qty
    BY TakenAddsUp
  <2> QED BY <2>1, <2>2 DEF Left
<1> DEFINE n == points + 1
           D == {j \in DOMAIN openLots : Left(f, j) > 0} \cup (IF Rest(f) > 0 THEN {n} ELSE {})
<1>4. openLots' =
        [i \in D |->
           IF i = n THEN [sym |-> f.sym, dir |-> Opens(f), qty |-> Rest(f), orig |-> Rest(f),
                          fee |-> Share(Fees(f), Rest(f), f.qty)]
           ELSE [openLots[i] EXCEPT !.qty = Left(f, i)]]
  BY DEF LotsStep, Lots
<1>5. DOMAIN openLots' = D
  BY <1>4
<1>6. \A i \in DOMAIN openLots : Left(f, i) > 0 =>
        openLots'[i] = [openLots[i] EXCEPT !.qty = Left(f, i)]
  BY <1>1, <1>4
<1>7. Rest(f) > 0 => openLots'[points + 1] =
              [sym |-> f.sym, dir |-> Opens(f), qty |-> Rest(f), orig |-> Rest(f),
               fee |-> Share(Fees(f), Rest(f), f.qty)]
  BY <1>4
<1> QED BY <1>1, <1>2, <1>3, <1>5, <1>6, <1>7

\* The lot that a fill opens is of its symbol and its side.
LEMMA NewLot ==
  ASSUME LotsTyped, NEW f \in FillShape, LotsStep(f), Rest(f) > 0
  PROVE  /\ openLots'[points + 1].sym = f.sym /\ openLots'[points + 1].dir = Opens(f)
         /\ openLots'[points + 1].qty = Rest(f)
<1> DEFINE x == openLots'[points + 1]
<1>1. x = [sym |-> f.sym, dir |-> Opens(f), qty |-> Rest(f), orig |-> Rest(f),
           fee |-> Share(Fees(f), Rest(f), f.qty)]
  BY LotsAre
<1> HIDE DEF x
<1>2. x.sym = f.sym /\ x.dir = Opens(f) /\ x.qty = Rest(f)
  BY <1>1
<1> QED BY <1>2 DEF x

\* Exact division.
LEMMA Exactly ==
  ASSUME NEW c \in Int, NEW b \in Nat \ {0}
  PROVE  (c * b) \div b = c
<1> DEFINE a == c * b
           d == a \div b
<1>1. a \in Int
  OBVIOUS
<1>2. d \in Int /\ d * b <= a /\ a < (d + 1) * b
  BY <1>1, Division
<1> HIDE DEF d
<1>3. (d - c) * b <= 0
  <2>1. (d - c) * b = d * b - c * b BY <1>2
  <2> QED BY <1>2, <2>1
<1>4. (d + 1 - c) * b > 0
  <2>1. (d + 1 - c) * b = (d + 1) * b - c * b BY <1>2
  <2> QED BY <1>2, <2>1
<1>5. d - c <= 0
  <2> DEFINE e == d - c
  <2>1. e \in Int /\ e * b <= 0 BY <1>2, <1>3
  <2> HIDE DEF e
  <2>2. e <= 0
    BY <2>1
  <2> QED BY <2>2 DEF e
<1>6. d + 1 - c > 0
  <2> DEFINE e == d + 1 - c
  <2>1. e \in Int /\ e * b > 0 BY <1>2, <1>4
  <2> HIDE DEF e
  <2>2. e > 0
    BY <2>1
  <2> QED BY <2>2 DEF e
<1>7. d = c
  BY <1>2, <1>5, <1>6
<1> QED BY <1>7 DEF d

\* A share of what comes even per piece.
LEMMA ShareIs ==
  ASSUME NEW a \in Int, NEW part \in Int, NEW all \in Nat \ {0}
  PROVE  Share(a * all, part, all) = a * part
<1>1. (a * all) * part = (a * part) * all
  OBVIOUS
<1>2. a * part \in Int
  OBVIOUS
<1>3. ((a * part) * all) \div all = a * part
  BY <1>2, Exactly
<1> QED BY <1>1, <1>3 DEF Share

\* The commission of a part of a fill.
LEMMA FeesShared ==
  ASSUME NEW f \in FillShape, NEW part \in Nat, f.qty > 0
  PROVE  Share(Fees(f), part, f.qty) = f.rate * part /\ f.rate * part \in Nat
<1> DEFINE r == f.rate
           a == f.qty
<1>1. r \in Nat /\ a \in Nat \ {0}
  BY DEF FillShape
<1>2. Share(Fees(f), part, f.qty) = Share(r * a, part, a)
  BY DEF Fees
<1> HIDE DEF r, a
<1>3. Share(r * a, part, a) = r * part
  BY <1>1, ShareIs
<1>4. r * part \in Nat
  BY <1>1
<1> QED BY <1>2, <1>3, <1>4 DEF r

\* Every lot's fee comes even.
FeesAreEven == \A i \in DOMAIN openLots : \E r \in Nat : openLots[i].fee = r * openLots[i].orig

\* The lots stay of their types, and their fees even.
LEMMA LotsStayTyped ==
  ASSUME LotsTyped, FeesAreEven, NEW f \in FillShape, LotsStep(f)
  PROVE  LotsTyped' /\ FeesAreEven'
<1> DEFINE n == points + 1
<1>1. points' \in Nat /\ n \in 1 .. points' /\ points \in Nat /\ points' = n
  BY DEF LotsTyped, LotsStep
<1>2. DOMAIN openLots' \subseteq 1 .. points'
  <2>1. DOMAIN openLots \subseteq 1 .. points
    BY DEF LotsTyped
  <2>2. 1 .. points \subseteq 1 .. points'
    BY <1>1
  <2> QED BY <1>1, <2>1, <2>2, LotsAre
<1>3. ASSUME NEW i \in DOMAIN openLots' PROVE openLots'[i] \in LotShape /\ \E r \in Nat : openLots'[i].fee = r * openLots'[i].orig
  <2>1. CASE i \in DOMAIN openLots
    <3>1. openLots[i] \in LotShape /\ Left(f, i) \in Nat /\ Left(f, i) > 0
      <4>1. openLots[i] \in LotShape
        BY <2>1 DEF LotsTyped
      <4>2. points + 1 # i /\ i \in {j \in DOMAIN openLots : Left(f, j) > 0} \cup (IF Rest(f) > 0 THEN {points + 1} ELSE {})
        BY <1>3, <2>1, LotsAre
      <4> QED BY <2>1, <4>1, <4>2, LotsAre
    <3>2. openLots'[i] = [openLots[i] EXCEPT !.qty = Left(f, i)]
      BY <2>1, <3>1, LotsAre
    <3>3. PICK r \in Nat : openLots[i].fee = r * openLots[i].orig
      BY <2>1 DEF FeesAreEven
    <3>4. /\ openLots'[i] \in LotShape
          /\ openLots'[i].fee = openLots[i].fee /\ openLots'[i].orig = openLots[i].orig
      BY <3>1, <3>2 DEF LotShape
    <3> QED BY <3>3, <3>4
  <2>2. CASE i \notin DOMAIN openLots
    <3>1. i = n /\ Rest(f) > 0
      BY <1>3, <2>2, LotsAre
    <3> DEFINE x == openLots'[i]
    <3>2. x = [sym |-> f.sym, dir |-> Opens(f), qty |-> Rest(f), orig |-> Rest(f),
               fee |-> Share(Fees(f), Rest(f), f.qty)]
      BY <3>1, LotsAre
    <3>3. Rest(f) \in Nat /\ Rest(f) = f.qty - Closing(f) /\ Closing(f) \in Nat /\ f.qty \in Nat
      BY LotsAre, ClosingIs
    <3>4. f.rate \in Nat /\ f.qty \in Nat \ {0} /\ f.sym \in LedgerSymbols /\ Opens(f) \in {"long", "short"}
      BY <3>1, <3>3 DEF FillShape, Opens
    <3>5. Share(Fees(f), Rest(f), f.qty) = f.rate * Rest(f)
      BY <3>3, <3>4, FeesShared
    <3>6. f.rate * Rest(f) \in Nat
      BY <3>3, <3>4
    <3> HIDE DEF x
    <3>7. x \in LotShape
      BY <3>1, <3>2, <3>3, <3>4, <3>5, <3>6 DEF LotShape
    <3>8. x.fee = f.rate * x.orig
      BY <3>2, <3>5
    <3> QED BY <3>4, <3>7, <3>8 DEF x
  <2> QED BY <2>1, <2>2
<1>4. LotsTyped'
  BY <1>1, <1>2, <1>3 DEF LotsTyped
<1>5. FeesAreEven'
  BY <1>3 DEF FeesAreEven
<1> QED BY <1>4, <1>5

-----------------------------------------------------------------------------

\* What a side of a symbol has open.
SideOpen(s, dir) == Open(LotsOf(s, dir))

\* Of another symbol, nothing changes.
LEMMA OthersKeep ==
  ASSUME LotsTyped, FeesAreEven, NEW f \in FillShape, LotsStep(f),
         NEW s \in LedgerSymbols, NEW dir \in {"long", "short"}, s # f.sym
  PROVE  LotsOf(s, dir)' = LotsOf(s, dir) /\ SideOpen(s, dir)' = SideOpen(s, dir)
<1> DEFINE I == LotsOf(s, dir)
<1>1. LotsTyped'
  BY LotsStayTyped
<1>2. \A i \in DOMAIN openLots : openLots[i] \in LotShape
  BY DEF LotsTyped
<1>3. \A i \in I : i \in DOMAIN openLots /\ i \notin Against(f) /\ openLots[i].sym = s
  BY DEF LotsOf, Against
<1>4. \A i \in I : Left(f, i) = openLots[i].qty /\ Left(f, i) > 0
  BY <1>2, <1>3 DEF Left, LotShape
<1>5. \A i \in I : openLots'[i] = openLots[i]
  <2> TAKE i \in I
  <2>1. openLots'[i] = [openLots[i] EXCEPT !.qty = Left(f, i)]
    BY <1>3, <1>4, LotsAre
  <2>2. openLots[i] \in LotShape
    BY <1>2, <1>3
  <2>3. [openLots[i] EXCEPT !.qty = openLots[i].qty] = openLots[i]
    BY <2>2 DEF LotShape
  <2> QED BY <1>4, <2>1, <2>3
<1>6. LotsOf(s, dir)' = I
  <2>1. ASSUME NEW i \in I PROVE i \in LotsOf(s, dir)'
    <3>1. i \in DOMAIN openLots'
      BY <1>3, <1>4, LotsAre
    <3> QED BY <1>5, <3>1 DEF LotsOf
  <2>2. ASSUME NEW i \in LotsOf(s, dir)' PROVE i \in I
    <3>1. i \in DOMAIN openLots' /\ openLots'[i].sym = s /\ openLots'[i].dir = dir
      BY DEF LotsOf
    <3>2. i \in DOMAIN openLots
      <4> SUFFICES ASSUME i \notin DOMAIN openLots PROVE FALSE
        OBVIOUS
      <4>1. i = points + 1 /\ Rest(f) > 0
        BY <3>1, LotsAre
      <4>2. openLots'[i].sym = f.sym
        BY <4>1, NewLot
      <4> QED BY <3>1, <4>2
    <3>3. openLots'[i] = [openLots[i] EXCEPT !.qty = Left(f, i)]
      BY <3>1, <3>2, LotsAre
    <3>4. openLots[i].sym = s /\ openLots[i].dir = dir
      BY <1>2, <3>1, <3>2, <3>3 DEF LotShape
    <3> QED BY <3>2, <3>4 DEF LotsOf
  <2> QED BY <2>1, <2>2
<1>7. SideOpen(s, dir)' = SideOpen(s, dir)
  <2> DEFINE g == [i \in I |-> openLots[i].qty]
             h == [i \in I |-> openLots'[i].qty]
  <2>1. g = h
    BY <1>5
  <2>2. SideOpen(s, dir) = SumOver(g)
    BY DEF SideOpen, Open
  <2>3. SideOpen(s, dir)' = SumOver(h)
    BY <1>6 DEF SideOpen, Open
  <2> QED BY <2>1, <2>2, <2>3
<1> QED BY <1>6, <1>7

\* The side that a fill closes has so much less, and the other side the rest more.
LEMMA ClosedSide ==
  ASSUME LotsTyped, FeesAreEven, NEW f \in FillShape, LotsStep(f)
  PROVE  LotsOf(f.sym, Closes(f))' = {i \in Against(f) : Left(f, i) > 0} /\ SideOpen(f.sym, Closes(f))' = SideOpen(f.sym, Closes(f)) - Closing(f)
<1> DEFINE A == Against(f)
           B == {i \in A : Left(f, i) > 0}
           g == [i \in A |-> openLots[i].qty]
           t == [i \in A |-> Taken(f, i)]
           h == [i \in A |-> Left(f, i)]
           hp == [i \in B |-> openLots'[i].qty]
<1>1. LotsTyped'
  BY LotsStayTyped
<1>2. \A i \in DOMAIN openLots : openLots[i] \in LotShape
  BY DEF LotsTyped
<1>3. A = LotsOf(f.sym, Closes(f)) /\ A \in SUBSET DOMAIN openLots /\ IsFiniteSet(A)
  BY ClosingIs, OpenIs DEF Against
<1>4. Opens(f) # Closes(f)
  BY DEF Opens, Closes
<1>5. \A i \in B : openLots'[i] = [openLots[i] EXCEPT !.qty = Left(f, i)]
  BY <1>3, LotsAre
<1>6. LotsOf(f.sym, Closes(f))' = B
  <2>1. ASSUME NEW i \in B PROVE i \in LotsOf(f.sym, Closes(f))'
    <3>1. i \in DOMAIN openLots' /\ openLots'[i] = [openLots[i] EXCEPT !.qty = Left(f, i)]
      BY <1>3, <1>5, LotsAre
    <3>2. openLots[i].sym = f.sym /\ openLots[i].dir = Closes(f) /\ openLots[i] \in LotShape
      BY <1>2, <1>3 DEF LotsOf
    <3>3. openLots'[i].sym = f.sym /\ openLots'[i].dir = Closes(f)
      BY <3>1, <3>2 DEF LotShape
    <3> QED BY <3>1, <3>3 DEF LotsOf, Closes
  <2>2. ASSUME NEW i \in LotsOf(f.sym, Closes(f))' PROVE i \in B
    <3>1. i \in DOMAIN openLots' /\ openLots'[i].sym = f.sym /\ openLots'[i].dir = Closes(f)
      BY DEF LotsOf, Closes
    <3>2. i \in DOMAIN openLots
      <4> SUFFICES ASSUME i \notin DOMAIN openLots PROVE FALSE
        OBVIOUS
      <4>1. i = points + 1 /\ Rest(f) > 0
        BY <3>1, LotsAre
      <4>2. openLots'[i].dir = Opens(f)
        BY <4>1, NewLot
      <4> QED BY <1>4, <3>1, <4>2
    <3>3. Left(f, i) > 0 /\ openLots'[i] = [openLots[i] EXCEPT !.qty = Left(f, i)]
      BY <3>1, <3>2, LotsAre
    <3>4. openLots[i].sym = f.sym /\ openLots[i].dir = Closes(f)
      BY <1>2, <3>1, <3>2, <3>3 DEF LotShape
    <3> QED BY <1>3, <3>2, <3>3, <3>4 DEF LotsOf
  <2> QED BY <2>1, <2>2
<1>7. \A i \in A : g[i] \in Int /\ t[i] \in Int /\ h[i] \in Nat /\ g[i] = h[i] + t[i]
  <2> TAKE i \in A
  <2>1. openLots[i].qty \in Nat
    BY <1>2, <1>3 DEF LotShape
  <2>2. Taken(f, i) \in Nat /\ Left(f, i) \in Nat
    BY <1>3, LotsAre, TakenAddsUp
  <2>3. Left(f, i) = openLots[i].qty - Taken(f, i)
    BY DEF Left
  <2> QED BY <2>1, <2>2, <2>3
<1>8. \A i \in B : hp[i] = h[i]
  <2> TAKE i \in B
  <2>1. openLots[i] \in LotShape
    BY <1>2, <1>3
  <2>2. openLots'[i].qty = Left(f, i)
    BY <1>5, <2>1 DEF LotShape
  <2> QED BY <2>2
<1>9. SumFunctionOnSet(t, A) = Closing(f)
  BY TakenAddsUp
<1>10. B \in SUBSET A /\ (\A i \in A \ B : h[i] = 0) /\ IsFiniteSet(B)
  BY <1>3, <1>7, FS_Subset
<1>11. SideOpen(f.sym, Closes(f)) = SumOver(g) /\ DOMAIN g = A
  BY <1>3 DEF SideOpen, Open
<1>12. SideOpen(f.sym, Closes(f))' = SumOver(hp) /\ DOMAIN hp = B
  BY <1>6 DEF SideOpen, Open, Closes
<1> HIDE DEF A, B, g, t, h, hp
<1>13. SumFunctionOnSet(g, A) = SumFunctionOnSet(h, A) + SumFunctionOnSet(t, A)
  BY <1>3, <1>7, SumOfBoth
<1>14. SumFunctionOnSet(h, A) = SumFunctionOnSet(h, B)
  BY <1>3, <1>7, <1>10, SumPart
<1>15. SumFunctionOnSet(hp, B) = SumFunctionOnSet(h, B)
  BY <1>8, <1>10, SumSame
<1>16. SumOver(g) = SumFunctionOnSet(g, A)
  BY <1>11 DEF SumOver
<1>17. SumOver(hp) = SumFunctionOnSet(hp, B)
  BY <1>12 DEF SumOver
<1>18. SumFunctionOnSet(h, A) \in Int
  BY <1>3, <1>7, SumType
<1>19. Closing(f) \in Nat
  BY ClosingIs
<1>20. SideOpen(f.sym, Closes(f))' = SideOpen(f.sym, Closes(f)) - Closing(f)
  BY <1>9, <1>11, <1>12, <1>13, <1>14, <1>15, <1>16, <1>17, <1>18, <1>19
<1>21. LotsOf(f.sym, Closes(f))' = {i \in Against(f) : Left(f, i) > 0}
  BY <1>6 DEF A, B
<1> QED BY <1>20, <1>21

LEMMA OpenedSide ==
  ASSUME LotsTyped, FeesAreEven, NEW f \in FillShape, LotsStep(f)
  PROVE  /\ LotsOf(f.sym, Opens(f))' = LotsOf(f.sym, Opens(f)) \cup (IF Rest(f) > 0 THEN {points + 1} ELSE {})
         /\ SideOpen(f.sym, Opens(f))' = SideOpen(f.sym, Opens(f)) + Rest(f)
<1> DEFINE I == LotsOf(f.sym, Opens(f))
           J == LotsOf(f.sym, Opens(f))'
           n == points + 1
           g == [i \in I |-> openLots[i].qty]
           h == [i \in J |-> openLots'[i].qty]
<1>1. LotsTyped'
  BY LotsStayTyped
<1>2. \A i \in DOMAIN openLots : openLots[i] \in LotShape
  BY DEF LotsTyped
<1>3. Opens(f) # Closes(f)
  BY DEF Opens, Closes
<1>4. \A i \in I : i \in DOMAIN openLots /\ i \notin Against(f) /\ openLots[i].sym = f.sym /\ openLots[i].dir = Opens(f)
  BY <1>3 DEF LotsOf, Against
<1>5. \A i \in I : Left(f, i) = openLots[i].qty /\ Left(f, i) > 0
  BY <1>2, <1>4 DEF Left, LotShape
<1>6. \A i \in I : openLots'[i] = openLots[i]
  <2> TAKE i \in I
  <2>1. openLots'[i] = [openLots[i] EXCEPT !.qty = Left(f, i)]
    BY <1>4, <1>5, LotsAre
  <2>2. openLots[i] \in LotShape
    BY <1>2, <1>4
  <2>3. [openLots[i] EXCEPT !.qty = openLots[i].qty] = openLots[i]
    BY <2>2 DEF LotShape
  <2> QED BY <1>5, <2>1, <2>3
<1>7. J = I \cup (IF Rest(f) > 0 THEN {n} ELSE {})
  <2>1. ASSUME NEW i \in I PROVE i \in J
    <3>1. i \in DOMAIN openLots'
      BY <1>4, <1>5, LotsAre
    <3> QED BY <1>4, <1>6, <3>1 DEF LotsOf, Opens
  <2>2. ASSUME Rest(f) > 0 PROVE n \in J
    <3>1. n \in DOMAIN openLots'
      BY <2>2, LotsAre
    <3>2. openLots'[n].sym = f.sym /\ openLots'[n].dir = Opens(f)
      BY <2>2, NewLot
    <3> QED BY <3>1, <3>2 DEF LotsOf, Opens
  <2>3. ASSUME NEW i \in J, i \in DOMAIN openLots PROVE i \in I
    <3>1. i \in DOMAIN openLots' /\ openLots'[i].sym = f.sym /\ openLots'[i].dir = Opens(f)
      BY DEF LotsOf, Opens
    <3>2. points + 1 # i /\ i \in {j \in DOMAIN openLots : Left(f, j) > 0} \cup (IF Rest(f) > 0 THEN {points + 1} ELSE {})
      BY <2>3, <3>1, LotsAre
    <3>3. openLots'[i] = [openLots[i] EXCEPT !.qty = Left(f, i)]
      BY <2>3, <3>2, LotsAre
    <3>4. openLots[i].sym = f.sym /\ openLots[i].dir = Opens(f)
      BY <1>2, <2>3, <3>1, <3>3 DEF LotShape
    <3> QED BY <2>3, <3>4 DEF LotsOf
  <2>4. ASSUME NEW i \in J, i \notin DOMAIN openLots PROVE i = n /\ Rest(f) > 0
    <3>1. i \in DOMAIN openLots'
      BY DEF LotsOf
    <3> QED BY <2>4, <3>1, LotsAre
  <2> HIDE DEF I, J, n
  <2> QED BY <2>1, <2>2, <2>3, <2>4
<1>8. SideOpen(f.sym, Opens(f)) = SumOver(g) /\ DOMAIN g = I
  BY DEF SideOpen, Open
<1>9. SideOpen(f.sym, Opens(f))' = SumOver(h) /\ DOMAIN h = J
  BY DEF SideOpen, Open, Opens
<1>10. IsFiniteSet(I) /\ (\A i \in I : openLots[i].qty \in Nat) /\ n \notin I
  <2>1. I \in SUBSET DOMAIN openLots
    BY DEF LotsOf
  <2>2. n \notin DOMAIN openLots
    BY LotsAre
  <2> QED BY <2>1, <2>2, OpenIs
<1>11. \A i \in I : h[i] = g[i] /\ g[i] \in Int
  BY <1>6, <1>7, <1>10
<1>12. Rest(f) \in Nat
  BY LotsAre
<1>13. CASE Rest(f) > 0
  <2>1. h[n] = Rest(f) /\ J = I \cup {n}
    BY <1>7, <1>13, NewLot
  <2> HIDE DEF I, J, n, g, h
  <2>2. SumOver(h) = SumOver(g) + h[n]
    <3>1. \A y \in DOMAIN h : h[y] \in Int
      BY <1>9, <1>11, <1>12, <2>1
    <3> QED BY <1>8, <1>9, <1>10, <1>11, <2>1, <3>1, SumGrows
  <2>3. SideOpen(f.sym, Opens(f))' = SideOpen(f.sym, Opens(f)) + Rest(f)
    BY <1>8, <1>9, <2>1, <2>2
  <2> QED BY <1>7, <2>3 DEF I, J, n
<1>14. CASE Rest(f) = 0
  <2>1. J = I
    BY <1>7, <1>14
  <2>2. SumOver(h) = SumFunctionOnSet(h, I) /\ SumOver(g) = SumFunctionOnSet(g, I)
    BY <1>8, <1>9, <2>1 DEF SumOver
  <2> HIDE DEF I, J, n, g, h
  <2>3. SumFunctionOnSet(h, I) = SumFunctionOnSet(g, I)
    BY <1>10, <1>11, SumSame
  <2>4. SumFunctionOnSet(g, I) \in Int
    BY <1>10, <1>11, SumType
  <2>5. SideOpen(f.sym, Opens(f))' = SideOpen(f.sym, Opens(f)) + Rest(f)
    BY <1>8, <1>9, <1>14, <2>2, <2>3, <2>4
  <2> QED BY <1>7, <2>5 DEF I, J, n
<1> QED BY <1>12, <1>13, <1>14

\* Lots that have nothing left are none.
LEMMA NoneLeft ==
  ASSUME NEW I, NEW l, IsFiniteSet(I), \A i \in I : l[i].qty \in Nat \ {0},
         SumOver([i \in I |-> l[i].qty]) = 0
  PROVE  I = {}
<1> DEFINE g == [i \in I |-> l[i].qty]
<1>1. \A i \in I : g[i] \in Nat /\ g[i] > 0
  OBVIOUS
<1>2. SumFunctionOnSet(g, I) = 0
  BY DEF SumOver
<1> HIDE DEF g
<1>3. ASSUME NEW i \in I PROVE FALSE
  <2>1. g[i] <= SumFunctionOnSet(g, I)
    BY <1>1, SumHasPart
  <2> QED BY <1>1, <1>2, <2>1
<1> QED BY <1>3

\* The lots of the two sides are the position.
LEMMA SidesAre ==
  ASSUME LotsTyped, NEW s \in LedgerSymbols, NEW dir \in {"long", "short"}
  PROVE  /\ SideOpen(s, dir) \in Nat
         /\ LotsOf(s, dir) = {} => SideOpen(s, dir) = 0
<1>1. LotsOf(s, dir) \in SUBSET DOMAIN openLots
  BY DEF LotsOf
<1>2. SideOpen(s, dir) \in Nat
  BY <1>1, OpenIs DEF SideOpen
<1>3. ASSUME LotsOf(s, dir) = {} PROVE SideOpen(s, dir) = 0
  <2> DEFINE g == [i \in LotsOf(s, dir) |-> openLots[i].qty]
  <2>1. SideOpen(s, dir) = SumOver(g) /\ DOMAIN g = {}
    BY <1>3 DEF SideOpen, Open
  <2> HIDE DEF g
  <2> QED BY <2>1, SumEmpty DEF SumOver
<1> QED BY <1>2, <1>3

\* The broker closes what the lots close.
LEMMA BookedIsClosing ==
  ASSUME LotsTyped, LotsArePosition, position \in [LedgerSymbols -> Int], NEW f \in FillShape
  PROVE  Booked(f) = Closing(f)
<1> DEFINE s == f.sym
           l == SideOpen(s, "long")
           m == SideOpen(s, "short")
           p == position[s]
           o == IF f.side = "BUY" THEN -p ELSE p
<1>1. s \in LedgerSymbols /\ f.qty \in Nat
  BY DEF FillShape
<1>2. l \in Nat /\ m \in Nat /\ (LotsOf(s, "long") = {} => l = 0) /\ (LotsOf(s, "short") = {} => m = 0)
  BY <1>1, SidesAre
<1>3. p = l - m /\ (l = 0 \/ m = 0)
  BY <1>1, <1>2 DEF LotsArePosition, SideOpen
<1>4. Open(Against(f)) = IF f.side = "BUY" THEN m ELSE l
  BY DEF Against, SideOpen, Closes
<1> HIDE DEF l, m, p
<1>5. o \in Int
  BY <1>2, <1>3
<1> DEFINE z == 0
<1>6. z \in Int
  OBVIOUS
<1>7. Booked(f) = Min({f.qty, Max({z, o})})
  BY DEF Booked, p
<1> HIDE DEF z, o
<1>8. Max({z, o}) = IF z <= o THEN o ELSE z
  BY <1>5, <1>6, OfTwo
<1>9. Max({z, o}) = Open(Against(f))
  BY <1>2, <1>3, <1>4, <1>8 DEF z, o
<1> QED BY <1>7, <1>9 DEF Closing

\* The lots stay the position.
LEMMA LotsStayPosition ==
  ASSUME LotsTyped, FeesAreEven, LotsArePosition, position \in [LedgerSymbols -> Int],
         NEW f \in FillShape, LotsStep(f),
         position' = [position EXCEPT ![f.sym] = @ + Change(f)]
  PROVE  LotsArePosition'
<1>1. f.sym \in LedgerSymbols /\ f.qty \in Nat /\ f.side \in {"BUY", "SELL"}
  BY DEF FillShape
<1>2. LotsTyped'
  BY LotsStayTyped
<1>3. ASSUME NEW s \in LedgerSymbols, s # f.sym
      PROVE  /\ (LotsOf(s, "long") = {} \/ LotsOf(s, "short") = {})'
             /\ (SideOpen(s, "long") - SideOpen(s, "short") = position[s])'
  <2>1. LotsOf(s, "long")' = LotsOf(s, "long") /\ SideOpen(s, "long")' = SideOpen(s, "long")
    BY <1>3, OthersKeep
  <2>2. LotsOf(s, "short")' = LotsOf(s, "short") /\ SideOpen(s, "short")' = SideOpen(s, "short")
    BY <1>3, OthersKeep
  <2>3. position'[s] = position[s]
    BY <1>3
  <2>4. /\ LotsOf(s, "long") = {} \/ LotsOf(s, "short") = {}
        /\ SideOpen(s, "long") - SideOpen(s, "short") = position[s]
    BY DEF LotsArePosition, SideOpen
  <2> QED BY <2>1, <2>2, <2>3, <2>4
<1>4. /\ (LotsOf(f.sym, "long") = {})' \/ (LotsOf(f.sym, "short") = {})'
      /\ SideOpen(f.sym, "long")' - SideOpen(f.sym, "short")' = position'[f.sym]
  <2> DEFINE s == f.sym
             A == LotsOf(s, Closes(f))
             Ap == LotsOf(s, Closes(f))'
             B == LotsOf(s, Opens(f))
             Bp == LotsOf(s, Opens(f))'
             a == SideOpen(s, Closes(f))
             ap == SideOpen(s, Closes(f))'
             b == SideOpen(s, Opens(f))
             bp == SideOpen(s, Opens(f))'
             c == Closing(f)
  <2>1. Ap \subseteq A /\ ap = a - c
    BY ClosedSide DEF Against
  <2>2. Bp = B \cup (IF Rest(f) > 0 THEN {points + 1} ELSE {}) /\ bp = b + Rest(f)
    BY OpenedSide
  <2>3. c \in Nat /\ c <= f.qty /\ (c = f.qty \/ c = a) /\ Rest(f) = f.qty - c
    BY ClosingIs, LotsAre DEF Against, SideOpen
  <2>4. Closes(f) \in {"long", "short"} /\ Opens(f) \in {"long", "short"}
    BY DEF Closes, Opens
  <2>5. a \in Nat /\ b \in Nat /\ (A = {} => a = 0)
    BY <1>1, <2>4, SidesAre
  <2>6. ap = 0 => Ap = {}
    <3>1. Ap \subseteq DOMAIN openLots' /\ Ap \subseteq A
      BY <2>1 DEF LotsOf
    <3>2. A \in SUBSET DOMAIN openLots
      BY DEF LotsOf
    <3>3. IsFiniteSet(Ap)
      BY <3>1, <3>2, OpenIs, FS_Subset
    <3>4. \A i \in Ap : openLots'[i].qty \in Nat \ {0}
      BY <1>2, <3>1 DEF LotsTyped, LotShape
    <3>5. ap = SumOver([i \in Ap |-> openLots'[i].qty])
      BY DEF SideOpen, Open, Closes
    <3> HIDE DEF Ap, ap
    <3> QED BY <3>3, <3>4, <3>5, NoneLeft
  <2>7. A = {} \/ B = {}
    BY <1>1 DEF LotsArePosition, Closes, Opens
  <2>8. position[s] = IF f.side = "BUY" THEN b - a ELSE a - b
    BY <1>1 DEF LotsArePosition, Closes, Opens, SideOpen
  <2>9. position'[s] = position[s] + (IF f.side = "BUY" THEN f.qty ELSE -f.qty)
    BY <1>1 DEF Change
  <2>10. /\ f.side = "BUY" => ap = SideOpen(s, "short")' /\ bp = SideOpen(s, "long")'
         /\ f.side = "SELL" => ap = SideOpen(s, "long")' /\ bp = SideOpen(s, "short")'
         /\ f.side = "BUY" => Ap = LotsOf(s, "short")' /\ Bp = LotsOf(s, "long")'
         /\ f.side = "SELL" => Ap = LotsOf(s, "long")' /\ Bp = LotsOf(s, "short")'
    BY DEF Closes, Opens
  <2> HIDE DEF A, Ap, B, Bp, a, ap, b, bp, c
  <2>11. Ap = {} \/ Bp = {}
    <3>1. CASE Rest(f) > 0
      <4>1. ap = 0
        BY <1>1, <2>1, <2>3, <2>5, <3>1
      <4> QED BY <2>6, <4>1
    <3>2. CASE ~(Rest(f) > 0)
      <4>1. Bp = B
        BY <2>2, <3>2
      <4> QED BY <2>1, <2>7, <4>1
    <3> QED BY <3>1, <3>2
  <2>12. IF f.side = "BUY" THEN bp - ap = position'[s] ELSE ap - bp = position'[s]
    BY <1>1, <2>1, <2>2, <2>3, <2>5, <2>8, <2>9
  <2> QED BY <1>1, <2>10, <2>11, <2>12
<1> QED BY <1>3, <1>4 DEF LotsArePosition, SideOpen

-----------------------------------------------------------------------------

\* What the fees of lots come to, of a part of each.
LEMMA LotFee ==
  ASSUME LotsTyped, FeesAreEven, NEW i \in DOMAIN openLots
  PROVE  \E r \in Nat : \A part \in Nat : Share(openLots[i].fee, part, openLots[i].orig) = r * part
<1>1. PICK r \in Nat : openLots[i].fee = r * openLots[i].orig
  BY DEF FeesAreEven
<1>2. openLots[i].orig \in Nat \ {0}
  BY DEF LotsTyped, LotShape
<1> DEFINE o == openLots[i].orig
<1>3. openLots[i].fee = r * o /\ o \in Nat \ {0}
  BY <1>1, <1>2
<1> HIDE DEF o
<1>4. \A part \in Nat : Share(r * o, part, o) = r * part
  BY <1>3, ShareIs
<1> QED BY <1>3, <1>4 DEF o

\* The part of its fee that each lot gives to the trips of a fill.
FeesGiven(f) ==
  SumFunctionOnSet([i \in Against(f) |-> Share(openLots[i].fee, Taken(f, i), openLots[i].orig)], Against(f))

\* What the lots give is natural, and nothing of a lot that is not touched.
LEMMA FeesGivenAre ==
  ASSUME LotsTyped, FeesAreEven, NEW f \in FillShape
  PROVE  /\ \A i \in Against(f) : Share(openLots[i].fee, Taken(f, i), openLots[i].orig) \in Nat
         /\ \A i \in Against(f) : Taken(f, i) = 0 => Share(openLots[i].fee, Taken(f, i), openLots[i].orig) = 0
         /\ FeesGiven(f) \in Int
<1>1. Against(f) \in SUBSET DOMAIN openLots /\ IsFiniteSet(Against(f))
  BY ClosingIs, OpenIs
<1>2. \A i \in Against(f) : Taken(f, i) \in Nat
  BY TakenAddsUp
<1>3. ASSUME NEW i \in Against(f)
      PROVE  /\ Share(openLots[i].fee, Taken(f, i), openLots[i].orig) \in Nat
             /\ Taken(f, i) = 0 => Share(openLots[i].fee, Taken(f, i), openLots[i].orig) = 0
  <2>1. PICK r \in Nat : \A part \in Nat : Share(openLots[i].fee, part, openLots[i].orig) = r * part
    BY <1>1, LotFee
  <2>2. Share(openLots[i].fee, Taken(f, i), openLots[i].orig) = r * Taken(f, i)
    BY <1>2, <2>1
  <2>3. r * Taken(f, i) \in Nat /\ (Taken(f, i) = 0 => r * Taken(f, i) = 0)
    BY <1>2
  <2> QED BY <2>2, <2>3
<1> DEFINE e == [i \in Against(f) |-> Share(openLots[i].fee, Taken(f, i), openLots[i].orig)]
           A == Against(f)
<1>4. \A i \in A : e[i] \in Int
  BY <1>3
<1>5. FeesGiven(f) = SumFunctionOnSet(e, A)
  BY DEF FeesGiven
<1> HIDE DEF e
<1>6. FeesGiven(f) \in Int
  BY <1>1, <1>4, <1>5, SumType
<1> QED BY <1>3, <1>6

\* The lots a fill takes of, and all it takes.
LEMMA UsedLots ==
  ASSUME LotsTyped, NEW f \in FillShape
  PROVE  /\ DOMAIN Trips(f) = {j \in Against(f) : Taken(f, j) > 0}
         /\ IsFiniteSet(DOMAIN Trips(f)) /\ IsFiniteSet(Against(f))
         /\ DOMAIN Trips(f) \in SUBSET Against(f)
         /\ \A i \in Against(f) \ DOMAIN Trips(f) : Taken(f, i) = 0
         /\ \A i \in DOMAIN Trips(f) : Closing(f) > 0 /\ f.qty > 0
         /\ SumFunctionOnSet([i \in DOMAIN Trips(f) |-> Taken(f, i)], DOMAIN Trips(f)) = Closing(f)
<1> DEFINE A == Against(f)
           U == DOMAIN Trips(f)
           t == [i \in A |-> Taken(f, i)]
           u == [i \in U |-> Taken(f, i)]
<1>1. U = {j \in A : Taken(f, j) > 0}
  BY DEF Trips
<1>2. IsFiniteSet(A) /\ Closing(f) \in Nat /\ Closing(f) <= f.qty /\ f.qty \in Nat
  BY ClosingIs, OpenIs
<1>3. (\A i \in A : Taken(f, i) \in Nat) /\ SumFunctionOnSet(t, A) = Closing(f)
  BY TakenAddsUp
<1>4. U \in SUBSET A /\ IsFiniteSet(U) /\ \A i \in A \ U : Taken(f, i) = 0
  BY <1>1, <1>2, <1>3, FS_Subset
<1>5. (\A i \in A : t[i] \in Nat /\ t[i] \in Int /\ t[i] = Taken(f, i)) /\ (\A i \in U : u[i] = t[i])
  BY <1>3, <1>4
<1> HIDE DEF A, U, t, u
<1>6. SumFunctionOnSet(t, A) = SumFunctionOnSet(t, U)
  BY <1>2, <1>4, <1>5, SumPart
<1>7. SumFunctionOnSet(t, U) = SumFunctionOnSet(u, U)
  BY <1>4, <1>5, SumSame
<1>8. \A i \in U : Closing(f) > 0
  <2> TAKE i \in U
  <2>1. t[i] <= SumFunctionOnSet(t, A)
    BY <1>2, <1>4, <1>5, SumHasPart
  <2>2. t[i] > 0
    BY <1>1, <1>5
  <2> QED BY <1>2, <1>3, <1>4, <1>5, <2>1, <2>2
<1> QED BY <1>1, <1>2, <1>3, <1>4, <1>6, <1>7, <1>8 DEF A, U, t, u

\* The profit of a fill's trips is the profit that the broker realized.
LEMMA TripsPnl ==
  ASSUME LotsTyped, NEW f \in FillShape, Booked(f) = Closing(f)
  PROVE  SumOver([i \in DOMAIN Trips(f) |-> Trips(f)[i].pnl]) = f.gain * Booked(f)
<1> DEFINE U == DOMAIN Trips(f)
           u == [i \in U |-> Taken(f, i)]
           p == [i \in U |-> Trips(f)[i].pnl]
           g == f.gain
           c == Closing(f)
<1>1. IsFiniteSet(U) /\ U \in SUBSET Against(f) /\ SumFunctionOnSet(u, U) = c /\ \A i \in U : c > 0
  BY UsedLots
<1>2. g \in Int /\ c \in Nat
  BY ClosingIs DEF FillShape
<1>3. \A i \in U : u[i] \in Nat
  BY <1>1, TakenAddsUp
<1>4. \A i \in U : p[i] = Share(g * c, u[i], c)
  <2> TAKE i \in U
  <2>1. i \in {j \in Against(f) : Taken(f, j) > 0}
    BY UsedLots
  <2>2. Trips(f)[i].pnl = Share(f.gain * Booked(f), Taken(f, i), Closing(f))
    BY <2>1 DEF Trips
  <2> QED BY <2>2
<1>5. SumOver(p) = SumFunctionOnSet(p, U)
  BY DEF SumOver
<1> HIDE DEF U, u, p, g, c
<1>6. \A i \in U : u[i] \in Int /\ p[i] = g * u[i]
  <2> TAKE i \in U
  <2>1. u[i] \in Int /\ c \in Nat \ {0}
    BY <1>1, <1>2, <1>3
  <2>2. Share(g * c, u[i], c) = g * u[i]
    BY <1>2, <2>1, ShareIs
  <2> QED BY <1>4, <2>1, <2>2
<1>7. SumFunctionOnSet(p, U) = g * SumFunctionOnSet(u, U)
  BY <1>1, <1>2, <1>6, SumScaled
<1> QED BY <1>1, <1>5, <1>7 DEF U, p, g, c

\* The fees of a fill's trips: what the lots give, and its own for what it closes.
LEMMA TripsFees ==
  ASSUME LotsTyped, FeesAreEven, NEW f \in FillShape
  PROVE  SumOver([i \in DOMAIN Trips(f) |-> Trips(f)[i].fee]) = FeesGiven(f) + f.rate * Closing(f)
<1> DEFINE A == Against(f)
           U == DOMAIN Trips(f)
           u == [i \in U |-> Taken(f, i)]
           p == [i \in U |-> Trips(f)[i].fee]
           e == [i \in A |-> Share(openLots[i].fee, Taken(f, i), openLots[i].orig)]
           v == [i \in U |-> f.rate * Taken(f, i)]
           g == f.rate
           c == Closing(f)
<1>1. IsFiniteSet(U) /\ IsFiniteSet(A) /\ U \in SUBSET A /\ SumFunctionOnSet(u, U) = c
  BY UsedLots
<1>2. g \in Nat /\ c \in Nat
  BY ClosingIs DEF FillShape
<1>3. \A i \in U : u[i] \in Nat /\ v[i] = g * u[i]
  BY <1>1, TakenAddsUp
<1>4. \A i \in U : p[i] = e[i] + v[i]
  <2> TAKE i \in U
  <2>1. i \in {j \in Against(f) : Taken(f, j) > 0} /\ f.qty > 0
    BY UsedLots
  <2>2. Trips(f)[i].fee = Share(openLots[i].fee, Taken(f, i), openLots[i].orig)
                            + Share(Fees(f), Taken(f, i), f.qty)
    BY <2>1 DEF Trips
  <2>3. Taken(f, i) \in Nat
    BY <2>1, TakenAddsUp
  <2>4. Share(Fees(f), Taken(f, i), f.qty) = f.rate * Taken(f, i)
    BY <2>1, <2>3, FeesShared
  <2>5. e[i] = Share(openLots[i].fee, Taken(f, i), openLots[i].orig)
    BY <2>1
  <2> QED BY <2>2, <2>4, <2>5
<1>5. SumOver(p) = SumFunctionOnSet(p, U)
  BY DEF SumOver
<1>6. \A i \in A : e[i] \in Nat /\ (i \notin U => e[i] = 0)
  <2> TAKE i \in A
  <2>1. e[i] \in Nat /\ (Taken(f, i) = 0 => e[i] = 0)
    BY FeesGivenAre
  <2>2. i \notin U => Taken(f, i) = 0
    BY UsedLots
  <2> QED BY <2>1, <2>2
<1>7. FeesGiven(f) = SumFunctionOnSet(e, A)
  BY DEF FeesGiven
<1> HIDE DEF A, U, u, p, e, v, g, c
<1>8. \A i \in U : u[i] \in Int /\ v[i] = g * u[i] /\ v[i] \in Int /\ e[i] \in Int
  BY <1>1, <1>2, <1>3, <1>6
<1>9. SumFunctionOnSet(p, U) = SumFunctionOnSet(e, U) + SumFunctionOnSet(v, U)
  BY <1>1, <1>4, <1>8, SumOfBoth
<1>10. SumFunctionOnSet(v, U) = g * SumFunctionOnSet(u, U)
  <2>1. g \in Int /\ \A i \in U : u[i] \in Int /\ v[i] = g * u[i]
    BY <1>2, <1>8
  <2> QED BY <1>1, <2>1, SumScaled
<1>11. SumFunctionOnSet(e, A) = SumFunctionOnSet(e, U)
  <2>1. \A i \in A : e[i] \in Int
    BY <1>6
  <2>2. \A i \in A \ U : e[i] = 0
    BY <1>6
  <2> QED BY <1>1, <2>1, <2>2, SumPart
<1> QED BY <1>1, <1>5, <1>7, <1>9, <1>10, <1>11 DEF U, p, g, c

\* The fees that the open lots still bear.
FeesLeft ==
  SumOver([i \in DOMAIN openLots |-> Share(openLots[i].fee, openLots[i].qty, openLots[i].orig)])

\* A fill takes from the open lots what it gives to its trips, and adds its own rest.
LEMMA FeesLeftAre ==
  ASSUME LotsTyped, FeesAreEven, NEW f \in FillShape, LotsStep(f)
  PROVE  FeesLeft \in Int /\ FeesLeft' = FeesLeft - FeesGiven(f) + f.rate * Rest(f)
<1> DEFINE D == DOMAIN openLots
           A == Against(f)
           B == {i \in D : Left(f, i) > 0}
           n == points + 1
           Dp == DOMAIN openLots'
           k == [i \in D |-> Share(openLots[i].fee, openLots[i].qty, openLots[i].orig)]
           h == [i \in D |-> Share(openLots[i].fee, Left(f, i), openLots[i].orig)]
           e == [i \in A |-> Share(openLots[i].fee, Taken(f, i), openLots[i].orig)]
           ed == [i \in D |-> IF i \in A THEN e[i] ELSE 0]
           kp == [i \in Dp |-> Share(openLots'[i].fee, openLots'[i].qty, openLots'[i].orig)]
<1>1. /\ A \in SUBSET D /\ IsFiniteSet(D) /\ IsFiniteSet(A) /\ B \in SUBSET D
      /\ IsFiniteSet(B) /\ n \notin D
  BY ClosingIs, OpenIs, FS_Subset, LotsAre
<1>2. Dp = B \cup (IF Rest(f) > 0 THEN {n} ELSE {}) /\ Rest(f) \in Nat
  BY LotsAre
<1>3. ASSUME NEW i \in D
      PROVE  k[i] = h[i] + ed[i] /\ k[i] \in Int /\ h[i] \in Int /\ ed[i] \in Int
             /\ (Left(f, i) = 0 => h[i] = 0)
  <2>1. PICK r \in Nat : \A part \in Nat : Share(openLots[i].fee, part, openLots[i].orig) = r * part
    BY LotFee
  <2>2. openLots[i].qty \in Nat /\ Left(f, i) \in Nat /\ (i \in A => Taken(f, i) \in Nat)
    <3>1. openLots[i].qty \in Nat
      BY DEF LotsTyped, LotShape
    <3> QED BY <3>1, LotsAre, TakenAddsUp
  <2> DEFINE q == openLots[i].qty
             l == Left(f, i)
             w == IF i \in A THEN Taken(f, i) ELSE 0
  <2>3. l = q - w /\ q \in Nat /\ w \in Nat /\ l \in Nat
    BY <2>2 DEF Left
  <2>4. k[i] = r * q /\ h[i] = r * l
    BY <2>1, <2>2
  <2>5. ed[i] = r * w
    <3>1. CASE i \in A
      BY <2>1, <2>2, <3>1
    <3>2. CASE i \notin A
      <4>1. ed[i] = 0 /\ w = 0
        BY <3>2
      <4> HIDE DEF ed, w
      <4> QED BY <4>1
    <3> QED BY <3>1, <3>2
  <2> HIDE DEF q, l, w, k, h, ed
  <2>6. q = l + w
    BY <2>3
  <2>7. r * q = r * l + r * w
    BY <2>3, <2>6
  <2>8. r * q \in Int /\ r * l \in Int /\ r * w \in Int /\ (l = 0 => r * l = 0)
    BY <2>3
  <2> QED BY <2>4, <2>5, <2>7, <2>8 DEF l
<1>4. \A i \in B : i \in Dp /\ kp[i] = h[i]
  <2> TAKE i \in B
  <2>1. i \in Dp
    BY <1>2
  <2>2. openLots'[i] = [openLots[i] EXCEPT !.qty = Left(f, i)]
    BY LotsAre
  <2>3. openLots[i] \in LotShape
    BY DEF LotsTyped
  <2>4. openLots'[i].fee = openLots[i].fee /\ openLots'[i].qty = Left(f, i) /\ openLots'[i].orig = openLots[i].orig
    BY <2>2, <2>3 DEF LotShape
  <2> QED BY <2>1, <2>4
<1>5. Rest(f) > 0 => kp[n] = f.rate * Rest(f)
  <2> SUFFICES ASSUME Rest(f) > 0 PROVE kp[n] = f.rate * Rest(f)
    OBVIOUS
  <2> DEFINE x == openLots'[n]
  <2>1. x = [sym |-> f.sym, dir |-> Opens(f), qty |-> Rest(f), orig |-> Rest(f),
             fee |-> Share(Fees(f), Rest(f), f.qty)]
    BY LotsAre
  <2>2. n \in Dp
    BY <1>2
  <2>3. kp[n] = Share(x.fee, x.qty, x.orig)
    BY <2>2
  <2> HIDE DEF x
  <2>4. x.fee = Share(Fees(f), Rest(f), f.qty) /\ x.qty = Rest(f) /\ x.orig = Rest(f)
    BY <2>1
  <2>5. f.qty > 0 /\ f.rate \in Nat
    <3>1. f.rate \in Nat
      BY DEF FillShape
    <3>2. Rest(f) = f.qty - Closing(f)
      BY LotsAre
    <3>3. Closing(f) \in Nat /\ f.qty \in Nat
      BY ClosingIs
    <3> HIDE DEF Dp, kp, ed, e, h, k, D, A, B
    <3> QED BY <3>1, <3>2, <3>3
  <2>6. Share(Fees(f), Rest(f), f.qty) = f.rate * Rest(f)
    BY <1>2, <2>5, FeesShared
  <2>7. Share(f.rate * Rest(f), Rest(f), Rest(f)) = f.rate * Rest(f)
    <3> DEFINE a == f.rate
               b == Rest(f)
    <3>1. a \in Int /\ b \in Int /\ b \in Nat \ {0}
      BY <1>2, <2>5
    <3> HIDE DEF a, b
    <3>2. Share(a * b, b, b) = a * b
      BY <3>1, ShareIs
    <3> QED BY <3>2 DEF a, b
  <2> QED BY <2>3, <2>4, <2>6, <2>7
<1>6. FeesGiven(f) = SumFunctionOnSet(e, A)
  BY DEF FeesGiven
<1>7. FeesLeft = SumFunctionOnSet(k, D)
  BY DEF FeesLeft, SumOver
<1>8. FeesLeft' = SumFunctionOnSet(kp, Dp)
  BY DEF FeesLeft, SumOver
<1>9. (\A i \in D \ A : ed[i] = 0) /\ (\A i \in A : ed[i] = e[i])
  BY <1>1
<1>10. \A i \in D \ B : h[i] = 0
  <2>1. \A i \in D \ B : Left(f, i) = 0
    <3>1. \A i \in D : Left(f, i) \in Nat
      BY LotsAre
    <3> QED BY <3>1
  <2> QED BY <1>3, <2>1
<1>11. f.rate * Rest(f) \in Int
  BY <1>2 DEF FillShape
<1> HIDE DEF D, A, B, n, Dp, k, h, e, ed, kp
<1>12. SumFunctionOnSet(k, D) = SumFunctionOnSet(h, D) + SumFunctionOnSet(ed, D)
  BY <1>1, <1>3, SumOfBoth
<1>13. SumFunctionOnSet(ed, D) = SumFunctionOnSet(ed, A)
  BY <1>1, <1>3, <1>9, SumPart
<1>14. SumFunctionOnSet(ed, A) = SumFunctionOnSet(e, A)
  BY <1>1, <1>9, SumSame
<1>15. SumFunctionOnSet(h, D) = SumFunctionOnSet(h, B)
  BY <1>1, <1>3, <1>10, SumPart
<1>16. SumFunctionOnSet(kp, B) = SumFunctionOnSet(h, B)
  BY <1>1, <1>4, SumSame
<1>17. SumFunctionOnSet(kp, Dp) = SumFunctionOnSet(kp, B) + f.rate * Rest(f)
  <2>1. \A i \in B : kp[i] \in Int
    BY <1>1, <1>3, <1>4
  <2>2. CASE Rest(f) > 0
    <3>1. Dp = B \cup {n} /\ n \notin B /\ kp[n] = f.rate * Rest(f)
      BY <1>1, <1>2, <1>5, <2>2
    <3>2. \A i \in B \cup {n} : kp[i] \in Int
      BY <1>11, <2>1, <3>1
    <3>3. SumFunctionOnSet(kp, B \cup {n}) = SumFunctionOnSet(kp, B) + kp[n]
      BY <1>1, <3>1, <3>2, SumAdd
    <3> QED BY <3>1, <3>3
  <2>3. CASE Rest(f) = 0
    <3>1. Dp = B
      BY <1>2, <2>3
    <3>2. SumFunctionOnSet(kp, B) \in Int
      BY <1>1, <2>1, SumType
    <3>3. f.rate * Rest(f) = 0
      <4>1. f.rate \in Nat
        BY DEF FillShape
      <4> QED BY <2>3, <4>1
    <3> QED BY <3>1, <3>2, <3>3
  <2> QED BY <1>2, <2>2, <2>3
<1>18. SumFunctionOnSet(h, D) \in Int /\ SumFunctionOnSet(k, D) \in Int /\ SumFunctionOnSet(ed, D) \in Int
  BY <1>1, <1>3, SumType
<1> QED BY <1>6, <1>7, <1>8, <1>11, <1>12, <1>13, <1>14, <1>15, <1>16, <1>17, <1>18

-----------------------------------------------------------------------------

\* Prices, and the fills of a day.
ArePrices(g) == \A s \in DOMAIN g : g[s] \in Nat
AreDeals(deals) == IsFiniteSet(DOMAIN deals) /\ \A k \in DOMAIN deals : deals[k] \in FillShape

\* What some fills of a symbol do to its position.
Moved(deals, s) ==
  SumFunctionOnSet([k \in FillsOf(deals, s) |-> Change(deals[k])], FillsOf(deals, s))

\* The price of a symbol, or the default.
LEMMA GetIs ==
  ASSUME NEW g, ArePrices(g), NEW s, NEW d \in Nat
  PROVE  Get(g, s, d) \in Nat
BY DEF ArePrices, Get

\* The parts of a fill.
LEMMA ChangeIs ==
  ASSUME NEW f \in FillShape
  PROVE  /\ Change(f) \in Int /\ Fees(f) \in Nat /\ f.price \in Nat /\ f.sym \in LedgerSymbols
         /\ f.qty \in Nat
BY DEF Change, Fees, FillShape

\* The shares that the fills of a symbol moved.
LEMMA MovedIs ==
  ASSUME NEW deals, AreDeals(deals), NEW s
  PROVE  /\ IsFiniteSet(FillsOf(deals, s)) /\ Moved(deals, s) \in Int
         /\ FillsOf(deals, s) = {} => Moved(deals, s) = 0
         /\ FillsOf(deals, s) \in SUBSET DOMAIN deals
<1> DEFINE F == FillsOf(deals, s)
           g == [k \in F |-> Change(deals[k])]
<1>1. F \in SUBSET DOMAIN deals /\ IsFiniteSet(F)
  BY FS_Subset DEF FillsOf, AreDeals
<1>2. \A k \in F : g[k] \in Int
  BY <1>1, ChangeIs DEF AreDeals
<1>3. Moved(deals, s) = SumFunctionOnSet(g, F)
  BY DEF Moved
<1> HIDE DEF g, F
<1>4. SumFunctionOnSet(g, F) \in Int
  BY <1>1, <1>2, SumType
<1>5. F = {} => SumFunctionOnSet(g, F) = 0
  BY SumEmpty
<1> QED BY <1>1, <1>3, <1>4, <1>5 DEF F

\* What the trades of a symbol earned, at a price.
Earned(deals, s, c) ==
  SumFunctionOnSet([k \in FillsOf(deals, s) |-> Change(deals[k]) * (c - deals[k].price) - Fees(deals[k])],
                   FillsOf(deals, s))

\* What they earned is a number.
LEMMA EarnedIs ==
  ASSUME NEW deals, AreDeals(deals), NEW s, NEW c \in Nat
  PROVE  Earned(deals, s, c) \in Int /\ (FillsOf(deals, s) = {} => Earned(deals, s, c) = 0)
<1> DEFINE F == FillsOf(deals, s)
           g == [k \in F |-> Change(deals[k]) * (c - deals[k].price) - Fees(deals[k])]
<1>1. F \in SUBSET DOMAIN deals /\ IsFiniteSet(F)
  BY MovedIs
<1>2. \A k \in F : g[k] \in Int
  <2> TAKE k \in F
  <2>1. Change(deals[k]) \in Int /\ Fees(deals[k]) \in Int /\ deals[k].price \in Int
    BY <1>1, ChangeIs DEF AreDeals
  <2>2. Change(deals[k]) * (c - deals[k].price) - Fees(deals[k]) \in Int
    BY <2>1
  <2> QED BY <2>2
<1>3. Earned(deals, s, c) = SumFunctionOnSet(g, F)
  BY DEF Earned
<1> HIDE DEF g, F
<1>4. SumFunctionOnSet(g, F) \in Int
  BY <1>1, <1>2, SumType
<1>5. F = {} => SumFunctionOnSet(g, F) = 0
  BY SumEmpty
<1> QED BY <1>3, <1>4, <1>5 DEF F

\* Another price: the shares moved earn the difference.
LEMMA EarnedAt ==
  ASSUME NEW deals, AreDeals(deals), NEW s, NEW c \in Nat, NEW d \in Nat
  PROVE  Earned(deals, s, d) = Earned(deals, s, c) + (d - c) * Moved(deals, s)
<1> DEFINE F == FillsOf(deals, s)
           g == [k \in F |-> Change(deals[k]) * (c - deals[k].price) - Fees(deals[k])]
           h == [k \in F |-> Change(deals[k]) * (d - deals[k].price) - Fees(deals[k])]
           m == [k \in F |-> Change(deals[k])]
           e == [k \in F |-> (d - c) * m[k]]
<1>1. F \in SUBSET DOMAIN deals /\ IsFiniteSet(F)
  BY MovedIs
<1>2. \A k \in F : g[k] \in Int /\ m[k] \in Int /\ e[k] = (d - c) * m[k] /\ e[k] \in Int /\ h[k] = g[k] + e[k]
  <2> TAKE k \in F
  <2> DEFINE x == Change(deals[k])
             p == deals[k].price
             z == Fees(deals[k])
  <2>1. x \in Int /\ z \in Int /\ p \in Int
    BY <1>1, ChangeIs DEF AreDeals
  <2>2. g[k] = x * (c - p) - z /\ h[k] = x * (d - p) - z /\ m[k] = x /\ e[k] = (d - c) * x
    OBVIOUS
  <2> HIDE DEF x, p, z, g, h, m, e
  <2>3. x * (d - p) = x * (c - p) + (d - c) * x
    BY <2>1
  <2>4. x * (c - p) \in Int /\ (d - c) * x \in Int
    BY <2>1
  <2> QED BY <2>1, <2>2, <2>3, <2>4
<1>3. /\ Earned(deals, s, c) = SumFunctionOnSet(g, F) /\ Earned(deals, s, d) = SumFunctionOnSet(h, F)
      /\ Moved(deals, s) = SumFunctionOnSet(m, F)
  BY DEF Earned, Moved
<1> HIDE DEF g, h, m, e, F
<1>4. SumFunctionOnSet(h, F) = SumFunctionOnSet(g, F) + SumFunctionOnSet(e, F)
  BY <1>1, <1>2, SumOfBoth
<1>5. SumFunctionOnSet(e, F) = (d - c) * SumFunctionOnSet(m, F)
  <2>1. d - c \in Int /\ \A k \in F : m[k] \in Int /\ e[k] = (d - c) * m[k]
    BY <1>2
  <2> QED BY <1>1, <2>1, SumScaled
<1> QED BY <1>3, <1>4, <1>5

\* One more fill.
LEMMA DealAdded ==
  ASSUME NEW deals, AreDeals(deals), NEW n, n \notin DOMAIN deals, NEW f \in FillShape
  PROVE  /\ AreDeals(With(deals, n, f))
         /\ \A s : s # f.sym =>
              /\ FillsOf(With(deals, n, f), s) = FillsOf(deals, s)
              /\ Moved(With(deals, n, f), s) = Moved(deals, s)
              /\ \A c \in Nat : Earned(With(deals, n, f), s, c) = Earned(deals, s, c)
         /\ Moved(With(deals, n, f), f.sym) = Moved(deals, f.sym) + Change(f)
         /\ \A c \in Nat : Earned(With(deals, n, f), f.sym, c)
                             = Earned(deals, f.sym, c) + (Change(f) * (c - f.price) - Fees(f))
<1> DEFINE more == With(deals, n, f)
<1>1. /\ DOMAIN more = DOMAIN deals \cup {n} /\ more[n] = f
      /\ \A k \in DOMAIN deals : more[k] = deals[k]
  BY DEF With
<1> HIDE DEF more
<1>2. AreDeals(more)
  <2>1. IsFiniteSet(DOMAIN more)
    BY <1>1, FS_AddElement DEF AreDeals
  <2>2. \A k \in DOMAIN more : more[k] \in FillShape
    BY <1>1 DEF AreDeals
  <2> QED BY <2>1, <2>2 DEF AreDeals
<1>3. ASSUME NEW s, s # f.sym
      PROVE  /\ FillsOf(more, s) = FillsOf(deals, s)
             /\ Moved(more, s) = Moved(deals, s)
             /\ \A c \in Nat : Earned(more, s, c) = Earned(deals, s, c)
  <2>1. FillsOf(more, s) = FillsOf(deals, s)
    BY <1>1, <1>3 DEF FillsOf
  <2>2. \A k \in FillsOf(deals, s) : more[k] = deals[k]
    BY <1>1 DEF FillsOf
  <2>3. [k \in FillsOf(deals, s) |-> Change(more[k])] = [k \in FillsOf(deals, s) |-> Change(deals[k])]
    BY <2>2
  <2>4. Moved(more, s) = Moved(deals, s)
    BY <2>1, <2>3 DEF Moved
  <2>5. ASSUME NEW c \in Nat PROVE Earned(more, s, c) = Earned(deals, s, c)
    <3>1. [k \in FillsOf(deals, s) |-> Change(more[k]) * (c - more[k].price) - Fees(more[k])]
            = [k \in FillsOf(deals, s) |-> Change(deals[k]) * (c - deals[k].price) - Fees(deals[k])]
      BY <2>2
    <3> QED BY <2>1, <3>1 DEF Earned
  <2> QED BY <2>1, <2>4, <2>5
<1> DEFINE F == FillsOf(deals, f.sym)
           G == FillsOf(more, f.sym)
<1>4. G = F \cup {n} /\ n \notin F /\ IsFiniteSet(F) /\ IsFiniteSet(G)
      /\ (\A k \in F : k \in DOMAIN deals /\ more[k] = deals[k]) /\ G \subseteq DOMAIN more
  <2>1. G = F \cup {n} /\ n \notin F /\ F \subseteq DOMAIN deals /\ G \subseteq DOMAIN more
    BY <1>1 DEF FillsOf
  <2>2. IsFiniteSet(F) /\ IsFiniteSet(G)
    BY <1>2, MovedIs
  <2> QED BY <1>1, <2>1, <2>2
<1>5. Moved(more, f.sym) = Moved(deals, f.sym) + Change(f)
  <2> DEFINE g == [k \in F |-> Change(deals[k])]
             h == [k \in G |-> Change(more[k])]
  <2>1. Moved(deals, f.sym) = SumFunctionOnSet(g, F) /\ Moved(more, f.sym) = SumFunctionOnSet(h, G)
    BY DEF Moved
  <2>2. \A k \in F : h[k] = g[k]
    BY <1>4
  <2>3. \A k \in G : h[k] \in Int
    BY <1>2, <1>4, ChangeIs DEF AreDeals
  <2>4. h[n] = Change(f)
    BY <1>1, <1>4
  <2> HIDE DEF F, G, g, h
  <2>5. SumFunctionOnSet(h, F \cup {n}) = SumFunctionOnSet(h, F) + h[n]
    <3>1. \A k \in F \cup {n} : h[k] \in Int
      BY <1>4, <2>3
    <3> QED BY <1>4, <3>1, SumAdd
  <2>6. SumFunctionOnSet(h, F) = SumFunctionOnSet(g, F)
    BY <1>4, <2>2, SumSame
  <2> QED BY <1>4, <2>1, <2>4, <2>5, <2>6
<1>6. ASSUME NEW c \in Nat
      PROVE  Earned(more, f.sym, c) = Earned(deals, f.sym, c) + (Change(f) * (c - f.price) - Fees(f))
  <2> DEFINE g == [k \in F |-> Change(deals[k]) * (c - deals[k].price) - Fees(deals[k])]
             h == [k \in G |-> Change(more[k]) * (c - more[k].price) - Fees(more[k])]
  <2>1. Earned(deals, f.sym, c) = SumFunctionOnSet(g, F) /\ Earned(more, f.sym, c) = SumFunctionOnSet(h, G)
    BY DEF Earned
  <2>2. \A k \in F : h[k] = g[k]
    BY <1>4
  <2>3. \A k \in G : h[k] \in Int
    <3> TAKE k \in G
    <3>1. Change(more[k]) \in Int /\ Fees(more[k]) \in Int /\ more[k].price \in Int
      BY <1>2, <1>4, ChangeIs DEF AreDeals
    <3>2. Change(more[k]) * (c - more[k].price) - Fees(more[k]) \in Int
      BY <3>1
    <3> QED BY <3>2
  <2>4. h[n] = Change(f) * (c - f.price) - Fees(f)
    BY <1>1, <1>4
  <2> HIDE DEF F, G, g, h
  <2>5. SumFunctionOnSet(h, F \cup {n}) = SumFunctionOnSet(h, F) + h[n]
    <3>1. \A k \in F \cup {n} : h[k] \in Int
      BY <1>4, <2>3
    <3> QED BY <1>4, <3>1, SumAdd
  <2>6. SumFunctionOnSet(h, F) = SumFunctionOnSet(g, F)
    BY <1>4, <2>2, SumSame
  <2> QED BY <1>4, <2>1, <2>4, <2>5, <2>6
<1> QED BY <1>2, <1>3, <1>5, <1>6 DEF more

\* The result of a contract: what was held, and what was traded.
LEMMA ContractIs ==
  ASSUME NEW owned \in [LedgerSymbols -> Int], NEW deals, AreDeals(deals), NEW s \in LedgerSymbols,
         NEW closeOf, ArePrices(closeOf), NEW pre, ArePrices(pre)
  PROVE  /\ ContractPnl(s, owned, deals, closeOf, pre)
              = HoldingPnl(s, owned, closeOf, pre) + Earned(deals, s, Get(closeOf, s, 0))
         /\ HoldingPnl(s, owned, closeOf, pre) \in Int
         /\ ContractPnl(s, owned, deals, closeOf, pre) \in Int
         /\ s \notin Active(owned, deals) => ContractPnl(s, owned, deals, closeOf, pre) = 0
<1> DEFINE c == Get(closeOf, s, 0)
           p == Get(pre, s, c)
           F == FillsOf(deals, s)
           g == [k \in F |-> TradingPnl(deals[k], closeOf)]
           h == [k \in F |-> Change(deals[k]) * (c - deals[k].price) - Fees(deals[k])]
<1>1. c \in Nat /\ p \in Nat
  BY GetIs
<1>2. g = h
  <2>1. \A k \in F : deals[k].sym = s
    BY DEF FillsOf
  <2>2. \A k \in F : TradingPnl(deals[k], closeOf) = Change(deals[k]) * (c - deals[k].price) - Fees(deals[k])
    BY <2>1 DEF TradingPnl
  <2> HIDE DEF F, c
  <2> QED BY <2>2
<1>3. SumOver(g) = Earned(deals, s, c)
  <2>1. SumOver(g) = SumFunctionOnSet(h, F)
    BY <1>2 DEF SumOver
  <2> QED BY <2>1 DEF Earned
<1>4. Earned(deals, s, c) \in Int /\ (F = {} => Earned(deals, s, c) = 0)
  BY <1>1, EarnedIs
<1>5. HoldingPnl(s, owned, closeOf, pre) = owned[s] * (c - p)
  BY DEF HoldingPnl
<1>6. owned[s] \in Int /\ owned[s] * (c - p) \in Int /\ (owned[s] = 0 => owned[s] * (c - p) = 0)
  BY <1>1
<1>7. ContractPnl(s, owned, deals, closeOf, pre) = HoldingPnl(s, owned, closeOf, pre) + SumOver(g)
  BY DEF ContractPnl
<1>8. s \notin Active(owned, deals) => owned[s] = 0 /\ F = {}
  BY DEF Active
<1> HIDE DEF c, p, F, g, h
<1>9. ContractPnl(s, owned, deals, closeOf, pre) \in Int
  BY <1>3, <1>4, <1>5, <1>6, <1>7
<1>10. s \notin Active(owned, deals) => ContractPnl(s, owned, deals, closeOf, pre) = 0
  BY <1>3, <1>4, <1>5, <1>6, <1>7, <1>8
<1> QED BY <1>3, <1>5, <1>6, <1>7, <1>9, <1>10 DEF c

\* The day's result is that of all symbols: those neither held nor traded earn nothing.
LEMMA NetIs ==
  ASSUME NEW owned \in [LedgerSymbols -> Int], NEW deals, AreDeals(deals),
         NEW closeOf, ArePrices(closeOf), NEW pre, ArePrices(pre)
  PROVE  /\ NetPnl(owned, deals, closeOf, pre)
              = SumFunctionOnSet([s \in LedgerSymbols |-> ContractPnl(s, owned, deals, closeOf, pre)], LedgerSymbols)
         /\ NetPnl(owned, deals, closeOf, pre) \in Int
<1> DEFINE T == Active(owned, deals)
           g == [s \in T |-> ContractPnl(s, owned, deals, closeOf, pre)]
           h == [s \in LedgerSymbols |-> ContractPnl(s, owned, deals, closeOf, pre)]
<1>1. T \in SUBSET LedgerSymbols /\ IsFiniteSet(LedgerSymbols) /\ IsFiniteSet(T)
  BY LedgerAssumption, FS_Subset DEF Active
<1>2. \A s \in LedgerSymbols : h[s] \in Int
  BY ContractIs
<1>3. \A s \in LedgerSymbols \ T : h[s] = 0
  BY ContractIs
<1>4. \A s \in T : g[s] = h[s]
  BY <1>1
<1>5. NetPnl(owned, deals, closeOf, pre) = SumFunctionOnSet(g, T)
  BY DEF NetPnl, SumOver
<1> HIDE DEF T, g, h
<1>6. SumFunctionOnSet(h, LedgerSymbols) = SumFunctionOnSet(h, T)
  BY <1>1, <1>2, <1>3, SumPart
<1>7. SumFunctionOnSet(g, T) = SumFunctionOnSet(h, T)
  BY <1>1, <1>4, SumSame
<1>8. SumFunctionOnSet(h, LedgerSymbols) \in Int
  BY <1>1, <1>2, SumType
<1> QED BY <1>5, <1>6, <1>7, <1>8 DEF h

\* One time point of a day: the fill of f.sym and its close c.
LEMMA NetSteps ==
  ASSUME NEW owned \in [LedgerSymbols -> Int], NEW deals, AreDeals(deals),
         NEW closeOf, ArePrices(closeOf), NEW pre, ArePrices(pre),
         NEW n, n \notin DOMAIN deals, NEW f \in FillShape, NEW c \in Nat,
         f.sym \notin DOMAIN pre => owned[f.sym] = 0
  PROVE  NetPnl(owned, With(deals, n, f), With(closeOf, f.sym, c), pre)
           = NetPnl(owned, deals, closeOf, pre)
               + (owned[f.sym] + Moved(deals, f.sym)) * (c - Get(closeOf, f.sym, 0))
               + (Change(f) * (c - f.price) - Fees(f))
<1> DEFINE more == With(deals, n, f)
           marks == With(closeOf, f.sym, c)
           g == [s \in LedgerSymbols |-> ContractPnl(s, owned, deals, closeOf, pre)]
           h == [s \in LedgerSymbols |-> ContractPnl(s, owned, more, marks, pre)]
           x == f.sym
           d == Get(closeOf, x, 0)
           e == Change(f) * (c - f.price) - Fees(f)
<1>1. DOMAIN marks = DOMAIN closeOf \cup {x} /\ marks[x] = c
      /\ \A y \in DOMAIN closeOf : y # x => marks[y] = closeOf[y]
  BY DEF With
<1>2. ArePrices(marks)
  <2> HIDE DEF marks, x
  <2> QED BY <1>1 DEF ArePrices
<1>3. AreDeals(more)
  BY DealAdded
<1>4. x \in LedgerSymbols /\ e \in Int
  <2>1. Change(f) \in Int /\ f.price \in Int /\ Fees(f) \in Int
    BY ChangeIs
  <2>2. e \in Int
    BY <2>1
  <2> HIDE DEF e
  <2> QED BY <2>2, ChangeIs
<1>5. d \in Nat
  BY GetIs
<1>6. Get(marks, x, 0) = c
  BY <1>1 DEF Get
<1>7. \A s \in LedgerSymbols : s # x => Get(marks, s, 0) = Get(closeOf, s, 0)
  <2> HIDE DEF marks, x
  <2> QED BY <1>1 DEF Get
<1>8. \A s \in LedgerSymbols : g[s] \in Int /\ h[s] \in Int
  <2> HIDE DEF marks, more
  <2> QED BY <1>2, <1>3, ContractIs
<1>9. ASSUME NEW s \in LedgerSymbols, s # x PROVE h[s] = g[s]
  <2> DEFINE a == Get(closeOf, s, 0)
  <2>1. a \in Nat
    BY GetIs
  <2>2. Get(marks, s, 0) = a
    BY <1>7, <1>9
  <2>3. Earned(more, s, a) = Earned(deals, s, a)
    BY <1>9, <2>1, DealAdded
  <2>4. HoldingPnl(s, owned, marks, pre) = HoldingPnl(s, owned, closeOf, pre)
    BY <2>2 DEF HoldingPnl
  <2>5. g[s] = HoldingPnl(s, owned, closeOf, pre) + Earned(deals, s, a)
    BY ContractIs
  <2>6. h[s] = HoldingPnl(s, owned, marks, pre) + Earned(more, s, a)
    <3> HIDE DEF marks, more, a
    <3> QED BY <1>2, <1>3, <2>2, ContractIs
  <2> QED BY <2>3, <2>4, <2>5, <2>6
<1>10. h[x] = g[x] + (owned[x] + Moved(deals, x)) * (c - d) + e
  <2> DEFINE p == owned[x]
             m == Moved(deals, x)
             u == Earned(deals, x, d)
             v == Earned(deals, x, c)
             hg == HoldingPnl(x, owned, closeOf, pre)
             hh == HoldingPnl(x, owned, marks, pre)
  <2>1. g[x] = hg + u /\ hg \in Int
    BY <1>4, ContractIs
  <2>2. h[x] = hh + Earned(more, x, c)
    <3> HIDE DEF marks, more
    <3> QED BY <1>2, <1>3, <1>4, <1>6, ContractIs
  <2>3. Earned(more, x, c) = v + e
    BY DealAdded
  <2>4. v = u + (c - d) * m
    BY <1>5, EarnedAt
  <2>5. u \in Int /\ m \in Int /\ p \in Int
    BY <1>4, <1>5, EarnedIs, MovedIs
  <2>6. hh = hg + p * (c - d)
    <3> DEFINE o == Get(pre, x, d)
    <3>1. o \in Nat
      BY <1>5, GetIs
    <3>2. hg = p * (d - o)
      BY DEF HoldingPnl
    <3>3. hh = p * (c - Get(pre, x, c))
      BY <1>6 DEF HoldingPnl
    <3>4. CASE x \in DOMAIN pre
      <4>1. Get(pre, x, c) = o
        BY <3>4 DEF Get
      <4> HIDE DEF o, hg, hh, p, d
      <4>2. p * (c - o) = p * (d - o) + p * (c - d)
        BY <1>5, <2>5, <3>1
      <4> QED BY <3>2, <3>3, <4>1, <4>2
    <3>5. CASE x \notin DOMAIN pre
      <4>1. p = 0
        BY <3>5
      <4>2. Get(pre, x, c) \in Nat
        BY GetIs
      <4> HIDE DEF o, hg, hh, p, d
      <4>3. p * (d - o) = 0 /\ p * (c - d) = 0 /\ p * (c - Get(pre, x, c)) = 0
        BY <1>5, <3>1, <4>1, <4>2
      <4> QED BY <3>2, <3>3, <4>3
    <3> QED BY <3>4, <3>5
  <2> HIDE DEF p, m, u, v, hg, hh, g, h, d, e, x, more, marks
  <2>7. (p + m) * (c - d) = p * (c - d) + (c - d) * m
    BY <1>5, <2>5
  <2>8. p * (c - d) \in Int /\ (c - d) * m \in Int
    BY <1>5, <2>5
  <2>9. h[x] = g[x] + (p + m) * (c - d) + e
    BY <1>4, <2>1, <2>2, <2>3, <2>4, <2>5, <2>6, <2>7, <2>8
  <2> QED BY <2>9 DEF p, m
<1>11. NetPnl(owned, deals, closeOf, pre) = SumFunctionOnSet(g, LedgerSymbols)
  BY NetIs
<1>12. NetPnl(owned, more, marks, pre) = SumFunctionOnSet(h, LedgerSymbols)
  <2> HIDE DEF more, marks
  <2> QED BY <1>2, <1>3, NetIs
<1>13. IsFiniteSet(LedgerSymbols)
  BY LedgerAssumption
<1>14. (owned[x] + Moved(deals, x)) * (c - d) \in Int
  <2>1. owned[x] \in Int /\ Moved(deals, x) \in Int
    BY <1>4, MovedIs
  <2> HIDE DEF d, x
  <2> QED BY <1>5, <2>1
<1> DEFINE k == (owned[x] + Moved(deals, x)) * (c - d)
<1>15. k \in Int /\ h[x] = g[x] + k + e
  BY <1>10, <1>14
<1> HIDE DEF g, h, x, d, e, more, marks, k
<1>16. SumFunctionOnSet(h, LedgerSymbols) = SumFunctionOnSet(g, LedgerSymbols) - g[x] + h[x]
  <2>1. \A y \in LedgerSymbols \ {x} : g[y] = h[y]
    BY <1>9
  <2> QED BY <1>4, <1>8, <1>13, <2>1, SumChange
<1>17. SumFunctionOnSet(g, LedgerSymbols) \in Int
  BY <1>8, <1>13, SumType
<1>18. SumFunctionOnSet(h, LedgerSymbols) = SumFunctionOnSet(g, LedgerSymbols) + k + e
  BY <1>4, <1>8, <1>15, <1>16, <1>17
<1>19. NetPnl(owned, more, marks, pre) = NetPnl(owned, deals, closeOf, pre) + k + e
  BY <1>11, <1>12, <1>18
<1> QED BY <1>19 DEF x, d, e, k, more, marks

\* A day that has only begun has earned nothing.
LEMMA NewDayIsEven ==
  ASSUME NEW owned \in [LedgerSymbols -> Int], NEW closeOf, ArePrices(closeOf)
  PROVE  NetPnl(owned, <<>>, closeOf, closeOf) = 0 /\ AreDeals(<<>>) /\ \A s : Moved(<<>>, s) = 0
<1>1. DOMAIN <<>> = {}
  OBVIOUS
<1>2. AreDeals(<<>>)
  BY <1>1, FS_EmptySet DEF AreDeals
<1>3. \A s : FillsOf(<<>>, s) = {}
  BY <1>1 DEF FillsOf
<1>4. \A s : Moved(<<>>, s) = 0
  BY <1>2, <1>3, MovedIs
<1> DEFINE g == [s \in LedgerSymbols |-> ContractPnl(s, owned, <<>>, closeOf, closeOf)]
<1>5. ASSUME NEW s \in LedgerSymbols PROVE g[s] = 0
  <2> DEFINE c == Get(closeOf, s, 0)
  <2>1. c \in Nat
    BY GetIs
  <2>2. Get(closeOf, s, c) = c
    BY DEF Get
  <2>3. HoldingPnl(s, owned, closeOf, closeOf) = owned[s] * (c - c)
    BY <2>2 DEF HoldingPnl
  <2>4. Earned(<<>>, s, c) = 0
    BY <1>2, <1>3, <2>1, EarnedIs
  <2>5. g[s] = HoldingPnl(s, owned, closeOf, closeOf) + Earned(<<>>, s, c)
    BY <1>2, ContractIs
  <2>6. owned[s] \in Int
    OBVIOUS
  <2> HIDE DEF c, g
  <2>7. owned[s] * (c - c) = 0
    <3>1. c - c = 0
      BY <2>1
    <3>2. owned[s] * 0 = 0
      BY <2>6
    <3> QED BY <3>1, <3>2
  <2> QED BY <2>3, <2>4, <2>5, <2>7
<1>6. NetPnl(owned, <<>>, closeOf, closeOf) = SumFunctionOnSet(g, LedgerSymbols)
  BY <1>2, NetIs
<1>7. IsFiniteSet(LedgerSymbols)
  BY LedgerAssumption
<1> HIDE DEF g
<1>8. SumFunctionOnSet(g, LedgerSymbols) = SumFunctionOnSet(g, {})
  <2>1. {} \in SUBSET LedgerSymbols /\ (\A s \in LedgerSymbols : g[s] \in Int) /\ \A s \in LedgerSymbols \ {} : g[s] = 0
    BY <1>5
  <2> QED BY <1>7, <2>1, SumPart
<1> QED BY <1>2, <1>4, <1>6, <1>8, SumEmpty

\* The value of positions at prices.
Worth(owned, prices) ==
  SumFunctionOnSet([s \in LedgerSymbols |-> owned[s] * Get(prices, s, 0)], LedgerSymbols)

\* The value of positions, after a deal and another close of one symbol.
LEMMA WorthSteps ==
  ASSUME NEW owned \in [LedgerSymbols -> Int], NEW closeOf, ArePrices(closeOf),
         NEW x \in LedgerSymbols, NEW c \in Nat,
         NEW next \in [LedgerSymbols -> Int],
         \A y \in LedgerSymbols : y # x => next[y] = owned[y]
  PROVE  /\ Worth(owned, closeOf) \in Int
         /\ Worth(next, With(closeOf, x, c))
              = Worth(owned, closeOf) + owned[x] * (c - Get(closeOf, x, 0)) + (next[x] - owned[x]) * c
<1> DEFINE marks == With(closeOf, x, c)
           g == [s \in LedgerSymbols |-> owned[s] * Get(closeOf, s, 0)]
           h == [s \in LedgerSymbols |-> next[s] * Get(marks, s, 0)]
           d == Get(closeOf, x, 0)
           p == owned[x]
           a == next[x] - owned[x]
<1>1. DOMAIN marks = DOMAIN closeOf \cup {x} /\ marks[x] = c
      /\ \A y \in DOMAIN closeOf : y # x => marks[y] = closeOf[y]
  BY DEF With
<1>2. Get(marks, x, 0) = c
  BY <1>1 DEF Get
<1>3. \A s \in LedgerSymbols : s # x => Get(marks, s, 0) = Get(closeOf, s, 0)
  <2> HIDE DEF marks
  <2> QED BY <1>1 DEF Get
<1>4. \A s \in LedgerSymbols : Get(closeOf, s, 0) \in Nat
  BY GetIs
<1>5. d \in Nat /\ p \in Int /\ a \in Int /\ next[x] = p + a
  BY <1>4
<1>6. \A s \in LedgerSymbols : g[s] \in Int
  BY <1>4
<1>7. \A s \in LedgerSymbols \ {x} : g[s] = h[s]
  <2> HIDE DEF marks
  <2> QED BY <1>3
<1>8. g[x] = p * d /\ h[x] = (p + a) * c
  <2> HIDE DEF p, a, marks
  <2> QED BY <1>2, <1>5 DEF p
<1>9. Worth(owned, closeOf) = SumFunctionOnSet(g, LedgerSymbols)
      /\ Worth(next, marks) = SumFunctionOnSet(h, LedgerSymbols)
  BY DEF Worth
<1>10. IsFiniteSet(LedgerSymbols)
  BY LedgerAssumption
<1> HIDE DEF marks, g, h, d, p, a
<1>11. p * d \in Int /\ (p + a) * c \in Int
  BY <1>5
<1>12. \A s \in LedgerSymbols : h[s] \in Int
  BY <1>6, <1>7, <1>8, <1>11
<1>13. SumFunctionOnSet(h, LedgerSymbols) = SumFunctionOnSet(g, LedgerSymbols) - g[x] + h[x]
  BY <1>6, <1>7, <1>10, <1>12, SumChange
<1>14. SumFunctionOnSet(g, LedgerSymbols) \in Int
  BY <1>6, <1>10, SumType
<1>15. (p + a) * c - p * d = p * (c - d) + a * c /\ p * (c - d) \in Int /\ a * c \in Int
  BY <1>5
<1>16. Worth(next, marks) = Worth(owned, closeOf) + p * (c - d) + a * c
  <2> DEFINE u == (p + a) * c
             v == p * d
             w == p * (c - d)
             z == a * c
  <2>1. u \in Int /\ v \in Int /\ w \in Int /\ z \in Int /\ u - v = w + z
    BY <1>11, <1>15
  <2>2. h[x] = u /\ g[x] = v
    BY <1>8
  <2> HIDE DEF u, v, w, z
  <2>3. Worth(next, marks) = Worth(owned, closeOf) + w + z
    BY <1>9, <1>13, <1>14, <2>1, <2>2
  <2> QED BY <2>3 DEF w, z
<1> QED BY <1>9, <1>14, <1>16 DEF marks, p, d, a

-----------------------------------------------------------------------------

LastEnd == IF dayEnds = <<>> THEN 0 ELSE dayEnds[Len(dayEnds)]

LedgersTyped ==
  /\ points \in 0 .. MaxLedgerPoints /\ ended \in BOOLEAN
  /\ ledgerCash \in Int /\ flow \in Int /\ commission \in Nat /\ realized \in Int
  /\ position \in [LedgerSymbols -> Int] /\ start \in [LedgerSymbols -> Int]
  /\ ArePrices(closes) /\ DOMAIN closes \subseteq LedgerSymbols
  /\ ArePrices(preClose) /\ DOMAIN preClose \subseteq DOMAIN closes
  /\ AreDeals(fills) /\ DOMAIN fills \subseteq 1 .. points
  /\ results \in Seq(Int) /\ dayEnds \in Seq(Int) /\ Len(results) = Len(dayEnds)

PnlOf(ts) == SumOver([i \in DOMAIN ts |-> ts[i].pnl])
FeeOf(ts) == SumOver([i \in DOMAIN ts |-> ts[i].fee])
TripsTyped ==
  DOMAIN trips = 1 .. points /\ \A k \in DOMAIN trips : PnlOf(trips[k]) \in Int /\ FeeOf(trips[k]) \in Int

\* The day so far: its fills are what the position changed by, only what has a
\* price is held, and the equity grew by what the day earned.
DayIsEven ==
  /\ \A s \in LedgerSymbols : position[s] = start[s] + Moved(fills, s)
  /\ \A s \in LedgerSymbols : s \notin DOMAIN preClose => start[s] = 0
  /\ \A s \in LedgerSymbols : s \notin DOMAIN closes => position[s] = 0
  /\ points = 0 => fills = <<>> /\ flow = 0 /\ start = position
  /\ ~ended => Equity = LastEnd + NetPnl(start, fills, closes, preClose) + flow

LedgersInv ==
  /\ LedgersTyped /\ LotsTyped /\ FeesAreEven /\ TripsTyped
  /\ PnlIsWhole /\ CommissionIsWhole /\ LotsArePosition
  /\ DayIsEven /\ DailyPnlIsEquity

\* A fill of a time point.
LEMMA FillOfIs ==
  ASSUME NEW s \in LedgerSymbols, NEW deal \in LedgerTrades
  PROVE  FillOf(s, deal) \in FillShape /\ FillOf(s, deal).sym = s
<1>1. deal \in [side : {"BUY", "SELL"}, qty : Nat, price : Nat, rate : Nat, gain : Int]
  BY LedgerAssumption
<1> QED BY <1>1 DEF FillOf, FillShape

\* The equity is the cash and what the position is worth.
LEMMA EquityIs == Equity = ledgerCash + Worth(position, closes)
BY DEF Equity, Worth, SumOver

\* The first state of a backtest.
LEMMA LedgersInvInit == LedgerInit => LedgersInv
<1> SUFFICES ASSUME LedgerInit PROVE LedgersInv
  OBVIOUS
<1> USE DEF LedgerInit
<1>0. DOMAIN <<>> = {} /\ <<>> \in Seq(Int) /\ Len(<<>>) = 0 /\ 1 .. 0 = {}
  OBVIOUS
<1>1. ArePrices(<<>>)
  BY <1>0 DEF ArePrices
<1>2. position \in [LedgerSymbols -> Int] /\ start = position
  OBVIOUS
<1>3. NetPnl(position, <<>>, <<>>, <<>>) = 0 /\ AreDeals(<<>>) /\ \A s : Moved(<<>>, s) = 0
  BY <1>1, <1>2, NewDayIsEven
<1>4. LedgersTyped
  <2>2. ledgerCash \in Int /\ flow \in Int /\ commission \in Nat /\ realized \in Int
    OBVIOUS
  <2>3. ArePrices(closes) /\ ArePrices(preClose)
    BY <1>1
  <2>4. DOMAIN closes = {} /\ DOMAIN preClose = {} /\ DOMAIN fills = {}
    BY <1>0
  <2>5. AreDeals(fills)
    BY <1>3
  <2>6. results = <<>> /\ dayEnds = <<>>
    OBVIOUS
  <2>7. start \in [LedgerSymbols -> Int]
    BY <1>2
  <2>9. points = 0
    OBVIOUS
  <2>10. ended \in BOOLEAN
    OBVIOUS
  <2> HIDE DEF LedgerInit
  <2>1. points \in 0 .. MaxLedgerPoints
    <3>1. MaxLedgerPoints \in Nat
      BY LedgerAssumption
    <3> QED BY <2>9, <3>1
  <2>8. results \in Seq(Int) /\ dayEnds \in Seq(Int) /\ Len(results) = Len(dayEnds)
    BY <1>0, <2>6
  <2> QED BY <1>2, <2>1, <2>2, <2>3, <2>4, <2>5, <2>7, <2>8, <2>10 DEF LedgersTyped
<1>5. LotsTyped /\ FeesAreEven
  BY <1>0 DEF LotsTyped, FeesAreEven
<1>6. TripsTyped
  BY <1>0 DEF TripsTyped
<1>7. \A g : DOMAIN g = {} => SumOver(g) = 0
  BY SumEmpty DEF SumOver
<1>8. PnlIsWhole
  <2>1. DOMAIN [n \in DOMAIN trips |-> SumOver([i \in DOMAIN trips[n] |-> trips[n][i].pnl])] = {}
    BY <1>0
  <2> QED BY <1>7, <2>1 DEF PnlIsWhole
<1>9. CommissionIsWhole
  <2>1. DOMAIN [n \in DOMAIN trips |-> SumOver([i \in DOMAIN trips[n] |-> trips[n][i].fee])] = {}
    BY <1>0
  <2>2. DOMAIN [i \in DOMAIN openLots |-> Share(openLots[i].fee, openLots[i].qty, openLots[i].orig)] = {}
    BY <1>0
  <2> DEFINE a == [n \in DOMAIN trips |-> SumOver([i \in DOMAIN trips[n] |-> trips[n][i].fee])]
             b == [i \in DOMAIN openLots |-> Share(openLots[i].fee, openLots[i].qty, openLots[i].orig)]
  <2>3. SumOver(a) = 0 /\ SumOver(b) = 0
    BY <1>7, <2>1, <2>2
  <2>4. commission = 0
    OBVIOUS
  <2> HIDE DEF a, b, LedgerInit
  <2>5. SumOver(a) + SumOver(b) = commission
    BY <2>3, <2>4
  <2> QED BY <2>5 DEF CommissionIsWhole, a, b
<1>10. LotsArePosition
  <2>1. ASSUME NEW s \in LedgerSymbols, NEW d \in {"long", "short"}
        PROVE LotsOf(s, d) = {} /\ Open(LotsOf(s, d)) = 0
    <3>1. LotsOf(s, d) = {}
      BY <1>0 DEF LotsOf
    <3>2. SideOpen(s, d) = 0
      BY <1>5, <3>1, SidesAre
    <3> QED BY <3>1, <3>2 DEF SideOpen
  <2>2. \A s \in LedgerSymbols : position[s] = 0
    OBVIOUS
  <2> QED BY <2>1, <2>2 DEF LotsArePosition
<1>11. DayIsEven
  <2>1. Equity = 0
    <3> DEFINE g == [s \in LedgerSymbols |-> position[s] * Get(closes, s, 0)]
    <3>1. \A s \in LedgerSymbols : g[s] \in Int /\ g[s] = 0
      <4> TAKE s \in LedgerSymbols
      <4>1. position[s] = 0 /\ Get(closes, s, 0) = 0
        BY <1>0 DEF Get
      <4> QED BY <4>1
    <3>2. Worth(position, closes) = SumFunctionOnSet(g, LedgerSymbols)
      BY DEF Worth
    <3> HIDE DEF g
    <3>3. {} \in SUBSET LedgerSymbols /\ (\A s \in LedgerSymbols \ {} : g[s] = 0) /\ IsFiniteSet(LedgerSymbols)
      BY <3>1, LedgerAssumption
    <3>4. SumFunctionOnSet(g, LedgerSymbols) = SumFunctionOnSet(g, {})
      BY <3>1, <3>3, SumPart
    <3> QED BY <3>2, <3>4, SumEmpty, EquityIs
  <2>2. LastEnd = 0
    BY DEF LastEnd
  <2>3. NetPnl(start, fills, closes, preClose) = 0
    BY <1>2, <1>3
  <2>4. \A s \in LedgerSymbols : position[s] = 0 /\ start[s] = 0 /\ Moved(fills, s) = 0
    BY <1>2, <1>3
  <2> HIDE DEF LedgerInit
  <2>5. fills = <<>> /\ flow = 0 /\ start = position
    BY DEF LedgerInit
  <2> QED BY <2>1, <2>2, <2>3, <2>4, <2>5 DEF DayIsEven
<1>12. DailyPnlIsEquity
  BY <1>0 DEF DailyPnlIsEquity
<1> QED BY <1>4, <1>5, <1>6, <1>8, <1>9, <1>10, <1>11, <1>12 DEF LedgersInv

\* What a time point does to the trips and what is paid for them.
LEMMA PointTrips ==
  ASSUME LedgersInv, NEW f \in FillShape, LotsStep(f), trips' = With(trips, points + 1, Trips(f)),
         commission' = commission + Fees(f), realized' = realized + f.gain * Booked(f)
  PROVE  TripsTyped' /\ PnlIsWhole' /\ CommissionIsWhole'
<1> DEFINE n == points + 1
           T == Trips(f)
           g == [k \in DOMAIN trips |-> PnlOf(trips[k])]
           h == [k \in DOMAIN trips' |-> PnlOf(trips'[k])]
           u == [k \in DOMAIN trips |-> FeeOf(trips[k])]
           v == [k \in DOMAIN trips' |-> FeeOf(trips'[k])]
<1>1. /\ LotsTyped /\ FeesAreEven /\ LotsArePosition /\ position \in [LedgerSymbols -> Int]
      /\ points \in Nat /\ commission \in Nat /\ realized \in Int
  BY LedgerAssumption DEF LedgersInv, LedgersTyped
<1>2. DOMAIN trips = 1 .. points /\ \A k \in DOMAIN trips : PnlOf(trips[k]) \in Int /\ FeeOf(trips[k]) \in Int
  BY DEF LedgersInv, TripsTyped
<1>3. DOMAIN trips' = DOMAIN trips \cup {n} /\ trips'[n] = T
  BY DEF With
<1>4. n \notin DOMAIN trips /\ 1 .. points' = (1 .. points) \cup {n} /\ IsFiniteSet(DOMAIN trips)
  <2>1. points' = n /\ n \in Nat
    BY <1>1 DEF LotsStep
  <2>2. 1 .. points' = (1 .. points) \cup {n} /\ n \notin 1 .. points
    BY <1>1, <2>1
  <2>3. IsFiniteSet(1 .. points)
    BY <1>1, FS_Interval
  <2> QED BY <1>2, <2>2, <2>3
<1>5. \A k \in DOMAIN trips : trips'[k] = trips[k]
  BY <1>4 DEF With
<1>6. Booked(f) = Closing(f)
  BY <1>1, BookedIsClosing
<1>7. PnlOf(T) = f.gain * Booked(f)
  BY <1>1, <1>6, TripsPnl DEF PnlOf
<1>8. FeeOf(T) = FeesGiven(f) + f.rate * Closing(f)
  BY <1>1, TripsFees DEF FeeOf
<1>9. /\ f.gain \in Int /\ f.rate \in Nat /\ f.qty \in Nat
      /\ Closing(f) \in Nat /\ Rest(f) \in Nat /\ Rest(f) = f.qty - Closing(f)
  <2>1. f.gain \in Int /\ f.rate \in Nat /\ f.qty \in Nat
    BY DEF FillShape
  <2>2. Closing(f) \in Nat
    BY <1>1, ClosingIs
  <2>3. Rest(f) \in Nat /\ Rest(f) = f.qty - Closing(f)
    BY <1>1, LotsAre
  <2> QED BY <2>1, <2>2, <2>3
<1>10. FeesGiven(f) \in Int /\ FeesLeft \in Int /\ FeesLeft' = FeesLeft - FeesGiven(f) + f.rate * Rest(f)
  BY <1>1, FeesGivenAre, FeesLeftAre
<1>11. f.gain * Booked(f) \in Int /\ f.rate * Closing(f) \in Int /\ f.rate * Rest(f) \in Int
       /\ Fees(f) = f.rate * Closing(f) + f.rate * Rest(f)
  <2> DEFINE r == f.rate
             c == Closing(f)
             e == Rest(f)
  <2>1. Fees(f) = r * f.qty /\ f.qty = c + e
    BY <1>9 DEF Fees
  <2>2. r \in Nat /\ c \in Nat /\ e \in Nat
    BY <1>9
  <2>3. f.gain * Booked(f) \in Int
    BY <1>6, <1>9
  <2> HIDE DEF r, c, e
  <2>4. r * (c + e) = r * c + r * e /\ r * c \in Int /\ r * e \in Int
    BY <2>2
  <2> QED BY <2>1, <2>3, <2>4 DEF r, c, e
<1>12. PnlOf(T) \in Int /\ FeeOf(T) \in Int
  BY <1>7, <1>8, <1>10, <1>11
<1>13. TripsTyped'
  <2>1. \A k \in DOMAIN trips' : PnlOf(trips'[k]) \in Int /\ FeeOf(trips'[k]) \in Int
    <3> HIDE DEF T, n
    <3> QED BY <1>2, <1>3, <1>5, <1>12
  <2>2. DOMAIN trips' = 1 .. points'
    BY <1>2, <1>3, <1>4
  <2>3. \A k \in DOMAIN trips' : PnlOf(trips[k])' \in Int /\ FeeOf(trips[k])' \in Int
    BY <2>1 DEF PnlOf, FeeOf
  <2> QED BY <2>2, <2>3 DEF TripsTyped
<1>14. SumOver(h) = SumOver(g) + f.gain * Booked(f)
  <2>1. DOMAIN g = DOMAIN trips /\ DOMAIN h = DOMAIN g \cup {n} /\ h[n] = PnlOf(T)
    BY <1>3
  <2>2. \A k \in DOMAIN g : h[k] = g[k] /\ g[k] \in Int
    BY <1>2, <1>3, <1>5
  <2> HIDE DEF g, h, n, T
  <2>3. \A k \in DOMAIN h : h[k] \in Int
    BY <1>12, <2>1, <2>2
  <2> QED BY <1>4, <1>7, <2>1, <2>2, <2>3, SumGrows
<1>15. SumOver(v) = SumOver(u) + FeeOf(T) /\ SumOver(u) \in Int
  <2>1. DOMAIN u = DOMAIN trips /\ DOMAIN v = DOMAIN u \cup {n} /\ v[n] = FeeOf(T)
    BY <1>3
  <2>2. \A k \in DOMAIN u : v[k] = u[k] /\ u[k] \in Int
    BY <1>2, <1>3, <1>5
  <2> HIDE DEF u, v, n, T
  <2>3. \A k \in DOMAIN v : v[k] \in Int
    BY <1>12, <2>1, <2>2
  <2> QED BY <1>4, <2>1, <2>2, <2>3, SumGrows
<1>16. SumOver(g) = realized /\ SumOver(u) + FeesLeft = commission
  BY DEF LedgersInv, PnlIsWhole, CommissionIsWhole, PnlOf, FeeOf, FeesLeft
<1>17. SumOver(h) = realized' /\ SumOver(v) + FeesLeft' = commission'
  <2>1. SumOver(h) = realized'
    BY <1>14, <1>16
  <2> HIDE DEF h, g, u, v, T
  <2> DEFINE a == f.rate * Closing(f)
             b == f.rate * Rest(f)
  <2>2. a \in Int /\ b \in Int /\ Fees(f) = a + b
    BY <1>11
  <2>3. FeeOf(T) = FeesGiven(f) + a /\ FeesLeft' = FeesLeft - FeesGiven(f) + b
    BY <1>8, <1>10
  <2> HIDE DEF a, b
  <2>4. SumOver(v) + FeesLeft' = commission'
    BY <1>1, <1>10, <1>15, <1>16, <2>2, <2>3
  <2> QED BY <2>1, <2>4
<1>18. PnlIsWhole' /\ CommissionIsWhole'
  BY <1>17 DEF PnlIsWhole, CommissionIsWhole, PnlOf, FeeOf, FeesLeft
<1> QED BY <1>13, <1>18

-----------------------------------------------------------------------------

\* One more fill and close of a day: what the account gains is what the day earns.
LEMMA DayGrows ==
  ASSUME NEW first \in [LedgerSymbols -> Int], NEW owned \in [LedgerSymbols -> Int],
         NEW deals, AreDeals(deals), NEW marks, ArePrices(marks), NEW pre, ArePrices(pre),
         NEW n, n \notin DOMAIN deals, NEW f \in FillShape, NEW c \in Nat,
         \A y \in LedgerSymbols : owned[y] = first[y] + Moved(deals, y),
         \A y \in LedgerSymbols : y \notin DOMAIN pre => first[y] = 0,
         NEW next \in [LedgerSymbols -> Int], next[f.sym] = owned[f.sym] + Change(f),
         \A y \in LedgerSymbols : y # f.sym => next[y] = owned[y]
  PROVE  /\ Worth(owned, marks) \in Int /\ NetPnl(first, deals, marks, pre) \in Int
         /\ Worth(next, With(marks, f.sym, c)) \in Int
         /\ Change(f) * f.price \in Int /\ Fees(f) \in Int
         /\ NetPnl(first, With(deals, n, f), With(marks, f.sym, c), pre)
              = NetPnl(first, deals, marks, pre) + Worth(next, With(marks, f.sym, c))
                  - Worth(owned, marks) - Change(f) * f.price - Fees(f)
         /\ \A y \in LedgerSymbols : next[y] = first[y] + Moved(With(deals, n, f), y)
<1> DEFINE x == f.sym
           d == Get(marks, x, 0)
           g == Change(f)
           p == f.price
           z == Fees(f)
           m == Moved(deals, x)
           a == first[x]
           b == owned[x]
           W == Worth(owned, marks)
           N == NetPnl(first, deals, marks, pre)
           Wn == Worth(next, With(marks, x, c))
           Nn == NetPnl(first, With(deals, n, f), With(marks, x, c), pre)
<1>1. g \in Int /\ z \in Nat /\ p \in Nat /\ x \in LedgerSymbols
  BY ChangeIs
<1>2. d \in Nat
  BY GetIs
<1>3. m \in Int
  BY MovedIs
<1>4. a \in Int /\ b \in Int /\ b = a + m
  BY <1>1
<1>5. W \in Int /\ Wn = W + b * (c - d) + g * c
  <2> HIDE DEF g, x
  <2>1. \A y \in LedgerSymbols : y # x => next[y] = owned[y]
    BY DEF x
  <2>2. next[x] - owned[x] = g
    BY <1>1, <1>4 DEF x, g
  <2> QED BY <1>1, <2>1, <2>2, WorthSteps
<1>6. N \in Int
  BY NetIs
<1>7. Nn = N + (a + m) * (c - d) + (g * (c - p) - z)
  <2>1. x \notin DOMAIN pre => a = 0
    BY <1>1
  <2> QED BY <2>1, NetSteps
<1>8. Nn = N + Wn - W - g * p - z /\ Wn \in Int /\ g * p \in Int
  <2> HIDE DEF d, g, p, z, m, a, b, W, N, Wn, Nn
  <2> DEFINE q == c - d
             bq == b * q
             gc == g * c
             gp == g * p
  <2>1. g * (c - p) = gc - gp /\ gc \in Int /\ gp \in Int
    BY <1>1
  <2>2. (a + m) * (c - d) = bq /\ b * (c - d) = bq /\ bq \in Int
    BY <1>2, <1>4
  <2>3. z \in Int
    BY <1>1
  <2> HIDE DEF bq, gc, gp
  <2>4. Wn = W + bq + gc /\ W \in Int
    BY <1>5, <2>2 DEF gc
  <2>5. Nn = N + bq + (gc - gp - z)
    BY <1>7, <2>1, <2>2
  <2>6. Nn = N + Wn - W - gp - z /\ Wn \in Int
    BY <1>6, <2>1, <2>2, <2>3, <2>4, <2>5
  <2> QED BY <2>1, <2>6 DEF gp
<1>9. ASSUME NEW y \in LedgerSymbols
      PROVE next[y] = first[y] + Moved(With(deals, n, f), y)
  <2>1. Moved(With(deals, n, f), x) = m + g
    BY DealAdded
  <2>2. y # x => Moved(With(deals, n, f), y) = Moved(deals, y)
    BY DealAdded
  <2>3. owned[y] = first[y] + Moved(deals, y)
    OBVIOUS
  <2>4. CASE y = x
    <3>1. next[y] = b + g
      BY <2>4
    <3> HIDE DEF g, m, b
    <3>2. b + g = first[y] + (m + g)
      <4>1. b = a + m /\ first[y] = a
        BY <1>4, <2>4
      <4> QED BY <1>1, <1>3, <1>4, <4>1
    <3> QED BY <2>1, <2>4, <3>1, <3>2
  <2>5. CASE y # x
    <3>1. next[y] = owned[y]
      BY <2>5
    <3> QED BY <2>2, <2>3, <2>5, <3>1
  <2> QED BY <2>4, <2>5
<1>10. z \in Int
  BY <1>1
<1> QED BY <1>5, <1>6, <1>8, <1>9, <1>10

\* The end of a day: its result is what the equity gained since the day before.
LEMMA FlushIs ==
  ASSUME LedgersInv, ~ended, results' = Flush, dayEnds' = Append(dayEnds, Equity)
  PROVE  /\ results' \in Seq(Int) /\ dayEnds' \in Seq(Int) /\ Len(results') = Len(dayEnds')
         /\ DailyPnlIsEquity'
         /\ LastEnd' = Equity /\ Equity \in Int
<1> DEFINE k == Len(results)
           N == NetPnl(start, fills, closes, preClose)
           E == Equity
<1>1. /\ results \in Seq(Int) /\ dayEnds \in Seq(Int) /\ Len(dayEnds) = k /\ k \in Nat
      /\ flow \in Int /\ ledgerCash \in Int
  BY DEF LedgersInv, LedgersTyped
<1>2. N \in Int
  BY NetIs DEF LedgersInv, LedgersTyped
<1>3. E \in Int
  <2>1. position \in [LedgerSymbols -> Int]
    BY DEF LedgersInv, LedgersTyped
  <2>2. DOMAIN [s \in LedgerSymbols |-> position[s] * Get(closes, s, 0)] = LedgerSymbols
    OBVIOUS
  <2> DEFINE g == [s \in LedgerSymbols |-> position[s] * Get(closes, s, 0)]
  <2>3. ASSUME NEW s \in LedgerSymbols PROVE g[s] \in Int
    <3>1. Get(closes, s, 0) \in Nat
      BY GetIs DEF LedgersInv, LedgersTyped
    <3>2. position[s] \in Int
      BY <2>1
    <3> QED BY <3>1, <3>2
  <2>4. IsFiniteSet(LedgerSymbols)
    BY LedgerAssumption
  <2>5. Worth(position, closes) = SumFunctionOnSet(g, LedgerSymbols)
    BY DEF Worth
  <2> HIDE DEF g
  <2>6. SumFunctionOnSet(g, LedgerSymbols) \in Int
    BY <2>3, <2>4, SumType
  <2> QED BY <1>1, <2>5, <2>6, EquityIs
<1>4. E = LastEnd + N + flow
  BY DEF LedgersInv, DayIsEven
<1>5. results' = Append(results, N + flow)
  BY DEF Flush
<1>6. dayEnds' = Append(dayEnds, E)
  OBVIOUS
<1> HIDE DEF N, E
<1>7. /\ results' \in Seq(Int) /\ Len(results') = k + 1 /\ results'[k + 1] = N + flow
      /\ \A i \in 1 .. k : results'[i] = results[i]
  <2>1. N + flow \in Int
    BY <1>1, <1>2
  <2> QED BY <1>1, <1>5, <2>1
<1>8. /\ dayEnds' \in Seq(Int) /\ Len(dayEnds') = k + 1 /\ dayEnds'[k + 1] = E
      /\ \A i \in 1 .. k : dayEnds'[i] = dayEnds[i]
  BY <1>1, <1>3, <1>6
<1>9. DailyPnlIsEquity'
  <2>1. \A i \in 1 .. k : results[i] = dayEnds[i] - IF i = 1 THEN 0 ELSE dayEnds[i - 1]
    <3>1. DOMAIN results = 1 .. k
      BY <1>1
    <3> QED BY <3>1 DEF LedgersInv, DailyPnlIsEquity
  <2>2. DOMAIN results' = 1 .. (k + 1)
    BY <1>7
  <2>3. ASSUME NEW i \in 1 .. (k + 1)
        PROVE results'[i] = dayEnds'[i] - IF i = 1 THEN 0 ELSE dayEnds'[i - 1]
    <3>1. CASE i \in 1 .. k
      <4>1. i # 1 => i - 1 \in 1 .. k
        BY <1>1, <3>1
      <4>2. results'[i] = results[i] /\ dayEnds'[i] = dayEnds[i]
        BY <1>7, <1>8, <3>1
      <4>3. i # 1 => dayEnds'[i - 1] = dayEnds[i - 1]
        BY <1>8, <4>1
      <4>4. results[i] = dayEnds[i] - IF i = 1 THEN 0 ELSE dayEnds[i - 1]
        BY <2>1, <3>1
      <4> QED BY <4>2, <4>3, <4>4
    <3>2. CASE i = k + 1
      <4>1. results'[i] = N + flow /\ dayEnds'[i] = E
        BY <1>7, <1>8, <3>2
      <4>2. LastEnd = IF i = 1 THEN 0 ELSE dayEnds'[i - 1]
        <5>1. CASE k = 0
          <6>1. dayEnds = <<>> /\ i = 1
            BY <1>1, <3>2, <5>1
          <6> QED BY <6>1 DEF LastEnd
        <5>2. CASE k > 0
          <6>1. dayEnds # <<>> /\ i # 1 /\ i - 1 = k /\ k \in 1 .. k
            BY <1>1, <3>2, <5>2
          <6>2. dayEnds'[k] = dayEnds[k]
            BY <1>8, <6>1
          <6> QED BY <1>1, <6>1, <6>2 DEF LastEnd
        <5> QED BY <1>1, <5>1, <5>2
      <4>3. LastEnd = E - (N + flow)
        <5> DEFINE l == LastEnd
        <5>1. l \in Int
          <6>1. CASE dayEnds = <<>>
            BY <6>1 DEF LastEnd
          <6>2. CASE dayEnds # <<>>
            <7>1. dayEnds[Len(dayEnds)] \in Int
              BY <1>1, <6>2
            <7> QED BY <6>2, <7>1 DEF LastEnd
          <6> QED BY <6>1, <6>2
        <5>2. E = l + N + flow
          BY <1>4
        <5> HIDE DEF l
        <5>3. l = E - (N + flow)
          BY <1>1, <1>2, <5>1, <5>2
        <5> QED BY <5>3 DEF l
      <4> DEFINE l == IF i = 1 THEN 0 ELSE dayEnds'[i - 1]
      <4>4. l = E - (N + flow)
        BY <4>2, <4>3
      <4> HIDE DEF l
      <4>5. results'[i] = dayEnds'[i] - l
        BY <1>1, <1>2, <1>3, <4>1, <4>4
      <4> QED BY <4>5 DEF l
    <3> QED BY <1>1, <3>1, <3>2
  <2> QED BY <2>2, <2>3 DEF DailyPnlIsEquity
<1>10. LastEnd' = E
  <2>1. dayEnds' # <<>>
    BY <1>1, <1>8
  <2> QED BY <1>8, <2>1 DEF LastEnd
<1>11. Len(results') = Len(dayEnds')
  BY <1>7, <1>8
<1>12. E = Equity
  BY DEF E
<1> QED BY <1>3, <1>7, <1>8, <1>9, <1>10, <1>11, <1>12

\* The day after a time point: prices, fills and positions are of their types, and it
\* has come out even, be it a new day, the first of all or one that goes on.
LEMMA PointDay ==
  ASSUME LedgersInv,
         NEW day \in BOOLEAN, NEW s \in LedgerSymbols, NEW deal \in LedgerTrades,
         NEW c \in LedgerPrices, NEW cashFlow \in Flows,
         LedgerPoint(day, s, deal, c, cashFlow)
  PROVE  LedgersTyped' /\ DayIsEven' /\ DailyPnlIsEquity'
<1> DEFINE f == FillOf(s, deal)
           n == points + 1
           fresh == day /\ points > 0
           first == start'
           pre == preClose'
           deals == IF fresh THEN <<>> ELSE fills
           fl == IF fresh THEN 0 ELSE flow
           e == LastEnd'
           newpos == [position EXCEPT ![s] = @ + Change(f)]
           cash == ledgerCash - Change(f) * f.price - Fees(f) + cashFlow
<1>1. f \in FillShape /\ f.sym = s
  BY FillOfIs
<1>2. c \in Nat /\ cashFlow \in Int
  BY LedgerAssumption
<1>3. /\ points < MaxLedgerPoints /\ ~ended /\ points' = n /\ ended' = ended
      /\ ledgerCash' = cash
      /\ position' = newpos /\ closes' = With(closes, s, c)
      /\ commission' = commission + Fees(f)
      /\ realized' = realized + f.gain * Booked(f)
  BY DEF LedgerPoint
<1>4. IF fresh
      THEN results' = Flush /\ preClose' = closes /\ dayEnds' = Append(dayEnds, Equity)
      ELSE UNCHANGED <<results, preClose, dayEnds>>
  BY DEF LedgerPoint
<1>5. IF day \/ points = 0
      THEN start' = position /\ fills' = With(<<>>, n, f) /\ flow' = cashFlow
      ELSE start' = start /\ fills' = With(fills, n, f) /\ flow' = flow + cashFlow
  BY DEF LedgerPoint, Begins
<1>6. LedgersTyped /\ DayIsEven /\ DailyPnlIsEquity /\ LotsTyped /\ LotsArePosition
  BY DEF LedgersInv
<1>7. /\ points \in Nat /\ ledgerCash \in Int /\ flow \in Int
      /\ position \in [LedgerSymbols -> Int] /\ start \in [LedgerSymbols -> Int]
      /\ ArePrices(closes) /\ ArePrices(preClose) /\ AreDeals(fills)
      /\ DOMAIN preClose \subseteq DOMAIN closes /\ DOMAIN fills \subseteq 1 .. points
  BY <1>6, LedgerAssumption DEF LedgersTyped
<1> HIDE DEF f
<1>8. Change(f) \in Int /\ Fees(f) \in Nat /\ f.price \in Nat
  BY <1>1, ChangeIs
<1>9. points = 0 => fills = <<>> /\ flow = 0 /\ start = position
  BY <1>6 DEF DayIsEven
<1>10. AreDeals(<<>>) /\ NetPnl(position, <<>>, closes, closes) = 0 /\ \A y : Moved(<<>>, y) = 0
  BY <1>7, NewDayIsEven
\* What the day begins with.
<1>11. /\ first \in [LedgerSymbols -> Int] /\ AreDeals(deals) /\ ArePrices(pre)
       /\ n \notin DOMAIN deals /\ DOMAIN deals \subseteq 1 .. points
       /\ DOMAIN pre \subseteq DOMAIN closes /\ fl \in Int
       /\ fills' = With(deals, n, f) /\ flow' = fl + cashFlow
  <2>1. n \notin 1 .. points
    BY <1>7
  <2>2. CASE fresh
    <3>1. start' = position /\ fills' = With(<<>>, n, f) /\ flow' = cashFlow
      BY <1>5, <2>2
    <3>2. preClose' = closes
      BY <1>4, <2>2
    <3>3. deals = <<>> /\ fl = 0 /\ DOMAIN deals = {}
      BY <2>2
    <3>4. flow' = fl + cashFlow
      BY <1>2, <3>1, <3>3
    <3> QED BY <1>7, <1>10, <3>1, <3>2, <3>3, <3>4
  <2>3. CASE ~fresh
    <3>1. deals = fills /\ fl = flow
      BY <2>3
    <3>2. preClose' = preClose
      BY <1>4, <2>3
    <3>3. start' = start /\ fills' = With(fills, n, f) /\ flow' = flow + cashFlow
      <4>1. CASE points = 0
        <5>1. start' = position /\ fills' = With(<<>>, n, f) /\ flow' = cashFlow
          BY <1>5, <4>1
        <5>2. flow' = flow + cashFlow
          BY <1>2, <1>9, <4>1, <5>1
        <5> QED BY <1>9, <4>1, <5>1, <5>2
      <4>2. CASE points # 0
        <5>1. ~(day \/ points = 0)
          BY <1>7, <2>3, <4>2
        <5> QED BY <1>5, <5>1
      <4> QED BY <4>1, <4>2
    <3> QED BY <1>7, <2>1, <3>1, <3>2, <3>3
  <2> QED BY <2>2, <2>3
<1>12. /\ \A y \in LedgerSymbols : position[y] = first[y] + Moved(deals, y)
       /\ \A y \in LedgerSymbols : y \notin DOMAIN pre => first[y] = 0
  <2>1. CASE fresh
    <3>1. first = position /\ pre = closes /\ deals = <<>>
      BY <1>4, <1>5, <2>1
    <3>2. \A y \in LedgerSymbols : y \notin DOMAIN closes => position[y] = 0
      BY <1>6 DEF DayIsEven
    <3>3. \A y \in LedgerSymbols : position[y] = position[y] + Moved(<<>>, y)
      BY <1>7, <1>10
    <3> QED BY <3>1, <3>2, <3>3
  <2>2. CASE ~fresh
    <3>1. deals = fills /\ pre = preClose
      BY <1>4, <2>2
    <3>2. first = start
      <4>1. CASE points = 0
        BY <1>5, <1>9, <4>1
      <4>2. CASE points # 0
        <5>1. ~(day \/ points = 0)
          BY <1>7, <2>2, <4>2
        <5> QED BY <1>5, <5>1
      <4> QED BY <4>1, <4>2
    <3> HIDE DEF deals, pre, first
    <3> QED BY <1>6, <3>1, <3>2 DEF DayIsEven
  <2> QED BY <2>1, <2>2
<1>13. /\ results' \in Seq(Int) /\ dayEnds' \in Seq(Int) /\ Len(results') = Len(dayEnds')
       /\ DailyPnlIsEquity'
       /\ e \in Int /\ ledgerCash + Worth(position, closes) = e + NetPnl(first, deals, closes, pre) + fl
  <2>1. CASE fresh
    <3>1. /\ results' \in Seq(Int) /\ dayEnds' \in Seq(Int) /\ Len(results') = Len(dayEnds')
          /\ DailyPnlIsEquity' /\ LastEnd' = Equity /\ Equity \in Int
      BY <1>3, <1>4, <2>1, FlushIs
    <3>2. first = position /\ pre = closes /\ deals = <<>> /\ fl = 0
      BY <1>4, <1>5, <2>1
    <3>3. NetPnl(first, deals, closes, pre) = 0
      BY <1>10, <3>2
    <3>4. e = ledgerCash + Worth(position, closes)
      BY <3>1, EquityIs
    <3> HIDE DEF e, first, deals, pre, fl
    <3>5. e \in Int
      BY <3>1 DEF e
    <3>6. e = e + NetPnl(first, deals, closes, pre) + fl
      BY <3>2, <3>3, <3>5
    <3> QED BY <3>1, <3>4, <3>5, <3>6
  <2>2. CASE ~fresh
    <3>1. results' = results /\ dayEnds' = dayEnds /\ preClose' = preClose
      BY <1>4, <2>2
    <3>2. LastEnd' = LastEnd
      BY <3>1 DEF LastEnd
    <3>3. results \in Seq(Int) /\ dayEnds \in Seq(Int) /\ Len(results) = Len(dayEnds)
      BY <1>6 DEF LedgersTyped
    <3>4. LastEnd \in Int
      <4>1. dayEnds # <<>> => dayEnds[Len(dayEnds)] \in Int
        BY <3>3
      <4> QED BY <4>1 DEF LastEnd
    <3>5. DailyPnlIsEquity'
      BY <1>6, <3>1 DEF DailyPnlIsEquity
    <3>6. deals = fills /\ fl = flow /\ pre = preClose
      BY <2>2, <3>1
    <3>7. first = start
      <4>1. CASE points = 0
        BY <1>5, <1>9, <4>1
      <4>2. CASE points # 0
        <5>1. ~(day \/ points = 0)
          BY <1>7, <2>2, <4>2
        <5> QED BY <1>5, <5>1
      <4> QED BY <4>1, <4>2
    <3>8. Equity = LastEnd + NetPnl(start, fills, closes, preClose) + flow
      BY <1>3, <1>6 DEF DayIsEven
    <3> HIDE DEF deals, fl, pre, first
    <3>9. ledgerCash + Worth(position, closes) = e + NetPnl(first, deals, closes, pre) + fl
      BY <3>2, <3>6, <3>7, <3>8, EquityIs
    <3> QED BY <3>1, <3>2, <3>3, <3>4, <3>5, <3>9
  <2> QED BY <2>1, <2>2
<1> HIDE DEF fresh, first, pre, deals, fl, e
<1>14. /\ cash + Worth(newpos, With(closes, s, c))
           = e + NetPnl(first, With(deals, n, f), With(closes, s, c), pre) + (fl + cashFlow)
       /\ \A y \in LedgerSymbols : newpos[y] = first[y] + Moved(With(deals, n, f), y)
  <2> DEFINE g == Change(f)
             gp == Change(f) * f.price
             z == Fees(f)
             W == Worth(position, closes)
             N == NetPnl(first, deals, closes, pre)
             Wn == Worth(newpos, With(closes, s, c))
             Nn == NetPnl(first, With(deals, n, f), With(closes, s, c), pre)
  <2>1. /\ newpos[s] = position[s] + g
        /\ \A y \in LedgerSymbols : y # s => newpos[y] = position[y]
    BY <1>7
  <2>2. newpos \in [LedgerSymbols -> Int]
    <3>1. g \in Int /\ position[s] + g \in Int
      BY <1>7, <1>8
    <3> HIDE DEF g
    <3>2. [position EXCEPT ![s] = @ + g] \in [LedgerSymbols -> Int]
      BY <1>7, <3>1
    <3> QED BY <3>2 DEF g
  <2> HIDE DEF newpos, n, g
  <2>3. newpos[f.sym] = position[f.sym] + Change(f)
        /\ \A y \in LedgerSymbols : y # f.sym => newpos[y] = position[y]
    BY <1>1, <2>1 DEF g
  <2>4. /\ Worth(position, closes) \in Int /\ NetPnl(first, deals, closes, pre) \in Int
        /\ Worth(newpos, With(closes, f.sym, c)) \in Int
        /\ Change(f) * f.price \in Int /\ Fees(f) \in Int
        /\ NetPnl(first, With(deals, n, f), With(closes, f.sym, c), pre)
             = NetPnl(first, deals, closes, pre) + Worth(newpos, With(closes, f.sym, c))
                 - Worth(position, closes) - Change(f) * f.price - Fees(f)
        /\ \A y \in LedgerSymbols : newpos[y] = first[y] + Moved(With(deals, n, f), y)
    <3>1. /\ first \in [LedgerSymbols -> Int] /\ position \in [LedgerSymbols -> Int]
          /\ AreDeals(deals) /\ ArePrices(closes) /\ ArePrices(pre)
          /\ n \notin DOMAIN deals /\ f \in FillShape /\ c \in Nat
      BY <1>1, <1>2, <1>7, <1>11
    <3> QED BY <1>12, <2>2, <2>3, <3>1, DayGrows
  <2>5. W \in Int /\ N \in Int /\ Wn \in Int /\ gp \in Int /\ z \in Int
        /\ Nn = N + Wn - W - gp - z
    BY <1>1, <2>4
  <2>6. ledgerCash + W = e + N + fl /\ e \in Int /\ fl \in Int /\ ledgerCash \in Int
    BY <1>7, <1>11, <1>13
  <2> HIDE DEF gp, z, W, N, Wn, Nn
  <2>7. ledgerCash - gp - z + cashFlow + Wn = e + Nn + (fl + cashFlow)
    BY <1>2, <2>5, <2>6
  <2> QED BY <2>4, <2>7 DEF gp, z, Wn, Nn
<1>15. DayIsEven'
  <2>1. Equity' = ledgerCash' + Worth(position', closes')
    BY DEF Equity, Worth, SumOver
  <2>2. Equity' = LastEnd' + NetPnl(start', fills', closes', preClose') + flow'
    BY <1>3, <1>11, <1>14, <2>1 DEF first, pre, e
  <2>3. \A y \in LedgerSymbols : position'[y] = start'[y] + Moved(fills', y)
    BY <1>3, <1>11, <1>14 DEF first
  <2>4. \A y \in LedgerSymbols : y \notin DOMAIN preClose' => start'[y] = 0
    BY <1>12 DEF first, pre
  <2>5. \A y \in LedgerSymbols : y \notin DOMAIN closes' => position'[y] = 0
    <3>1. DOMAIN closes' = DOMAIN closes \cup {s}
      BY <1>3 DEF With
    <3>2. \A y \in LedgerSymbols : y # s => position'[y] = position[y]
      BY <1>3, <1>7
    <3>3. \A y \in LedgerSymbols : y \notin DOMAIN closes => position[y] = 0
      BY <1>6 DEF DayIsEven
    <3> QED BY <3>1, <3>2, <3>3
  <2>6. points' # 0
    BY <1>3, <1>7
  <2>7. NetPnl(start, fills, closes, preClose)' = NetPnl(start', fills', closes', preClose')
    BY DEF NetPnl, Active, FillsOf, ContractPnl, HoldingPnl, TradingPnl, SumOver
  <2>8. \A y : Moved(fills, y)' = Moved(fills', y)
    BY DEF Moved, FillsOf, Change
  <2> QED BY <2>2, <2>3, <2>4, <2>5, <2>6, <2>7, <2>8 DEF DayIsEven
<1>16. LedgersTyped'
  <2>1. points' \in 0 .. MaxLedgerPoints
    BY <1>3, <1>7, LedgerAssumption
  <2>2. ended' \in BOOLEAN
    BY <1>3, <1>6 DEF LedgersTyped
  <2>3. ledgerCash' \in Int
    <3> DEFINE g == Change(f)
               p == f.price
               gp == g * p
    <3>1. g \in Int /\ p \in Nat
      BY <1>8
    <3> HIDE DEF g, p
    <3>2. gp \in Int
      BY <3>1
    <3>3. ledgerCash' = ledgerCash - gp - Fees(f) + cashFlow
      BY <1>3 DEF g, p
    <3> HIDE DEF gp
    <3> QED BY <1>2, <1>7, <1>8, <3>2, <3>3
  <2>4. flow' \in Int
    BY <1>2, <1>11
  <2>5. commission' \in Nat
    <3>1. commission \in Nat
      BY <1>6 DEF LedgersTyped
    <3> QED BY <1>3, <1>8, <3>1
  <2>6. realized' \in Int
    <3>1. realized \in Int
      BY <1>6 DEF LedgersTyped
    <3>2. Booked(f) = Closing(f)
      BY <1>1, <1>6, <1>7, BookedIsClosing
    <3>3. Closing(f) \in Nat
      BY <1>1, <1>6, ClosingIs
    <3>4. f.gain \in Int
      BY <1>1 DEF FillShape
    <3> DEFINE b == Booked(f)
               g == f.gain
    <3>5. b \in Nat /\ g \in Int /\ realized' = realized + g * b
      BY <1>3, <3>2, <3>3, <3>4
    <3> HIDE DEF b, g
    <3>6. g * b \in Int
      BY <3>5
    <3> DEFINE gb == g * b
    <3> HIDE DEF gb
    <3>7. realized' = realized + gb /\ gb \in Int
      BY <3>5, <3>6 DEF gb
    <3> QED BY <3>1, <3>7
  <2>7. position' \in [LedgerSymbols -> Int]
    <3> DEFINE g == Change(f)
    <3>1. g \in Int /\ position[s] + g \in Int
      BY <1>7, <1>8
    <3> HIDE DEF g
    <3>2. [position EXCEPT ![s] = @ + g] \in [LedgerSymbols -> Int]
      BY <1>7, <3>1
    <3> QED BY <1>3, <3>2 DEF g
  <2>8. start' \in [LedgerSymbols -> Int]
    BY <1>11 DEF first
  <2>9. DOMAIN closes' = DOMAIN closes \cup {s} /\ ArePrices(closes')
    <3>1. DOMAIN closes' = DOMAIN closes \cup {s} /\ \A y \in DOMAIN closes' : closes'[y] = IF y = s THEN c ELSE closes[y]
      BY <1>3 DEF With
    <3> QED BY <1>2, <1>7, <3>1 DEF ArePrices
  <2>10. DOMAIN closes' \subseteq LedgerSymbols
    BY <1>6, <2>9 DEF LedgersTyped
  <2>11. ArePrices(preClose') /\ DOMAIN preClose' \subseteq DOMAIN closes'
    BY <1>11, <2>9 DEF pre
  <2>12. AreDeals(fills')
    <3> HIDE DEF n
    <3>1. AreDeals(With(deals, n, f))
      BY <1>1, <1>11, DealAdded
    <3> QED BY <1>11, <3>1
  <2>13. DOMAIN fills' \subseteq 1 .. points'
    <3>1. DOMAIN fills' = DOMAIN deals \cup {n}
      BY <1>11 DEF With
    <3>2. 1 .. points' = (1 .. points) \cup {n}
      BY <1>3, <1>7
    <3> QED BY <1>11, <3>1, <3>2
  <2>14. ArePrices(closes)' /\ ArePrices(preClose)' /\ AreDeals(fills)'
    BY <2>9, <2>11, <2>12 DEF ArePrices, AreDeals
  <2> QED BY <1>13, <2>1, <2>2, <2>3, <2>4, <2>5, <2>6, <2>7, <2>8, <2>10, <2>11, <2>13, <2>14 DEF LedgersTyped
<1> QED BY <1>13, <1>15, <1>16

\* One time point keeps the invariant.
LEMMA PointKeeps ==
  ASSUME LedgersInv,
         NEW day \in BOOLEAN, NEW s \in LedgerSymbols, NEW deal \in LedgerTrades,
         NEW c \in LedgerPrices, NEW cashFlow \in Flows,
         LedgerPoint(day, s, deal, c, cashFlow)
  PROVE  LedgersInv'
<1> DEFINE f == FillOf(s, deal)
<1>1. f \in FillShape /\ f.sym = s
  BY FillOfIs
<1>2. LotsStep(f)
  BY DEF LedgerPoint, LotsStep
<1>3. /\ trips' = With(trips, points + 1, Trips(f))
      /\ commission' = commission + Fees(f) /\ realized' = realized + f.gain * Booked(f)
      /\ position' = [position EXCEPT ![s] = @ + Change(f)]
  BY DEF LedgerPoint
<1>4. LotsTyped /\ FeesAreEven /\ LotsArePosition /\ position \in [LedgerSymbols -> Int]
  BY DEF LedgersInv, LedgersTyped
<1> HIDE DEF f
<1>5. LotsTyped' /\ FeesAreEven'
  BY <1>1, <1>2, <1>4, LotsStayTyped
<1>6. LotsArePosition'
  <2>1. position' = [position EXCEPT ![f.sym] = @ + Change(f)]
    BY <1>1, <1>3
  <2> QED BY <1>1, <1>2, <1>4, <2>1, LotsStayPosition
<1>7. TripsTyped' /\ PnlIsWhole' /\ CommissionIsWhole'
  BY <1>1, <1>2, <1>3, PointTrips
<1>8. LedgersTyped' /\ DayIsEven' /\ DailyPnlIsEquity'
  BY PointDay
<1> QED BY <1>5, <1>6, <1>7, <1>8 DEF LedgersInv

\* What reads only what stays as it is stays as it is.
LEMMA LedgersStay ==
  ASSUME UNCHANGED <<points, position, openLots, trips, commission, realized>>
  PROVE  /\ LotsTyped' = LotsTyped /\ FeesAreEven' = FeesAreEven /\ TripsTyped' = TripsTyped
         /\ PnlIsWhole' = PnlIsWhole /\ CommissionIsWhole' = CommissionIsWhole
         /\ LotsArePosition' = LotsArePosition
<1>1. LotsTyped' = LotsTyped
  BY DEF LotsTyped
<1>2. FeesAreEven' = FeesAreEven
  BY DEF FeesAreEven
<1>3. TripsTyped' = TripsTyped
  BY DEF TripsTyped, PnlOf, FeeOf
<1>4. PnlIsWhole' = PnlIsWhole
  BY DEF PnlIsWhole
<1>5. CommissionIsWhole' = CommissionIsWhole
  BY DEF CommissionIsWhole
<1>6. LotsArePosition' = LotsArePosition
  BY DEF LotsArePosition, LotsOf, Open
<1> QED BY <1>1, <1>2, <1>3, <1>4, <1>5, <1>6

\* The end of the backtest closes the last day.
LEMMA FinishKeeps ==
  ASSUME LedgersInv, Finish
  PROVE  LedgersInv'
<1>1. /\ points > 0 /\ ~ended /\ ended' = TRUE
      /\ results' = Flush /\ preClose' = closes /\ dayEnds' = Append(dayEnds, Equity)
      /\ UNCHANGED <<points, ledgerCash, position, closes, start, fills, flow,
                     openLots, trips, commission, realized>>
  BY DEF Finish
<1>2. /\ LotsTyped' /\ FeesAreEven' /\ TripsTyped' /\ PnlIsWhole' /\ CommissionIsWhole'
      /\ LotsArePosition'
  BY <1>1, LedgersStay DEF LedgersInv
<1>3. /\ results' \in Seq(Int) /\ dayEnds' \in Seq(Int) /\ Len(results') = Len(dayEnds')
      /\ DailyPnlIsEquity'
  BY <1>1, FlushIs
<1>4. LedgersTyped /\ DayIsEven
  BY DEF LedgersInv
<1>5. LedgersTyped'
  <2>1. points' \in 0 .. MaxLedgerPoints
    BY <1>1, <1>4 DEF LedgersTyped
  <2>2. ended' \in BOOLEAN
    BY <1>1
  <2>3. /\ ledgerCash' \in Int /\ flow' \in Int /\ commission' \in Nat /\ realized' \in Int
        /\ position' \in [LedgerSymbols -> Int] /\ start' \in [LedgerSymbols -> Int]
    BY <1>1, <1>4 DEF LedgersTyped
  <2>4. /\ closes' = closes /\ preClose' = closes /\ fills' = fills /\ points' = points
    BY <1>1
  <2>5. /\ ArePrices(closes) /\ DOMAIN closes \subseteq LedgerSymbols
        /\ AreDeals(fills) /\ DOMAIN fills \subseteq 1 .. points
    BY <1>4 DEF LedgersTyped
  <2>6. ArePrices(closes)' /\ ArePrices(preClose)' /\ AreDeals(fills)'
    BY <2>4, <2>5 DEF ArePrices, AreDeals
  <2>7. DOMAIN closes' \subseteq LedgerSymbols /\ DOMAIN preClose' \subseteq DOMAIN closes'
        /\ DOMAIN fills' \subseteq 1 .. points'
    BY <2>4, <2>5
  <2> QED BY <1>3, <2>1, <2>2, <2>3, <2>6, <2>7 DEF LedgersTyped
<1>6. DayIsEven'
  <2>1. \A s \in LedgerSymbols : position[s] = start[s] + Moved(fills, s)
    BY <1>4 DEF DayIsEven
  <2>2. \A s : Moved(fills, s)' = Moved(fills, s)
    BY <1>1 DEF Moved, FillsOf, Change
  <2>3. position' = position /\ start' = start /\ fills' = fills /\ closes' = closes /\ preClose' = closes
    BY <1>1
  <2>4. \A s \in LedgerSymbols : s \notin DOMAIN closes => start[s] = 0
    <3>1. DOMAIN preClose \subseteq DOMAIN closes
      BY <1>4 DEF LedgersTyped
    <3>2. \A s \in LedgerSymbols : s \notin DOMAIN preClose => start[s] = 0
      BY <1>4 DEF DayIsEven
    <3> QED BY <3>1, <3>2
  <2>5. \A s \in LedgerSymbols : s \notin DOMAIN closes => position[s] = 0
    BY <1>4 DEF DayIsEven
  <2>6. points' # 0
    <3>1. points' = points /\ points > 0
      BY <1>1
    <3>2. points \in Nat
      BY <1>4, LedgerAssumption DEF LedgersTyped
    <3> QED BY <3>1, <3>2
  <2>7. ended'
    BY <1>1
  <2> QED BY <2>1, <2>2, <2>3, <2>4, <2>5, <2>6, <2>7 DEF DayIsEven
<1> QED BY <1>2, <1>3, <1>5, <1>6 DEF LedgersInv

\* Every step keeps the invariant.
LEMMA LedgersInvStep ==
  ASSUME LedgersInv, [LedgerNext]_ledgerVars
  PROVE  LedgersInv'
<1>1. ASSUME NEW day \in BOOLEAN, NEW s \in LedgerSymbols, NEW deal \in LedgerTrades,
             NEW c \in LedgerPrices, NEW cashFlow \in Flows,
             LedgerPoint(day, s, deal, c, cashFlow)
      PROVE  LedgersInv'
  BY <1>1, PointKeeps
<1>2. CASE Finish
  BY <1>2, FinishKeeps
<1>3. CASE UNCHANGED ledgerVars
  <2>1. /\ UNCHANGED <<points, position, openLots, trips, commission, realized>>
        /\ UNCHANGED <<ended, ledgerCash, closes, preClose, start, fills, flow, results, dayEnds>>
    BY <1>3 DEF ledgerVars
  <2>2. /\ LotsTyped' /\ FeesAreEven' /\ TripsTyped' /\ PnlIsWhole' /\ CommissionIsWhole'
        /\ LotsArePosition'
    BY <2>1, LedgersStay DEF LedgersInv
  <2>3. LedgersTyped'
    BY <2>1 DEF LedgersInv, LedgersTyped, ArePrices, AreDeals
  <2>4. DailyPnlIsEquity'
    BY <2>1 DEF LedgersInv, DailyPnlIsEquity
  <2>5. DayIsEven'
    <3>1. \A s : Moved(fills, s)' = Moved(fills, s)
      BY <2>1 DEF Moved, FillsOf, Change
    <3>2. NetPnl(start, fills, closes, preClose)' = NetPnl(start, fills, closes, preClose)
      BY <2>1 DEF NetPnl, Active, FillsOf, ContractPnl, HoldingPnl, TradingPnl, SumOver
    <3>3. Equity' = Equity /\ LastEnd' = LastEnd
      BY <2>1 DEF Equity, LastEnd, SumOver
    <3> QED BY <2>1, <3>1, <3>2, <3>3 DEF LedgersInv, DayIsEven
  <2> QED BY <2>2, <2>3, <2>4, <2>5 DEF LedgersInv
<1> QED BY <1>1, <1>2, <1>3 DEF LedgerNext

\* The ledgers of a backtest agree, after every time point and when it has finished
\* (roundtrips.py build_round_trips, daily_result.py DailyPnlTracker, position.py reduce):
\* the trips carry the realized profit, trips and open lots the commissions, the open
\* lots are the position, and the daily results add up to the equity.
THEOREM LedgersStayAgreed == LedgerSpec => []LedgersAgree
<1>1. LedgerInit => LedgersInv
  BY LedgersInvInit
<1>2. LedgersInv /\ [LedgerNext]_ledgerVars => LedgersInv'
  BY LedgersInvStep
<1>3. LedgersInv => LedgersAgree
  <2> SUFFICES ASSUME LedgersInv PROVE LedgersAgree
    OBVIOUS
  <2>1. LedgersTyped /\ LotsTyped /\ TripsTyped
    BY DEF LedgersInv
  <2>2. DOMAIN openLots \subseteq 1 .. points /\ DOMAIN trips = 1 .. points
    BY <2>1 DEF LotsTyped, TripsTyped
  <2>3. LedgerTypeOK
    BY <2>1, <2>2 DEF LedgersTyped, LedgerTypeOK
  <2> QED BY <2>3 DEF LedgersInv, LedgersAgree
<1> QED BY <1>1, <1>2, <1>3, PTL DEF LedgerSpec

-----------------------------------------------------------------------------
(* The exits: the best profit a stop compares with is one that the trade had on its
   present cost, told as a relation to the prices that were seen. *)

Some == Nat \ {0}
ExitLot == [qty : Some, cost : Some]
TradeShape == [dir : {-1, 1}, since : Some, cost : Some, qty : Some, top : Int \X Some]

\* No trade without lots; it is as large, and paid as much, as they.
TradeIsOfLots ==
  /\ lots \in Seq(ExitLot) /\ exit \in Int
  /\ trade.qty = Held(lots) /\ trade.cost = Paid(lots)
  /\ \/ lots = <<>> /\ trade = NoTrade
     \/ lots # <<>> /\ trade \in TradeShape /\ trade.since <= now

ExitTyped ==
  /\ mode \in ExitModes /\ now \in 0 .. MaxExitPoints /\ price \in ExitPrices \cup {0}
  /\ seen \in SUBSET ExitPrices
  /\ fired \in {"none", "skipped", "roi", "stop_loss", "trailing", "portfolio"}

\* The profit at price x of a trade of direction d that bought q shares for c.
Gain(d, c, q, x) == <<d * (x * q - c), c>>

\* The base is the trade's ratio of cost and shares as long as sales keep it, and
\* its best profit is no better than one of these; a stop fires below it.
TopIsSeen ==
  mode.by = "gate" /\ trade # NoTrade /\ ~ uneven =>
    /\ base \in Some \X Some /\ base[1] * trade.qty = trade.cost * base[2]
    /\ \/ trade.top[1] <= 0
       \/ \E x \in seen : ~ Less(Gain(trade.dir, trade.cost, trade.qty, x), trade.top)
    /\ fired = "trailing" => Less(Gain(trade.dir, trade.cost, trade.qty, price), trade.top)

StopsAreOfTrades == mode.by = "gate" /\ fired = "trailing" => trade # NoTrade

PeakShape == {-1, 1} \X Some \X Some \X Some
PeakTyped ==
  \/ peak = NoPeak
  \/ peak.of \in PeakShape /\ peak.of[2] <= now /\ peak.top \in Int \X Some

\* The peak of this trade, on whatever cost it was asked about last, is the best of
\* what it was asked about on that cost.
PeakIsBest ==
  mode.by = "trail" /\ trade # NoTrade /\ peak # NoPeak
    /\ peak.of[1] = trade.dir /\ peak.of[2] = trade.since
    => LET gain(x) == Gain(peak.of[1], peak.of[3], peak.of[4], x)
       IN /\ ~ Less(peak.top, <<0, 1>>) /\ \A x \in seen : ~ Less(peak.top, gain(x))
          /\ ~ Less(<<0, 1>>, peak.top) \/ \E x \in seen : ~ Less(gain(x), peak.top)

\* The mark is what the values since the last liquidation are measured by.
MarkIsOfValues ==
  /\ worth.vals \in Seq(Some) /\ mark \in Nat
  /\ mark = 0 <=> worth.hit \/ worth.vals = <<>>
  /\ worth.vals = <<>> => ~ worth.hit
  /\ mark # 0 /\ mode.by # "top" => mark = worth.vals[1]
  /\ mark # 0 /\ mode.by = "top" => mark = Max(Range(worth.vals))

ExitsInv ==
  /\ TradeIsOfLots /\ ExitTyped /\ TopIsSeen /\ StopsAreOfTrades
  /\ PeakTyped /\ PeakIsBest /\ MarkIsOfValues /\ DrawdownIsMeasured

\* A common positive factor changes no comparison.
LEMMA Cancelled ==
  ASSUME NEW k \in Some, NEW l \in Some, NEW a \in Int, NEW b \in Int, NEW u \in Int, NEW v \in Int,
         k * a = l * u, k * b = l * v
  PROVE  a < b <=> u < v
<1>1. a < b <=> k * a < k * b
  BY DEF Some
<1>2. u < v <=> l * u < l * v
  BY DEF Some
<1> QED BY <1>1, <1>2

\* Two costs of the same ratio make the same profit.
LEMMA SameGain ==
  ASSUME NEW c \in Some, NEW q \in Some, NEW d \in Some, NEW r \in Some, c * r = d * q,
         NEW s \in {-1, 1}, NEW x \in Int, NEW f \in Int \X Some
  PROVE  /\ Less(f, Gain(s, c, q, x)) <=> Less(f, Gain(s, d, r, x))
         /\ Less(Gain(s, c, q, x), f) <=> Less(Gain(s, d, r, x), f)
<1> DEFINE u == s * (x * q - c)
           v == s * (x * r - d)
<1>1. c \in Int /\ q \in Int /\ d \in Int /\ r \in Int /\ f[1] \in Int /\ f[2] \in Int
  BY DEF Some
<1>2. u \in Int /\ v \in Int
  BY <1>1
<1>3. r * u = q * v
  <2>1. r * (x * q - c) = r * (x * q) - c * r /\ q * (x * r - d) = q * (x * r) - d * q
    BY <1>1
  <2>2. r * (x * q) = q * (x * r)
    BY <1>1
  <2>3. r * (x * q - c) = q * (x * r - d)
    BY <1>1, <2>1, <2>2
  <2>4. s = 1 \/ s = -1
    OBVIOUS
  <2> QED BY <1>1, <2>3, <2>4
<1>4. r * (f[1] * c) = q * (f[1] * d)
  <2>1. r * (f[1] * c) = f[1] * (c * r) /\ q * (f[1] * d) = f[1] * (d * q)
    BY <1>1
  <2> QED BY <2>1
<1>5. r * (u * f[2]) = q * (v * f[2])
  <2> HIDE DEF u, v
  <2>1. r * (u * f[2]) = (r * u) * f[2] /\ q * (v * f[2]) = (q * v) * f[2]
    BY <1>1, <1>2
  <2> QED BY <1>3, <2>1
<1>6. f[1] * c \in Int /\ f[1] * d \in Int /\ u * f[2] \in Int /\ v * f[2] \in Int
  <2> HIDE DEF u, v
  <2> QED BY <1>1, <1>2
<1>7. f[1] * c < u * f[2] <=> f[1] * d < v * f[2]
  <2> HIDE DEF u, v
  <2> QED BY <1>4, <1>5, <1>6, Cancelled
<1>8. u * f[2] < f[1] * c <=> v * f[2] < f[1] * d
  <2> HIDE DEF u, v
  <2> QED BY <1>4, <1>5, <1>6, Cancelled
<1> QED BY <1>7, <1>8 DEF Less, Gain

\* What one fraction is not below, and what is not below it, is in order.
LEMMA LessOrders ==
  ASSUME NEW f \in Int \X Some, NEW g \in Int \X Some, NEW h \in Int \X Some
  PROVE  /\ ~ Less(f, f)
         /\ Less(f, g) => ~ Less(g, f)
         /\ ~ Less(f, g) /\ ~ Less(g, h) => ~ Less(f, h)
<1>1. /\ f[1] \in Int /\ g[1] \in Int /\ h[1] \in Int /\ f[2] \in Some /\ g[2] \in Some /\ h[2] \in Some
      /\ f[2] \in Int /\ g[2] \in Int /\ h[2] \in Int
  BY DEF Some
<1>2. ~ Less(f, g) /\ ~ Less(g, h) => ~ Less(f, h)
  <2> SUFFICES ASSUME ~ Less(f, g), ~ Less(g, h) PROVE ~ Less(f, h)
    OBVIOUS
  <2>1. f[1] * g[2] >= g[1] * f[2] /\ g[1] * h[2] >= h[1] * g[2]
    BY <1>1 DEF Less
  <2>2. (f[1] * g[2]) * h[2] >= (g[1] * f[2]) * h[2] /\ (g[1] * h[2]) * f[2] >= (h[1] * g[2]) * f[2]
    <3> DEFINE a == f[1] * g[2]
               b == g[1] * f[2]
               m == g[1] * h[2]
               n == h[1] * g[2]
    <3>1. a \in Int /\ b \in Int /\ m \in Int /\ n \in Int /\ a >= b /\ m >= n
      BY <1>1, <2>1
    <3> HIDE DEF a, b, m, n
    <3>2. a * h[2] >= b * h[2] /\ m * f[2] >= n * f[2]
      BY <1>1, <3>1 DEF Some
    <3> QED BY <3>2 DEF a, b, m, n
  <2>3. (g[1] * f[2]) * h[2] = (g[1] * h[2]) * f[2]
    BY <1>1
  <2>4. g[2] * (f[1] * h[2]) >= g[2] * (h[1] * f[2])
    <3>1. (f[1] * g[2]) * h[2] = g[2] * (f[1] * h[2]) /\ (h[1] * g[2]) * f[2] = g[2] * (h[1] * f[2])
      BY <1>1
    <3>2. /\ (f[1] * g[2]) * h[2] \in Int /\ (g[1] * f[2]) * h[2] \in Int
          /\ (g[1] * h[2]) * f[2] \in Int /\ (h[1] * g[2]) * f[2] \in Int
      BY <1>1
    <3> QED BY <2>2, <2>3, <3>1, <3>2
  <2>5. f[1] * h[2] >= h[1] * f[2]
    <3> DEFINE a == f[1] * h[2]
               b == h[1] * f[2]
    <3>1. a \in Int /\ b \in Int /\ g[2] * a >= g[2] * b
      BY <1>1, <2>4
    <3> HIDE DEF a, b
    <3>2. a >= b
      BY <1>1, <3>1 DEF Some
    <3> QED BY <3>2 DEF a, b
  <2> QED BY <1>1, <2>5 DEF Less
<1> QED BY <1>1, <1>2 DEF Less

\* The better of two is one of them and below neither.
LEMMA BetterIs ==
  ASSUME NEW f \in Int \X Some, NEW g \in Int \X Some
  PROVE  /\ Better(f, g) \in {f, g} /\ Better(f, g) \in Int \X Some
         /\ ~ Less(Better(f, g), f) /\ ~ Less(Better(f, g), g)
BY LessOrders DEF Better

LEMMA GainIs ==
  ASSUME NEW s \in {-1, 1}, NEW c \in Some, NEW q \in Some, NEW x \in Int
  PROVE  Gain(s, c, q, x) \in Int \X Some
BY DEF Gain, Some

\* A profit above another was made at a better price.
LEMMA GainFell ==
  ASSUME NEW s \in {-1, 1}, NEW c \in Some, NEW q \in Some, NEW x \in Int, NEW y \in Int
  PROVE  Less(Gain(s, c, q, y), Gain(s, c, q, x)) => s * x > s * y
<1> DEFINE u == s * (x * q - c)
           v == s * (y * q - c)
<1>1. u \in Int /\ v \in Int /\ c \in Int /\ q \in Int
  BY DEF Some
<1>2. Less(Gain(s, c, q, y), Gain(s, c, q, x)) <=> v * c < u * c
  BY DEF Less, Gain
<1>3. v * c < u * c => v < u
  <2> HIDE DEF u, v
  <2> QED BY <1>1 DEF Some
<1>4. v < u => s * y < s * x
  <2>1. s = 1 \/ s = -1
    OBVIOUS
  <2>2. x * q - c > y * q - c => x > y
    BY <1>1 DEF Some
  <2>3. x * q - c < y * q - c => x < y
    BY <1>1 DEF Some
  <2> QED BY <1>1, <2>1, <2>2, <2>3
<1>5. s * x \in Int /\ s * y \in Int
  OBVIOUS
<1> QED BY <1>2, <1>3, <1>4, <1>5

\* What is sold of the lots leaves lots.
LEMMA UpToIs ==
  ASSUME NEW ls \in Seq(ExitLot)
  PROVE  /\ \A i \in 0 .. Len(ls) : UpTo(ls, i) \in Nat
         /\ \A i \in DOMAIN ls : ls[i].qty <= UpTo(ls, i)
         /\ \A i, j \in DOMAIN ls : i <= j => UpTo(ls, i) <= UpTo(ls, j)
<1> DEFINE f == [k \in DOMAIN ls |-> ls[k].qty]
<1>1. DOMAIN ls = 1 .. Len(ls) /\ Len(ls) \in Nat /\ \A k \in DOMAIN ls : ls[k] \in ExitLot
  OBVIOUS
<1>2. \A k \in DOMAIN ls : f[k] \in Nat /\ f[k] = ls[k].qty
  BY <1>1 DEF ExitLot, Some
<1>3. \A i : UpTo(ls, i) = SumFunctionOnSet(f, 1 .. i)
  BY DEF UpTo
<1>4. \A i \in 0 .. Len(ls) : IsFiniteSet(1 .. i) /\ 1 .. i \subseteq DOMAIN ls
  BY <1>1, FS_Interval
<1> HIDE DEF f
<1>5. ASSUME NEW i \in 0 .. Len(ls) PROVE UpTo(ls, i) \in Nat
  <2>1. IsFiniteSet(1 .. i) /\ \A k \in 1 .. i : f[k] \in Nat
    BY <1>2, <1>4
  <2> QED BY <1>3, <2>1, SumNat
<1>6. ASSUME NEW i \in DOMAIN ls PROVE ls[i].qty <= UpTo(ls, i)
  <2>1. i \in 0 .. Len(ls) /\ i \in 1 .. i
    BY <1>1
  <2>2. IsFiniteSet(1 .. i) /\ \A k \in 1 .. i : f[k] \in Nat
    BY <1>2, <1>4, <2>1
  <2>3. f[i] <= SumFunctionOnSet(f, 1 .. i)
    BY <2>1, <2>2, SumHasPart
  <2> QED BY <1>2, <1>3, <2>3
<1>7. ASSUME NEW i \in DOMAIN ls, NEW j \in DOMAIN ls, i <= j PROVE UpTo(ls, i) <= UpTo(ls, j)
  <2> DEFINE g == [k \in DOMAIN ls |-> IF k <= i THEN f[k] ELSE 0]
  <2>1. j \in 0 .. Len(ls) /\ i \in 0 .. Len(ls) /\ 1 .. i \subseteq 1 .. j /\ i \in Nat /\ j \in Nat
    BY <1>1, <1>7
  <2>2. IsFiniteSet(1 .. j) /\ IsFiniteSet(1 .. i) /\ \A k \in 1 .. j : k \in DOMAIN ls
    BY <1>4, <2>1
  <2>3. \A k \in 1 .. j : g[k] \in Int /\ f[k] \in Int /\ g[k] <= f[k]
    BY <1>2, <2>2
  <2>4. \A k \in (1 .. j) \ (1 .. i) : g[k] = 0
    BY <2>1, <2>2
  <2>5. \A k \in 1 .. i : g[k] = f[k]
    BY <2>1, <2>2
  <2> HIDE DEF g
  <2>6. SumFunctionOnSet(g, 1 .. j) <= SumFunctionOnSet(f, 1 .. j)
    BY <2>2, <2>3, SumAtMost
  <2>7. SumFunctionOnSet(g, 1 .. j) = SumFunctionOnSet(g, 1 .. i)
    <3>1. 1 .. i \in SUBSET (1 .. j) /\ \A k \in 1 .. j : g[k] \in Int
      BY <2>1, <2>3
    <3> QED BY <2>2, <2>4, <3>1, SumPart
  <2>8. SumFunctionOnSet(g, 1 .. i) = SumFunctionOnSet(f, 1 .. i)
    BY <2>2, <2>5, SumSame
  <2> QED BY <1>3, <2>6, <2>7, <2>8
<1> QED BY <1>5, <1>6, <1>7

\* Lots hold something, and something was paid for them.
LEMMA LotsWorth ==
  ASSUME NEW ls \in Seq(ExitLot)
  PROVE  /\ Held(ls) \in Nat /\ Paid(ls) \in Nat
         /\ ls # <<>> => Held(ls) \in Some /\ Paid(ls) \in Some
         /\ ls = <<>> => Held(ls) = 0 /\ Paid(ls) = 0
<1> DEFINE f == [k \in DOMAIN ls |-> ls[k].qty * ls[k].cost]
<1>1. DOMAIN ls = 1 .. Len(ls) /\ Len(ls) \in Nat /\ \A k \in DOMAIN ls : ls[k] \in ExitLot
  OBVIOUS
<1>2. IsFiniteSet(DOMAIN ls)
  BY <1>1, FS_Interval
<1>3. \A k \in DOMAIN ls : f[k] \in Some /\ f[k] \in Nat
  <2> TAKE k \in DOMAIN ls
  <2>1. ls[k].qty \in Some /\ ls[k].cost \in Some
    BY <1>1 DEF ExitLot
  <2>2. \A a, b \in Some : a * b \in Some
    BY DEF Some
  <2> QED BY <2>1, <2>2 DEF Some
<1>4. Paid(ls) = SumFunctionOnSet(f, DOMAIN ls)
  BY DEF Paid
<1> HIDE DEF f
<1>5. Paid(ls) \in Nat
  BY <1>2, <1>3, <1>4, SumNat
<1>6. Held(ls) \in Nat
  BY <1>1, UpToIs DEF Held
<1>7. ASSUME ls # <<>> PROVE Held(ls) \in Some /\ Paid(ls) \in Some
  <2>1. Len(ls) \in DOMAIN ls
    BY <1>1, <1>7
  <2>2. f[Len(ls)] <= Paid(ls)
    BY <1>2, <1>3, <1>4, <2>1, SumHasPart
  <2>3. ls[Len(ls)].qty <= Held(ls) /\ ls[Len(ls)].qty \in Some
    BY <1>1, <2>1, UpToIs DEF Held, ExitLot
  <2>4. f[Len(ls)] \in Some
    BY <1>3, <2>1
  <2> QED BY <1>5, <1>6, <2>2, <2>3, <2>4 DEF Some
<1>8. ASSUME ls = <<>> PROVE Held(ls) = 0 /\ Paid(ls) = 0
  <2>1. DOMAIN ls = {} /\ 1 .. Len(ls) = {}
    BY <1>8
  <2> QED BY <1>4, <2>1, SumEmpty DEF Held, UpTo
<1> QED BY <1>5, <1>6, <1>7, <1>8

\* Lots without the oldest shares are lots.
LEMMA ConsumedIs ==
  ASSUME NEW ls \in Seq(ExitLot), NEW n \in Nat
  PROVE  Consumed(ls, n) \in Seq(ExitLot) /\ Len(Consumed(ls, n)) <= Len(ls)
<1> DEFINE later == {i \in DOMAIN ls : UpTo(ls, i) > n} \cup {Len(ls) + 1}
           gone == Min(later) - 1
           f == [i \in 1 .. Len(ls) - gone |->
                   [ls[gone + i] EXCEPT !.qty = MinOf(@, UpTo(ls, gone + i) - n)]]
<1>1. DOMAIN ls = 1 .. Len(ls) /\ Len(ls) \in Nat /\ \A k \in DOMAIN ls : ls[k] \in ExitLot
  OBVIOUS
<1>2. Min(later) \in later /\ \A i \in later : Min(later) <= i
  <2>1. later \subseteq Nat /\ later # {}
    BY <1>1
  <2> HIDE DEF later
  <2> QED BY <2>1, MinIs
<1>3. gone \in Nat /\ gone <= Len(ls) /\ Min(later) = gone + 1
  BY <1>1, <1>2
<1>4. Consumed(ls, n) = f
  BY DEF Consumed
<1> HIDE DEF gone
<1>5. ASSUME NEW i \in 1 .. Len(ls) - gone
      PROVE  f[i] \in ExitLot
  <2>1. gone + i \in DOMAIN ls /\ gone + 1 \in DOMAIN ls /\ gone + 1 <= gone + i
    BY <1>1, <1>3
  <2>2. UpTo(ls, gone + 1) > n
    <3>1. gone + 1 \in later /\ gone + 1 # Len(ls) + 1
      BY <1>1, <1>2, <1>3, <2>1
    <3> QED BY <3>1
  <2>3. /\ UpTo(ls, gone + 1) \in Nat /\ UpTo(ls, gone + i) \in Nat
        /\ UpTo(ls, gone + 1) <= UpTo(ls, gone + i)
    <3>1. gone + 1 \in 0 .. Len(ls) /\ gone + i \in 0 .. Len(ls)
      BY <1>1, <2>1
    <3> QED BY <2>1, <3>1, UpToIs
  <2>4. UpTo(ls, gone + i) - n \in Some
    BY <2>2, <2>3 DEF Some
  <2>5. ls[gone + i] \in ExitLot
    BY <1>1, <2>1
  <2>6. MinOf(ls[gone + i].qty, UpTo(ls, gone + i) - n) \in Some
    BY <2>4, <2>5 DEF MinOf, ExitLot
  <2> QED BY <2>5, <2>6 DEF ExitLot
<1>6. f \in [1 .. Len(ls) - gone -> ExitLot]
  BY <1>5
<1>7. Len(ls) - gone \in Nat
  BY <1>1, <1>3
<1>8. Len(ls) - gone <= Len(ls)
  BY <1>1, <1>3
<1> HIDE DEF f
<1>9. f \in Seq(ExitLot) /\ Len(f) = Len(ls) - gone
  BY <1>6, <1>7, FunctionIsSeq
<1> QED BY <1>4, <1>8, <1>9

-----------------------------------------------------------------------------
(* What a fill makes of the lots and of the trade *)

\* The trade t of the lots ls goes on from the trade before, or is a new one.
Follows(t, ls) ==
  /\ ls \in Seq(ExitLot) /\ t.qty = Held(ls) /\ t.cost = Paid(ls)
  /\ \/ ls = <<>> /\ t = NoTrade
     \/ /\ ls # <<>> /\ t \in TradeShape /\ t.since <= now + 1
        /\ \/ /\ trade # NoTrade /\ t.dir = trade.dir /\ t.since = trade.since
              /\ t.top = TopAfter(trade, t.qty)
           \/ t.since = now + 1 /\ t.dir # trade.dir /\ t.top = <<0, 1>>

\* A trade is none by its direction.
LEMMA NoneByDirection ==
  /\ NoTrade.dir = 0 /\ NoTrade.qty = 0 /\ NoTrade.cost = 0
  /\ \A t \in TradeShape : t # NoTrade /\ t.dir \in {-1, 1}
BY DEF NoTrade, TradeShape

LEMMA TradeIs ==
  ASSUME ExitsInv
  PROVE  /\ trade = NoTrade \/ trade \in TradeShape
         /\ trade.dir \in {-1, 0, 1} /\ (trade.dir = 0 <=> trade = NoTrade)
         /\ trade = NoTrade <=> lots = <<>>
         /\ now \in Nat /\ lots \in Seq(ExitLot)
BY NoneByDirection, ExitAssumption DEF ExitsInv, TradeIsOfLots, ExitTyped

\* Prices are numbers.
LEMMA PricesAre ==
  ASSUME ExitsInv
  PROVE  seen \subseteq Int /\ price \in Int /\ \A p \in ExitPrices : p \in Int
<1>1. ExitPrices \subseteq Int
  BY ExitAssumption
<1>2. seen \subseteq ExitPrices /\ price \in ExitPrices \cup {0}
  BY DEF ExitsInv, ExitTyped
<1> QED BY <1>1, <1>2

LEMMA NextTradeFollows ==
  ASSUME ExitsInv, NEW ls \in Seq(ExitLot), NEW d, d \in {-1, 1} \/ ls = <<>>
  PROVE  Follows(NextTrade(trade, d, ls), ls)
<1> DEFINE t == NextTrade(trade, d, ls)
<1>1. CASE ls = <<>>
  <2>1. t = NoTrade
    BY <1>1 DEF NextTrade
  <2>2. Held(ls) = 0 /\ Paid(ls) = 0
    BY <1>1, LotsWorth
  <2> QED BY <1>1, <2>1, <2>2, NoneByDirection DEF Follows
<1>2. ASSUME ls # <<>>, trade.dir = d PROVE Follows(t, ls)
  <2>1. trade \in TradeShape /\ trade # NoTrade /\ trade.since <= now
    BY <1>2, TradeIs DEF ExitsInv, TradeIsOfLots
  <2>2. t = [trade EXCEPT !.qty = Held(ls), !.cost = Paid(ls), !.top = TopAfter(trade, Held(ls))]
    BY <1>2 DEF NextTrade
  <2>3. Held(ls) \in Some /\ Paid(ls) \in Some
    BY <1>2, LotsWorth
  <2>4. TopAfter(trade, Held(ls)) \in Int \X Some
    BY <2>1 DEF TopAfter, TradeShape, Some
  <2>5. /\ t \in TradeShape /\ t.qty = Held(ls) /\ t.cost = Paid(ls) /\ t.dir = trade.dir
        /\ t.since = trade.since /\ t.top = TopAfter(trade, t.qty)
    <3> HIDE DEF t
    <3> QED BY <2>1, <2>2, <2>3, <2>4 DEF TradeShape
  <2>6. t.since <= now + 1
    <3>1. trade.since \in Nat /\ now \in Nat
      BY <2>1, TradeIs DEF TradeShape, Some
    <3> QED BY <2>1, <2>5, <3>1
  <2> HIDE DEF t
  <2> QED BY <1>2, <2>1, <2>5, <2>6 DEF Follows
<1>3. ASSUME ls # <<>>, trade.dir # d PROVE Follows(t, ls)
  <2>1. t = [dir |-> d, since |-> now + 1, cost |-> Paid(ls), qty |-> Held(ls), top |-> <<0, 1>>]
    BY <1>3 DEF NextTrade
  <2>2. Held(ls) \in Some /\ Paid(ls) \in Some
    BY <1>3, LotsWorth
  <2>3. now + 1 \in Some /\ now + 1 <= now + 1 /\ <<0, 1>> \in Int \X Some
    BY TradeIs DEF Some
  <2>4. d \in {-1, 1}
    BY <1>3
  <2> QED BY <1>3, <2>1, <2>2, <2>3, <2>4 DEF Follows, TradeShape
<1> QED BY <1>1, <1>2, <1>3

LEMMA SameFollows ==
  ASSUME ExitsInv
  PROVE  Follows(trade, lots)
<1>1. TradeIsOfLots /\ now \in Nat
  BY TradeIs DEF ExitsInv
<1>2. CASE trade = NoTrade
  BY <1>1, <1>2, TradeIs DEF Follows, TradeIsOfLots
<1>3. CASE trade # NoTrade
  <2>1. trade \in TradeShape /\ trade.since <= now /\ lots # <<>>
    BY <1>1, <1>3 DEF TradeIsOfLots
  <2>2. trade.since \in Nat /\ trade.qty \in Nat
    BY <2>1 DEF TradeShape, Some
  <2>3. trade.top = TopAfter(trade, trade.qty)
    BY <2>2 DEF TopAfter
  <2> QED BY <1>1, <1>3, <2>1, <2>2, <2>3 DEF Follows, TradeIsOfLots
<1> QED BY <1>2, <1>3

LEMMA FillsFollow ==
  ASSUME ExitsInv, NEW d \in {1, -1}, NEW n \in Some, NEW at \in ExitPrices
  PROVE  Follows(NextTrade(trade, DirAfter(d, n), LotsAfter(d, n, at)), LotsAfter(d, n, at))
<1> DEFINE new(q) == [qty |-> q, cost |-> at + d * Fee]
<1>1. n \in Some /\ n \in Nat /\ at + d * Fee \in Some
  BY ExitAssumption DEF Some
<1>2. \A q \in Some : new(q) \in ExitLot
  BY <1>1 DEF ExitLot
<1>3. lots \in Seq(ExitLot) /\ Held(lots) \in Nat
  BY TradeIs, LotsWorth
<1>4. LotsAfter(d, n, at) = IF trade.dir \in {0, d} THEN Append(lots, new(n))
                            ELSE IF n <= Held(lots) THEN Consumed(lots, n)
                            ELSE <<new(n - Held(lots))>>
  BY DEF LotsAfter
<1>5. LotsAfter(d, n, at) \in Seq(ExitLot)
  <2>1. CASE trade.dir \in {0, d}
    <3>1. new(n) \in ExitLot
      BY <1>1, <1>2
    <3> HIDE DEF new
    <3> QED BY <1>3, <1>4, <2>1, <3>1
  <2>2. CASE trade.dir \notin {0, d} /\ n <= Held(lots)
    BY <1>1, <1>3, <1>4, <2>2, ConsumedIs
  <2>3. CASE trade.dir \notin {0, d} /\ ~ (n <= Held(lots))
    <3>1. n - Held(lots) \in Some
      BY <1>1, <1>3, <2>3 DEF Some
    <3>2. new(n - Held(lots)) \in ExitLot
      BY <1>2, <3>1
    <3> HIDE DEF new
    <3> QED BY <1>4, <2>3, <3>2
  <2> QED BY <2>1, <2>2, <2>3
<1>6. DirAfter(d, n) \in {-1, 1}
  BY TradeIs DEF DirAfter
<1> QED BY <1>5, <1>6, NextTradeFollows

-----------------------------------------------------------------------------
(* The gate *)

\* What falls short by a distance falls short.
LEMMA DownIsLess ==
  ASSUME NEW f \in Int \X Some, NEW g \in Int \X Some, NEW n \in Nat, n # 0, Down(f, g, n)
  PROVE  Less(f, g)
<1> DEFINE a == f[1] * g[2]
           b == g[1] * f[2]
           m == f[2] * g[2]
<1>1. /\ f[1] \in Int /\ g[1] \in Int /\ f[2] \in Int /\ g[2] \in Int
      /\ f[2] > 0 /\ g[2] > 0
  BY DEF Some
<1>2. a \in Int /\ b \in Int /\ m \in Int /\ m > 0
  BY <1>1
<1>3. n * m > 0
  <2> HIDE DEF m
  <2> QED BY <1>2
<1>4. /\ f[1] * g[2] * 10 = a * 10 /\ g[1] * f[2] * 10 = b * 10
      /\ n * f[2] * g[2] = n * m
  BY <1>1
<1>5. a * 10 <= b * 10 - n * m
  BY <1>4 DEF Down
<1>6. n * m \in Int
  BY <1>2
<1>7. a < b
  <2> HIDE DEF a, b, m
  <2> QED BY <1>2, <1>3, <1>5, <1>6
<1> QED BY <1>7 DEF Less

\* A base in the ratio of one cost and quantity is in that of another of their ratio.
LEMMA BaseStays ==
  ASSUME NEW c \in Some, NEW q \in Some, NEW d \in Some, NEW r \in Some, d * q = c * r,
         NEW b \in Some \X Some, b[1] * q = c * b[2]
  PROVE  b[1] * r = d * b[2]
<1>1. c \in Int /\ q \in Int /\ d \in Int /\ r \in Int /\ b[1] \in Int /\ b[2] \in Int /\ q > 0
  BY DEF Some
<1>2. q * (b[1] * r) = (b[1] * q) * r /\ (c * b[2]) * r = (c * r) * b[2]
  BY <1>1
<1>3. (d * q) * b[2] = q * (d * b[2])
  BY <1>1
<1>4. q * (b[1] * r) = q * (d * b[2])
  BY <1>2, <1>3
<1> DEFINE u == b[1] * r
           v == d * b[2]
<1>5. u \in Int /\ v \in Int /\ q * u = q * v
  BY <1>1, <1>4
<1> HIDE DEF u, v
<1>6. u = v
  BY <1>1, <1>5
<1> QED BY <1>6 DEF u, v

\* Before the price is looked at: the base and the best profit of the trade t.
LEMMA FillKeepsTop ==
  ASSUME ExitsInv, mode.by = "gate", NEW t, NEW ls, Follows(t, ls), t # NoTrade,
         NEW asked \in BOOLEAN, NEW p \in ExitPrices, Recorded(t, asked, p), ~ uneven'
  PROVE  /\ base' \in Some \X Some /\ base'[1] * t.qty = t.cost * base'[2]
         /\ \/ t.top[1] <= 0
            \/ \E x \in seen' : ~ Less(Gain(t.dir, t.cost, t.qty, x), t.top)
<1> DEFINE fresh == t.dir # trade.dir \/ t.since # trade.since
           larger == fresh \/ t.qty > trade.qty
<1>1. t \in TradeShape /\ t.dir \in {-1, 1} /\ t.cost \in Some /\ t.qty \in Some /\ t.top \in Int \X Some
  BY DEF Follows, TradeShape
<1>2. CASE larger
  <2>1. base' = <<t.cost, MaxOf(t.qty, 1)>>
    BY <1>2 DEF Recorded
  <2>2. MaxOf(t.qty, 1) = t.qty
    BY <1>1 DEF MaxOf, Some
  <2>3. t.top = <<0, 1>>
    BY <1>2 DEF Follows, TopAfter
  <2> QED BY <1>1, <2>1, <2>2, <2>3
<1>3. CASE ~ larger
  <2>1. /\ base' = base /\ ~ uneven /\ t.cost * trade.qty = trade.cost * t.qty
        /\ seen \subseteq seen'
    BY <1>3 DEF Recorded
  <2>2. trade # NoTrade /\ trade \in TradeShape
    BY <1>1, <1>3, TradeIs, NoneByDirection
  <2>3. trade.cost \in Some /\ trade.qty \in Some /\ trade.dir = t.dir
    BY <1>3, <2>2 DEF TradeShape
  <2>4. t.top = trade.top
    <3>1. t.dir = trade.dir /\ ~ (t.qty > trade.qty)
      BY <1>3
    <3> QED BY <1>1, <3>1, NoneByDirection DEF Follows, TopAfter
  <2>5. /\ base \in Some \X Some /\ base[1] * trade.qty = trade.cost * base[2]
        /\ \/ trade.top[1] <= 0
           \/ \E x \in seen : ~ Less(Gain(trade.dir, trade.cost, trade.qty, x), trade.top)
    BY <2>1, <2>2 DEF ExitsInv, TopIsSeen
  <2>6. base[1] * t.qty = t.cost * base[2]
    BY <1>1, <2>1, <2>3, <2>5, BaseStays
  <2>7. ASSUME NEW x \in seen, ~ Less(Gain(trade.dir, trade.cost, trade.qty, x), trade.top)
        PROVE  x \in seen' /\ ~ Less(Gain(t.dir, t.cost, t.qty, x), t.top)
    <3>1. x \in Int
      BY PricesAre
    <3>2. trade.cost * t.qty = t.cost * trade.qty
      BY <2>1
    <3>3. Less(Gain(trade.dir, trade.cost, trade.qty, x), t.top)
            <=> Less(Gain(trade.dir, t.cost, t.qty, x), t.top)
      BY <1>1, <2>3, <3>1, <3>2, SameGain
    <3> QED BY <2>1, <2>3, <2>4, <2>7, <3>3
  <2> QED BY <2>1, <2>4, <2>5, <2>6, <2>7
<1> QED BY <1>2, <1>3

\* What a time point leaves alone keeps what it says.
LEMMA MarkStays ==
  ASSUME UNCHANGED <<mode, mark, worth>>
  PROVE  MarkIsOfValues' = MarkIsOfValues /\ DrawdownIsMeasured' = DrawdownIsMeasured
BY DEF MarkIsOfValues, DrawdownIsMeasured

\* What was seen and what it came to are of their types.
LEMMA PointTyped ==
  ASSUME ExitsInv, NEW t, NEW e \in Int, NEW asked \in BOOLEAN, NEW p \in ExitPrices,
         now < MaxExitPoints, now' = now + 1, price' = p, mode' = mode,
         Recorded(t, asked, p),
         fired' \in {"none", "skipped", "roi", "stop_loss", "trailing", "portfolio"}
  PROVE  ExitTyped'
<1>1. now' \in 0 .. MaxExitPoints
  BY TradeIs, ExitAssumption DEF ExitsInv, ExitTyped
<1>2. seen' \in SUBSET ExitPrices
  BY DEF Recorded, ExitsInv, ExitTyped
<1> QED BY <1>1, <1>2 DEF ExitsInv, ExitTyped

LEMMA GateKeeps ==
  ASSUME ExitsInv, now < MaxExitPoints, NEW t, NEW ls, Follows(t, ls), NEW e \in Int,
         NEW asked, NEW p \in ExitPrices, mode.by = "gate", ExitPoint(t, ls, e, asked, p)
  PROVE  ExitsInv'
<1> DEFINE profit == Profit(t, p)
           marked == [t EXCEPT !.top = Better(@, profit)]
<1>1. /\ now' = now + 1 /\ price' = p /\ lots' = ls /\ UNCHANGED <<mode, mark, worth>>
      /\ Recorded(t, e = 0, p) /\ Gate(t, e, p) /\ peak' = peak
  BY DEF ExitPoint
<1>2. now \in Nat
  BY TradeIs
<1>3. \/ (t = NoTrade \/ e # 0) /\ trade' = t /\ exit' = e /\ fired' = "none"
      \/ /\ t # NoTrade /\ e = 0 /\ trade' = marked /\ fired' = Reason(marked, profit)
         /\ exit' \in {0, - t.dir * t.qty}
  BY <1>1 DEF Gate
<1>4. ASSUME t # NoTrade
      PROVE  /\ t \in TradeShape /\ profit = Gain(t.dir, t.cost, t.qty, p)
             /\ profit \in Int \X Some /\ t.top \in Int \X Some
             /\ marked \in TradeShape /\ marked.dir = t.dir /\ marked.cost = t.cost
             /\ marked.qty = t.qty /\ marked.since = t.since /\ marked.top = Better(t.top, profit)
  <2>1. t \in TradeShape
    BY <1>4 DEF Follows
  <2>2. profit = Gain(t.dir, t.cost, t.qty, p)
    BY DEF Profit, Gain
  <2>3. p \in Int /\ t.dir \in {-1, 1} /\ t.cost \in Some /\ t.qty \in Some /\ t.top \in Int \X Some
    BY <2>1, PricesAre DEF TradeShape
  <2> HIDE DEF profit
  <2>4. profit \in Int \X Some
    BY <2>2, <2>3, GainIs
  <2>5. Better(t.top, profit) \in Int \X Some
    BY <2>3, <2>4, BetterIs
  <2> QED BY <2>1, <2>2, <2>3, <2>4, <2>5 DEF TradeShape
<1> HIDE DEF profit, marked
<1>5. trade' = NoTrade <=> t = NoTrade
  BY <1>3, <1>4, NoneByDirection
<1>6. TradeIsOfLots'
  <2>1. exit' \in Int
    BY <1>3, <1>4 DEF TradeShape, Some
  <2>2. trade'.qty = t.qty /\ trade'.cost = t.cost
    BY <1>3, <1>4
  <2>3. trade' = NoTrade \/ (trade' \in TradeShape /\ trade'.since = t.since)
    BY <1>3, <1>4
  <2> QED BY <1>1, <1>2, <1>5, <2>1, <2>2, <2>3 DEF Follows, TradeIsOfLots
<1>7. fired' \in {"none", "roi", "stop_loss", "trailing"}
  BY <1>3 DEF Reason
<1>8. ExitTyped'
  <2>1. (e = 0) \in BOOLEAN
    OBVIOUS
  <2> QED BY <1>1, <1>7, <2>1, PointTyped
<1>9. TopIsSeen'
  <2> SUFFICES ASSUME trade' # NoTrade, ~ uneven'
               PROVE  /\ base' \in Some \X Some /\ base'[1] * trade'.qty = trade'.cost * base'[2]
                      /\ \/ trade'.top[1] <= 0
                         \/ \E x \in seen' : ~ Less(Gain(trade'.dir, trade'.cost, trade'.qty, x), trade'.top)
                      /\ fired' = "trailing" =>
                           Less(Gain(trade'.dir, trade'.cost, trade'.qty, price'), trade'.top)
    BY DEF TopIsSeen
  <2>1. t # NoTrade /\ (e = 0) \in BOOLEAN
    BY <1>5
  <2>2. /\ base' \in Some \X Some /\ base'[1] * t.qty = t.cost * base'[2]
        /\ \/ t.top[1] <= 0
           \/ \E x \in seen' : ~ Less(Gain(t.dir, t.cost, t.qty, x), t.top)
    BY <1>1, <2>1, FillKeepsTop
  <2>3. CASE e # 0
    BY <1>3, <2>2, <2>3
  <2>4. ASSUME e = 0
        PROVE  /\ \/ Better(t.top, profit)[1] <= 0
                  \/ \E x \in seen' : ~ Less(Gain(t.dir, t.cost, t.qty, x), Better(t.top, profit))
               /\ fired' = "trailing" => Less(profit, Better(t.top, profit))
    <3>1. p \in seen'
      BY <1>1, <2>4 DEF Recorded
    <3>2. /\ Better(t.top, profit) \in {t.top, profit} /\ Better(t.top, profit) \in Int \X Some
          /\ ~ Less(profit, profit)
      BY <1>4, <2>1, BetterIs, LessOrders
    <3>3. ASSUME fired' = "trailing" PROVE Less(profit, Better(t.top, profit))
      <4>1. Reason(marked, profit) = "trailing"
        BY <1>3, <3>3
      <4>2. mode.rules.trail # 0 /\ Down(profit, marked.top, mode.rules.trail)
        BY <4>1 DEF Reason
      <4>3. mode.rules.trail \in Nat
        BY ExitAssumption DEF ExitsInv, ExitTyped
      <4> QED BY <1>4, <2>1, <3>2, <4>2, <4>3, DownIsLess
    <3> QED BY <1>4, <2>1, <2>2, <3>1, <3>2, <3>3
  <2> QED BY <1>1, <1>3, <1>4, <2>1, <2>2, <2>3, <2>4
<1>10. StopsAreOfTrades'
  BY <1>3, <1>5 DEF StopsAreOfTrades
<1>11. PeakTyped'
  <2>1. ASSUME peak.of \in PeakShape, peak.of[2] <= now PROVE peak.of[2] <= now + 1
    BY <1>2, <2>1 DEF PeakShape, Some
  <2> QED BY <1>1, <2>1 DEF ExitsInv, PeakTyped
<1>12. PeakIsBest'
  BY <1>1 DEF PeakIsBest
<1>13. MarkIsOfValues' /\ DrawdownIsMeasured'
  BY <1>1, MarkStays DEF ExitsInv
<1> QED BY <1>6, <1>8, <1>9, <1>10, <1>11, <1>12, <1>13 DEF ExitsInv

-----------------------------------------------------------------------------
(* The trailing stop of the framework *)

\* The peak that the stop of trade t leaves is the best of what it was asked about.
LEMMA AskedPeak ==
  ASSUME ExitsInv, mode.by = "trail", NEW t, NEW ls, Follows(t, ls), t # NoTrade,
         NEW p \in ExitPrices, Recorded(t, TRUE, p)
  PROVE  /\ PeakOf(t, p) \in Int \X Some /\ ~ Less(PeakOf(t, p), <<0, 1>>)
         /\ \A x \in seen' : ~ Less(PeakOf(t, p), Gain(t.dir, t.cost, t.qty, x))
         /\ \/ ~ Less(<<0, 1>>, PeakOf(t, p))
            \/ \E x \in seen' : ~ Less(Gain(t.dir, t.cost, t.qty, x), PeakOf(t, p))
<1> DEFINE gain(x) == Gain(t.dir, t.cost, t.qty, x)
           profit == Profit(t, p)
           zero == <<0, 1>>
<1>1. t \in TradeShape /\ t.dir \in {-1, 1} /\ t.cost \in Some /\ t.qty \in Some
  BY DEF Follows, TradeShape
<1>2. profit = gain(p) /\ p \in Int
  BY PricesAre DEF Profit, Gain
<1>3. \A x \in Int : gain(x) \in Int \X Some
  BY <1>1, GainIs
<1>4. zero \in Int \X Some
  BY DEF Some
<1>5. seen' \subseteq Int /\ p \in seen'
  <2>1. seen' \subseteq seen \cup {p} /\ p \in seen'
    BY DEF Recorded
  <2> QED BY <2>1, PricesAre
<1> HIDE DEF gain, profit, zero
<1>6. profit \in Int \X Some
  BY <1>2, <1>3
<1>7. CASE ~ SameBase(peak.of, t)
  <2>1. seen' = {p}
    BY <1>7 DEF Recorded
  <2>2. PeakOf(t, p) = Better(zero, profit)
    BY <1>7 DEF PeakOf, profit, zero
  <2>3. /\ Better(zero, profit) \in {zero, profit} /\ Better(zero, profit) \in Int \X Some
        /\ ~ Less(Better(zero, profit), zero) /\ ~ Less(Better(zero, profit), profit)
    BY <1>4, <1>6, BetterIs
  <2>4. ~ Less(zero, zero) /\ ~ Less(profit, profit)
    BY <1>4, <1>6, LessOrders
  <2> QED BY <1>2, <2>1, <2>2, <2>3, <2>4 DEF gain, zero
<1>8. CASE SameBase(peak.of, t)
  <2>1. /\ peak.of \in PeakShape /\ peak.top \in Int \X Some /\ peak # NoPeak
        /\ peak.of[1] = t.dir /\ peak.of[2] = t.since /\ peak.of[3] * t.qty = t.cost * peak.of[4]
        /\ peak.of[2] <= now
    BY <1>8 DEF SameBase, NoPeak, ExitsInv, PeakTyped
  <2>2. trade # NoTrade /\ t.dir = trade.dir /\ t.since = trade.since
    <3>1. now \in Nat /\ peak.of[2] \in Nat
      BY <2>1, TradeIs DEF PeakShape, Some
    <3>2. t.since # now + 1
      BY <2>1, <3>1
    <3> QED BY <3>2 DEF Follows
  <2>3. seen' = seen \cup {p}
    BY <1>8, <2>2 DEF Recorded
  <2>4. /\ peak.of[1] \in {-1, 1} /\ peak.of[3] \in Some /\ peak.of[4] \in Some
    BY <2>1 DEF PeakShape
  <2> DEFINE old(x) == Gain(peak.of[1], peak.of[3], peak.of[4], x)
  <2>5. /\ ~ Less(peak.top, zero) /\ \A x \in seen : ~ Less(peak.top, old(x))
        /\ ~ Less(zero, peak.top) \/ \E x \in seen : ~ Less(old(x), peak.top)
    BY <2>1, <2>2 DEF ExitsInv, PeakIsBest, zero
  <2>6. \A x \in Int : /\ Less(peak.top, old(x)) <=> Less(peak.top, gain(x))
                       /\ Less(old(x), peak.top) <=> Less(gain(x), peak.top)
    BY <1>1, <2>1, <2>4, SameGain DEF gain
  <2>7. seen \subseteq Int
    BY <1>5, <2>3
  <2> HIDE DEF old
  <2>8. /\ \A x \in seen : ~ Less(peak.top, gain(x))
        /\ ~ Less(zero, peak.top) \/ \E x \in seen : ~ Less(gain(x), peak.top)
    <3>1. ASSUME NEW x \in seen
          PROVE  /\ Less(peak.top, old(x)) <=> Less(peak.top, gain(x))
                 /\ Less(old(x), peak.top) <=> Less(gain(x), peak.top)
      BY <2>6, <2>7
    <3>2. \A x \in seen : ~ Less(peak.top, gain(x))
      BY <2>5, <3>1
    <3>3. (\E x \in seen : ~ Less(old(x), peak.top)) => \E x \in seen : ~ Less(gain(x), peak.top)
      BY <3>1
    <3> QED BY <2>5, <3>2, <3>3
  <2> DEFINE new == Better(peak.top, profit)
  <2>9. PeakOf(t, p) = new
    BY <1>8 DEF PeakOf, profit
  <2>10. /\ new \in {peak.top, profit} /\ new \in Int \X Some
         /\ ~ Less(new, peak.top) /\ ~ Less(new, profit) /\ ~ Less(profit, profit)
    BY <1>6, <2>1, BetterIs, LessOrders
  <2> HIDE DEF new
  <2>11. \A f \in Int \X Some : ~ Less(peak.top, f) => ~ Less(new, f)
    BY <2>1, <2>10, LessOrders
  <2>12. ~ Less(new, zero) /\ \A x \in seen' : ~ Less(new, gain(x))
    BY <1>2, <1>3, <1>4, <2>3, <2>5, <2>7, <2>8, <2>10, <2>11
  <2>13. ~ Less(zero, new) \/ \E x \in seen' : ~ Less(gain(x), new)
    BY <1>2, <2>3, <2>8, <2>10
  <2> QED BY <2>9, <2>10, <2>12, <2>13 DEF gain, zero
<1> QED BY <1>7, <1>8

LEMMA TrailKeeps ==
  ASSUME ExitsInv, now < MaxExitPoints, NEW t, NEW ls, Follows(t, ls), NEW e \in Int,
         NEW asked \in BOOLEAN, NEW p \in ExitPrices, mode.by = "trail",
         ExitPoint(t, ls, e, asked, p)
  PROVE  ExitsInv'
<1>1. /\ now' = now + 1 /\ price' = p /\ lots' = ls /\ UNCHANGED <<mode, mark, worth>>
      /\ Recorded(t, asked, p) /\ trade' = t /\ exit' = e
      /\ IF asked THEN Trail(t, p) ELSE peak' = peak /\ fired' = "none"
  BY DEF ExitPoint
<1>2. now \in Nat
  BY TradeIs
<1>3. TradeIsOfLots'
  BY <1>1, <1>2 DEF Follows, TradeIsOfLots
<1>4. ExitTyped'
  <2>1. fired' \in {"none", "trailing"}
    BY <1>1 DEF Trail
  <2> QED BY <1>1, <2>1, PointTyped
<1>5. TopIsSeen' /\ StopsAreOfTrades'
  BY <1>1 DEF TopIsSeen, StopsAreOfTrades
<1>6. \/ peak' = NoPeak
      \/ peak' = peak /\ ~ asked
      \/ asked /\ t # NoTrade /\ peak' = [of |-> Fingerprint(t), top |-> PeakOf(t, p)]
  BY <1>1 DEF Trail
<1>7. PeakTyped'
  <2>1. CASE peak' = NoPeak
    BY <2>1 DEF PeakTyped
  <2>2. CASE peak' = peak
    <3>1. ASSUME peak.of \in PeakShape, peak.of[2] <= now PROVE peak.of[2] <= now + 1
      BY <1>2, <3>1 DEF PeakShape, Some
    <3> QED BY <1>1, <2>2, <3>1 DEF ExitsInv, PeakTyped
  <2>3. CASE asked /\ t # NoTrade /\ peak' = [of |-> Fingerprint(t), top |-> PeakOf(t, p)]
    <3>1. t \in TradeShape /\ t.since <= now + 1
      BY <2>3 DEF Follows
    <3>2. Fingerprint(t) \in PeakShape /\ Fingerprint(t)[2] = t.since
      BY <3>1 DEF Fingerprint, PeakShape, TradeShape
    <3>3. PeakOf(t, p) \in Int \X Some
      BY <1>1, <2>3, AskedPeak
    <3> QED BY <1>1, <2>3, <3>1, <3>2, <3>3 DEF PeakTyped
  <2> QED BY <1>6, <2>1, <2>2, <2>3
<1>8. PeakIsBest'
  <2> SUFFICES ASSUME t # NoTrade, peak' # NoPeak, peak'.of[1] = t.dir, peak'.of[2] = t.since
               PROVE  LET gain(x) == Gain(peak'.of[1], peak'.of[3], peak'.of[4], x)
                      IN /\ ~ Less(peak'.top, <<0, 1>>) /\ \A x \in seen' : ~ Less(peak'.top, gain(x))
                         /\ \/ ~ Less(<<0, 1>>, peak'.top)
                            \/ \E x \in seen' : ~ Less(gain(x), peak'.top)
    BY <1>1 DEF PeakIsBest
  <2>1. CASE peak' = peak /\ ~ asked
    <3>1. peak.of \in PeakShape /\ peak.of[2] <= now
      BY <2>1 DEF ExitsInv, PeakTyped
    <3>2. t.since # now + 1
      BY <1>2, <2>1, <3>1 DEF PeakShape, Some
    <3>3. trade # NoTrade /\ t.dir = trade.dir /\ t.since = trade.since
      BY <3>2 DEF Follows
    <3>4. seen' = seen
      BY <1>1, <2>1, <3>3 DEF Recorded
    <3> QED BY <2>1, <3>3, <3>4 DEF ExitsInv, PeakIsBest
  <2>2. CASE asked /\ peak' = [of |-> Fingerprint(t), top |-> PeakOf(t, p)]
    <3>1. /\ peak'.of[1] = t.dir /\ peak'.of[3] = t.cost /\ peak'.of[4] = t.qty
          /\ peak'.top = PeakOf(t, p)
      BY <2>2 DEF Fingerprint
    <3>2. Recorded(t, TRUE, p)
      BY <1>1, <2>2
    <3> QED BY <3>1, <3>2, AskedPeak
  <2> QED BY <1>6, <2>1, <2>2
<1>9. MarkIsOfValues' /\ DrawdownIsMeasured'
  BY <1>1, MarkStays DEF ExitsInv
<1> QED BY <1>3, <1>4, <1>5, <1>7, <1>8, <1>9 DEF ExitsInv

-----------------------------------------------------------------------------
(* The drawdown of the portfolio *)

\* One more value: the largest is the larger.
LEMMA LargestAppended ==
  ASSUME NEW s \in Seq(Some), s # <<>>, NEW v \in Some
  PROVE  /\ Max(Range(s)) \in Some
         /\ Max(Range(Append(s, v))) = MaxOf(Max(Range(s)), v)
<1>1. /\ DOMAIN s = 1 .. Len(s) /\ Len(s) \in Nat /\ Len(s) # 0
      /\ \A i \in DOMAIN s : s[i] \in Some
  <2>1. Len(s) # 0
    BY EmptySeq
  <2> QED BY <2>1
<1>2. Range(s) = {s[i] : i \in 1 .. Len(s)}
  BY <1>1 DEF Range
<1>3. IsFiniteSet(Range(s)) /\ Range(s) \subseteq Some /\ Range(s) # {}
  <2>1. s \in Surjection(1 .. Len(s), Range(s))
    BY <1>1, <1>2 DEF Surjection
  <2>2. IsFiniteSet(1 .. Len(s))
    BY <1>1, FS_Interval
  <2>3. IsFiniteSet(Range(s))
    BY <2>1, <2>2, FS_Surjection
  <2> QED BY <1>1, <1>2, <2>3
<1>4. Range(Append(s, v)) = Range(s) \cup {v}
  <2>1. /\ DOMAIN Append(s, v) = 1 .. Len(s) + 1 /\ Append(s, v)[Len(s) + 1] = v
        /\ \A i \in 1 .. Len(s) : Append(s, v)[i] = s[i]
    BY <1>1, AppendProperties
  <2>2. Range(Append(s, v)) = {Append(s, v)[i] : i \in 1 .. Len(s) + 1}
    BY <2>1 DEF Range
  <2>3. \A i : i \in 1 .. Len(s) + 1 <=> i \in 1 .. Len(s) \/ i = Len(s) + 1
    BY <1>1
  <2> QED BY <1>2, <2>1, <2>2, <2>3
<1>5. \A T : T \subseteq Some => T \subseteq Int
  BY DEF Some
<1> DEFINE R == Range(s)
           a == Max(R)
           b == Max(R \cup {v})
<1>6. a \in R /\ \A x \in R : x <= a
  BY <1>3, <1>5, MaxIs
<1>7. b \in R \cup {v} /\ \A x \in R \cup {v} : x <= b
  <2>1. IsFiniteSet(R \cup {v}) /\ R \cup {v} \subseteq Int /\ R \cup {v} # {}
    BY <1>3, <1>5, FS_AddElement
  <2> HIDE DEF R
  <2> QED BY <2>1, MaxIs
<1>8. a \in Some /\ b \in Some
  BY <1>3, <1>6, <1>7
<1> HIDE DEF R, a, b
<1>9. b = MaxOf(a, v)
  BY <1>6, <1>7, <1>8 DEF MaxOf, Some
<1> QED BY <1>4, <1>8, <1>9 DEF R, a, b

LEMMA LargestOfOne == ASSUME NEW v \in Some PROVE Max(Range(<<v>>)) = v
<1>1. Range(<<v>>) = {v}
  BY DEF Range
<1>2. v \in {v} /\ \A y \in {v} : v >= y
  BY DEF Some
<1>3. Max({v}) \in {v}
  BY <1>2 DEF Max
<1> QED BY <1>1, <1>3

LEMMA ValuedKeeps ==
  ASSUME ExitsInv, now < MaxExitPoints, NEW v \in Values, Valued(v)
  PROVE  ExitsInv'
<1>1. /\ mode.by \in {"first", "top"} /\ now' = now + 1 /\ Portfolio(v)
      /\ UNCHANGED <<mode, price, lots, trade, exit, seen, base, uneven, peak>>
  BY DEF Valued
<1>2. now \in Nat /\ v \in Int
  BY TradeIs, ExitAssumption
<1> DEFINE m == IF mark = 0 THEN v ELSE IF mode.by = "top" THEN MaxOf(mark, v) ELSE mark
           hit == (v - m) * 10 <= - mode.rules.trail * m
           vals == IF worth.hit THEN <<v>> ELSE Append(worth.vals, v)
<1>3. \/ UNCHANGED <<mark, worth>> /\ fired' = "skipped"
      \/ /\ v \in Some /\ mark' = (IF hit THEN 0 ELSE m)
         /\ fired' = (IF hit THEN "portfolio" ELSE "none")
         /\ worth' = [vals |-> vals, hit |-> hit]
  BY <1>1, <1>2 DEF Portfolio, MarkAfter, Some
<1>4. TradeIsOfLots'
  <2>1. ASSUME trade \in TradeShape, trade.since <= now PROVE trade.since <= now + 1
    BY <1>2, <2>1 DEF TradeShape, Some
  <2> QED BY <1>1, <2>1 DEF ExitsInv, TradeIsOfLots
<1>5. ExitTyped'
  <2>1. now' \in 0 .. MaxExitPoints
    BY <1>1, <1>2, ExitAssumption
  <2>2. fired' \in {"skipped", "portfolio", "none"}
    BY <1>3
  <2> QED BY <1>1, <2>1, <2>2 DEF ExitsInv, ExitTyped
<1>6. TopIsSeen' /\ StopsAreOfTrades' /\ PeakIsBest'
  BY <1>1 DEF TopIsSeen, StopsAreOfTrades, PeakIsBest
<1>7. PeakTyped'
  <2>1. ASSUME peak.of \in PeakShape, peak.of[2] <= now PROVE peak.of[2] <= now + 1
    BY <1>2, <2>1 DEF PeakShape, Some
  <2> QED BY <1>1, <2>1 DEF ExitsInv, PeakTyped
<1>8. MarkIsOfValues' /\ DrawdownIsMeasured'
  <2>1. CASE UNCHANGED <<mark, worth>>
    BY <1>1, <2>1, MarkStays DEF ExitsInv
  <2>2. CASE /\ v \in Some /\ mark' = (IF hit THEN 0 ELSE m)
             /\ worth' = [vals |-> vals, hit |-> hit]
    <3>1. MarkIsOfValues
      BY DEF ExitsInv
    <3>2. m \in Some
      BY <2>2, <3>1 DEF MarkIsOfValues, MaxOf, Some
    <3>3. /\ vals \in Seq(Some) /\ vals # <<>> /\ Last(vals) = v
          /\ IF mode.by = "top" THEN Max(Range(vals)) = m ELSE vals[1] = m
      <4>1. CASE mark = 0
        <5>1. vals = <<v>> /\ m = v
          <6>1. Append(<<>>, v) = <<v>>
            OBVIOUS
          <6>2. worth.hit \/ worth.vals = <<>>
            BY <3>1, <4>1 DEF MarkIsOfValues
          <6> QED BY <4>1, <6>1, <6>2
        <5>2. /\ <<v>> \in Seq(Some) /\ <<v>> # <<>> /\ Last(<<v>>) = v /\ <<v>>[1] = v
              /\ Max(Range(<<v>>)) = v
          BY <2>2, LargestOfOne DEF Last
        <5> HIDE DEF vals, m
        <5> QED BY <5>1, <5>2
      <4>2. CASE mark # 0
        <5>1. vals = Append(worth.vals, v) /\ worth.vals # <<>> /\ worth.vals \in Seq(Some)
          BY <3>1, <4>2 DEF MarkIsOfValues
        <5>2. /\ vals \in Seq(Some) /\ Len(vals) = Len(worth.vals) + 1
              /\ vals[Len(worth.vals) + 1] = v /\ Len(worth.vals) \in Nat
              /\ \A i \in 1 .. Len(worth.vals) : vals[i] = worth.vals[i]
          BY <2>2, <5>1, AppendProperties
        <5>3. Len(worth.vals) # 0
          BY <5>1, EmptySeq
        <5>4. vals[1] = worth.vals[1] /\ vals # <<>> /\ Last(vals) = v
          BY <5>2, <5>3 DEF Last
        <5>5. mode.by # "top" => vals[1] = m
          BY <3>1, <4>2, <5>4 DEF MarkIsOfValues
        <5>6. mode.by = "top" => Max(Range(vals)) = m
          BY <2>2, <3>1, <4>2, <5>1, LargestAppended DEF MarkIsOfValues
        <5> QED BY <5>2, <5>4, <5>5, <5>6
      <4> QED BY <4>1, <4>2
    <3>4. worth'.vals = vals /\ worth'.hit = hit
      BY <2>2
    <3> HIDE DEF vals
    <3>5. MarkIsOfValues'
      BY <1>1, <2>2, <3>2, <3>3, <3>4 DEF MarkIsOfValues, Some
    <3>6. DrawdownIsMeasured'
      <4>1. mode.by = "first" <=> mode.by # "top"
        BY <1>1
      <4>2. (v - m) * 10 = 10 * (v - m)
        BY <1>2, <3>2 DEF Some
      <4> QED BY <1>1, <3>3, <3>4, <4>1, <4>2 DEF DrawdownIsMeasured
    <3> QED BY <3>5, <3>6
  <2> QED BY <1>3, <2>1, <2>2
<1> QED BY <1>4, <1>5, <1>6, <1>7, <1>8 DEF ExitsInv

-----------------------------------------------------------------------------
LEMMA ExitInitHolds == ExitInit => ExitsInv
<1> SUFFICES ASSUME ExitInit PROVE ExitsInv
  OBVIOUS
<1>1. Held(<<>>) = 0 /\ Paid(<<>>) = 0
  <2>1. <<>> \in Seq(ExitLot)
    OBVIOUS
  <2> QED BY <2>1, LotsWorth
<1>2. TradeIsOfLots
  BY <1>1, NoneByDirection DEF ExitInit, TradeIsOfLots
<1>3. ExitTyped
  BY ExitAssumption DEF ExitInit, ExitTyped
<1>4. TopIsSeen /\ StopsAreOfTrades /\ PeakTyped /\ PeakIsBest
  BY DEF ExitInit, TopIsSeen, StopsAreOfTrades, PeakTyped, PeakIsBest
<1>5. MarkIsOfValues /\ DrawdownIsMeasured
  BY DEF ExitInit, MarkIsOfValues, DrawdownIsMeasured
<1> QED BY <1>2, <1>3, <1>4, <1>5 DEF ExitsInv

LEMMA ExitPointKeeps ==
  ASSUME ExitsInv, now < MaxExitPoints, NEW t, NEW ls, Follows(t, ls), NEW e \in Int,
         NEW asked \in BOOLEAN, NEW p \in ExitPrices, ExitPoint(t, ls, e, asked, p)
  PROVE  ExitsInv'
<1>1. mode.by = "gate" \/ mode.by = "trail"
  BY DEF ExitPoint
<1> QED BY <1>1, GateKeeps, TrailKeeps

LEMMA ExitStepHolds == ExitsInv /\ [ExitNext]_exitVars => ExitsInv'
<1> SUFFICES ASSUME ExitsInv, [ExitNext]_exitVars PROVE ExitsInv'
  OBVIOUS
<1>1. exit \in Int
  BY DEF ExitsInv, TradeIsOfLots
<1>2. ASSUME now < MaxExitPoints, NEW v \in Values, Valued(v) PROVE ExitsInv'
  BY <1>2, ValuedKeeps
<1>3. ASSUME now < MaxExitPoints, NEW p \in ExitPrices, NEW asked \in BOOLEAN,
             Quietly(asked, p) \/ Drops(asked, p)
      PROVE  ExitsInv'
  <2>1. ExitPoint(trade, lots, exit, asked, p) \/ ExitPoint(trade, lots, 0, asked, p)
    BY <1>3 DEF Quietly, Drops
  <2> QED BY <1>1, <1>3, <2>1, SameFollows, ExitPointKeeps
<1>4. ASSUME now < MaxExitPoints, NEW p \in ExitPrices, NEW asked \in BOOLEAN,
             NEW d \in {1, -1}, NEW n \in Some, NEW at \in ExitPrices, NEW e \in Int,
             Fills(d, n, at, e, asked, p)
      PROVE  ExitsInv'
  <2> DEFINE ls == LotsAfter(d, n, at)
             t == NextTrade(trade, DirAfter(d, n), ls)
  <2>1. ExitPoint(t, ls, e, asked, p)
    BY <1>4 DEF Fills
  <2>2. Follows(t, ls)
    BY FillsFollow
  <2> HIDE DEF t, ls
  <2> QED BY <1>4, <2>1, <2>2, ExitPointKeeps
<1>5. ASSUME now < MaxExitPoints, NEW p \in ExitPrices, NEW asked \in BOOLEAN,
             NEW d \in {1, -1}, NEW at \in ExitPrices,
             \/ \E n \in Quantities : Trades(d, n, at, asked, p)
             \/ \E n \in 1 .. d * exit : Exits(d, n, at, asked, p)
      PROVE  ExitsInv'
  <2>1. CASE \E n \in Quantities : Trades(d, n, at, asked, p)
    <3>1. PICK n \in Quantities : Fills(d, n, at, exit, asked, p)
      BY <2>1 DEF Trades
    <3>2. n \in Some
      BY ExitAssumption DEF Some
    <3> QED BY <1>1, <1>4, <1>5, <3>1, <3>2
  <2>2. CASE \E n \in 1 .. d * exit : Exits(d, n, at, asked, p)
    <3>1. PICK n \in 1 .. d * exit : Exits(d, n, at, asked, p)
      BY <2>2
    <3>2. n \in Some /\ d * exit - n \in Int
      BY <1>1 DEF Some
    <3>3. PICK rest \in 0 .. d * exit - n : Fills(d, n, at, d * rest, asked, p)
      BY <3>1 DEF Exits
    <3>4. d * rest \in Int
      BY <3>2
    <3> QED BY <1>4, <1>5, <3>2, <3>3, <3>4
  <2> QED BY <1>5, <2>1, <2>2
<1>6. CASE UNCHANGED exitVars
  <2>1. /\ UNCHANGED <<mode, now, price, lots, trade, exit, fired, seen, base, uneven, peak>>
        /\ UNCHANGED <<mark, worth>>
    BY <1>6 DEF exitVars
  <2>2. TradeIsOfLots' /\ ExitTyped' /\ TopIsSeen' /\ StopsAreOfTrades'
    BY <2>1 DEF ExitsInv, TradeIsOfLots, ExitTyped, TopIsSeen, StopsAreOfTrades
  <2>3. PeakTyped' /\ PeakIsBest'
    BY <2>1 DEF ExitsInv, PeakTyped, PeakIsBest
  <2>4. MarkIsOfValues' /\ DrawdownIsMeasured'
    BY <2>1, MarkStays DEF ExitsInv
  <2> QED BY <2>2, <2>3, <2>4 DEF ExitsInv
<1>7. ASSUME ExitNext PROVE ExitsInv'
  <2>1. now < MaxExitPoints
    BY <1>7 DEF ExitNext
  <2>2. CASE \E v \in Values : Valued(v)
    BY <1>2, <2>1, <2>2
  <2>3. CASE \E p \in ExitPrices, asked \in BOOLEAN :
               \/ Quietly(asked, p) \/ Drops(asked, p)
               \/ \E d \in {1, -1}, at \in ExitPrices :
                    \/ \E n \in Quantities : Trades(d, n, at, asked, p)
                    \/ \E n \in 1 .. d * exit : Exits(d, n, at, asked, p)
    BY <1>3, <1>5, <2>1, <2>3
  <2> QED BY <1>7, <2>2, <2>3 DEF ExitNext
<1> QED BY <1>6, <1>7

-----------------------------------------------------------------------------
\* A trailing stop of the gate is below something: the price fell from one it saw, or
\* is worse than what the position cost.
LEMMA StopsFell == ExitsInv => TrailingNeedsFall
<1> SUFFICES ASSUME ExitsInv, mode.by = "gate", fired = "trailing", ~ uneven PROVE Fallen
  BY DEF TrailingNeedsFall
<1> DEFINE c == trade.cost
           q == trade.qty
           s == trade.dir
           gain(x) == Gain(s, c, q, x)
<1>1. trade # NoTrade
  BY DEF ExitsInv, StopsAreOfTrades
<1>2. /\ trade \in TradeShape /\ s \in {-1, 1} /\ c \in Some /\ q \in Some
      /\ trade.top \in Int \X Some
  BY <1>1, TradeIs DEF TradeShape
<1>3. price \in Int /\ seen \subseteq Int
  BY PricesAre
<1>4. /\ base \in Some \X Some /\ base[1] * q = c * base[2]
      /\ trade.top[1] <= 0 \/ \E x \in seen : ~ Less(gain(x), trade.top)
      /\ Less(gain(price), trade.top)
  BY <1>1 DEF ExitsInv, TopIsSeen
<1>5. gain(price) \in Int \X Some /\ \A x \in seen : gain(x) \in Int \X Some
  BY <1>2, <1>3, GainIs
<1>6. ASSUME NEW x \in seen, ~ Less(gain(x), trade.top) PROVE s * x > s * price
  <2> HIDE DEF gain
  <2>1. Less(gain(price), gain(x))
    BY <1>2, <1>4, <1>5, <1>6, LessOrders
  <2> QED BY <1>2, <1>3, <2>1, GainFell DEF gain
<1>7. ASSUME trade.top[1] <= 0 PROVE s * base[1] > s * price * base[2]
  <2> DEFINE u == s * (price * q - c)
             w == trade.top[1] * c
  <2>1. u * trade.top[2] < w
    BY <1>4 DEF Less, Gain
  <2>2. w \in Int /\ w <= 0
    BY <1>2, <1>7 DEF Some
  <2>3. u \in Int /\ trade.top[2] \in Int /\ trade.top[2] > 0
    BY <1>2, <1>3 DEF Some
  <2>4. u < 0
    <3> HIDE DEF u, w
    <3> QED BY <2>1, <2>2, <2>3
  <2>5. c \in Int /\ q \in Int /\ q > 0 /\ base[1] \in Int /\ base[2] \in Int /\ base[2] > 0
    BY <1>2, <1>4 DEF Some
  <2>6. s * (price * q) < s * c
    <3>1. s = 1 \/ s = -1
      BY <1>2
    <3> QED BY <1>3, <2>4, <2>5, <3>1
  <2>7. (s * (price * q)) * base[2] < (s * c) * base[2]
    <3> DEFINE a == s * (price * q)
               b == s * c
    <3>1. a \in Int /\ b \in Int /\ a < b
      BY <1>2, <1>3, <2>5, <2>6
    <3> HIDE DEF a, b
    <3>2. a * base[2] < b * base[2]
      BY <2>5, <3>1
    <3> QED BY <3>2 DEF a, b
  <2>8. (s * (price * q)) * base[2] = q * (s * price * base[2])
    BY <1>2, <1>3, <2>5
  <2>9. (s * c) * base[2] = q * (s * base[1])
    <3>1. (s * c) * base[2] = s * (c * base[2]) /\ q * (s * base[1]) = s * (base[1] * q)
      BY <1>2, <2>5
    <3> QED BY <1>4, <3>1
  <2> DEFINE a == s * price * base[2]
             b == s * base[1]
  <2>10. a \in Int /\ b \in Int /\ q * a < q * b
    BY <1>2, <1>3, <2>5, <2>7, <2>8, <2>9
  <2>11. a < b
    <3> HIDE DEF a, b, q
    <3> QED BY <2>5, <2>10
  <2> QED BY <2>10, <2>11
<1> QED BY <1>4, <1>6, <1>7 DEF Fallen

\* The stop of the framework, on the trade's present cost.
LEMMA PeaksAreOfTrades == ExitsInv => StopIsOfItsTrade
<1> SUFFICES ASSUME ExitsInv, mode.by = "trail", trade # NoTrade, SameBase(peak.of, trade)
             PROVE  LET had == {Profit(trade, x) : x \in seen} \cup {<<0, 1>>}
                    IN /\ \A f \in had : ~ Less(peak.top, f)
                       /\ \E f \in had : ~ Less(f, peak.top)
  BY DEF StopIsOfItsTrade
<1>1. /\ peak.of \in PeakShape /\ peak.top \in Int \X Some /\ peak # NoPeak
      /\ peak.of[1] = trade.dir /\ peak.of[2] = trade.since
      /\ peak.of[3] * trade.qty = trade.cost * peak.of[4]
  BY DEF SameBase, NoPeak, ExitsInv, PeakTyped
<1>2. /\ trade \in TradeShape /\ trade.dir \in {-1, 1} /\ trade.cost \in Some /\ trade.qty \in Some
      /\ peak.of[3] \in Some /\ peak.of[4] \in Some
  BY <1>1, TradeIs DEF TradeShape, PeakShape
<1> DEFINE old(x) == Gain(peak.of[1], peak.of[3], peak.of[4], x)
           new(x) == Gain(trade.dir, trade.cost, trade.qty, x)
<1>3. \A x : Profit(trade, x) = new(x)
  BY DEF Profit, Gain
<1>4. /\ ~ Less(peak.top, <<0, 1>>) /\ \A x \in seen : ~ Less(peak.top, old(x))
      /\ ~ Less(<<0, 1>>, peak.top) \/ \E x \in seen : ~ Less(old(x), peak.top)
  BY <1>1 DEF ExitsInv, PeakIsBest
<1>5. \A x \in seen : /\ Less(peak.top, old(x)) <=> Less(peak.top, new(x))
                      /\ Less(old(x), peak.top) <=> Less(new(x), peak.top)
  <2> QED BY <1>1, <1>2, PricesAre, SameGain
<1> HIDE DEF old, new
<1>6. /\ \A x \in seen : ~ Less(peak.top, new(x))
      /\ ~ Less(<<0, 1>>, peak.top) \/ \E x \in seen : ~ Less(new(x), peak.top)
  <2>1. \A x \in seen : ~ Less(peak.top, new(x))
    BY <1>4, <1>5
  <2>2. (\E x \in seen : ~ Less(old(x), peak.top)) => \E x \in seen : ~ Less(new(x), peak.top)
    BY <1>5
  <2> QED BY <1>4, <2>1, <2>2
<1> DEFINE had == {Profit(trade, x) : x \in seen} \cup {<<0, 1>>}
<1>7. \A f : f \in had <=> f = <<0, 1>> \/ \E x \in seen : f = new(x)
  BY <1>3
<1> HIDE DEF had
<1>8. (\A f \in had : ~ Less(peak.top, f)) /\ \E f \in had : ~ Less(f, peak.top)
  BY <1>4, <1>6, <1>7
<1> QED BY <1>8 DEF had

\* Exits are measured on what they are exits of (trade.py evaluate_exit and next_trade,
\* framework/risk/drawdown.py), for all prices, quantities, rules and runs: a trailing
\* stop needs a fall of the price, the framework's stop compares with the best of this
\* trade on its present cost, and the drawdown with the values since the liquidation.
THEOREM ExitsStayMeasured == ExitSpec => []ExitsAreMeasured
<1>1. ExitsInv => ExitsAreMeasured
  <2> SUFFICES ASSUME ExitsInv PROVE ExitsAreMeasured
    OBVIOUS
  <2>1. ExitTypeOK
    BY DEF ExitsInv, ExitTyped, TradeIsOfLots, ExitTypeOK
  <2> QED BY <2>1, StopsFell, PeaksAreOfTrades DEF ExitsInv, ExitsAreMeasured
<1> QED BY <1>1, ExitInitHolds, ExitStepHolds, PTL DEF ExitSpec
=============================================================================
