--------------------------- MODULE ExecutionProofs ---------------------------
(****************************************************************************)
(* Proofs about Execution, for any number of clients, any requests, quotes, *)
(* real depth, ladders, rows of the symbol master, caps, slippage, slices   *)
(* and fee schedules: the books balance whatever fills cost, the figures a  *)
(* reader is shown add up, only a race breaks a cap on the position, no     *)
(* order can be undone with a gain at the quote that priced it, and a walk  *)
(* of the book is the best execution it allows.                             *)
(*                                                                          *)
(* What a fill may do to the books is proved once in AccountProofs, for any *)
(* principal and any fee.  What is left is that the prices computed outside *)
(* the transaction give it such numbers, also after another client's steps; *)
(* for a broker with an order book that is a matter of the levels it walks, *)
(* which come first.                                                        *)
(****************************************************************************)
EXTENDS Execution, AccountProofs, Sums, SequenceTheorems

-----------------------------------------------------------------------------
(* Arithmetic of a fill *)

Sides == {"buy", "sell"}

\* A price as a fraction: for a buy at least one unit.
IsPrice(p, side) ==
  /\ p[1] \in Nat /\ p[2] \in Nat \ {0}
  /\ side = "buy" => p[1] >= p[2]

\* The constants, with the set differences spelt out.
LEMMA ExecConstants ==
  /\ Scale \in Nat /\ Scale > 0 /\ SlippageBps \in Int /\ SlippageBps <= Scale
  /\ MaxPerTick \in Nat /\ MaxPerTick > 0
  /\ MaxPctPerTick \in Nat /\ MaxPctPerTick > 0
  /\ MinFill \in Nat /\ MinFill > 0
  /\ \A l \in Lasts : l \in Nat /\ l > 0
BY ExecutionAssumption DEF ExecutionAssumption

\* The shares that one tick fills: at least one, never more than there are
\* (partial_fills.py 53-95).
LEMMA SliceFits ==
  ASSUME NEW rest \in Nat, rest > 0
  PROVE  FillQty(rest) \in Nat /\ FillQty(rest) > 0 /\ FillQty(rest) <= rest
<1> DEFINE pct == (rest * MaxPctPerTick) \div Scale
           cap == Least(Least(rest, MaxPerTick), pct)
<1>1. rest * MaxPctPerTick \in Nat
  BY ExecConstants, SMT
<1>2. pct \in Nat
  BY <1>1, ExecConstants, DivBounds
<1>3. cap \in Nat /\ cap <= rest
  BY <1>2, ExecConstants DEF Least
<1> HIDE DEF cap
<1>4. FillQty(rest) = IF ~Slicing \/ rest <= MinFill THEN rest
                      ELSE IF cap < MinFill THEN Least(MinFill, rest) ELSE cap
  BY DEF FillQty, cap
<1> QED  BY <1>3, <1>4, ExecConstants DEF Least

\* The principal of a price: positive when the price is at least one.
LEMMA PrincipalType ==
  ASSUME NEW q \in Nat, q > 0, NEW p, NEW side, IsPrice(p, side)
  PROVE  /\ Principal(q, p) \in Nat
         /\ side = "buy" => Principal(q, p) > 0
<1> DEFINE n == p[1]
           d == p[2]
<1>1. n \in Nat /\ d \in Nat \ {0} /\ (side = "buy" => n >= d)
  BY DEF IsPrice
<1> HIDE DEF n, d
<1>2. q * n \in Nat
  BY <1>1, SMT
<1>3. (q * n) \div d \in Nat /\ q * n < d * ((q * n) \div d) + d
  BY <1>1, <1>2, DivBounds
<1>4. side = "buy" => (q * n) \div d > 0
  <2> SUFFICES ASSUME side = "buy", (q * n) \div d = 0 PROVE FALSE
    BY <1>3
  <2>1. q * n < d
    BY <1>1, <1>3
  <2>2. q * n >= n
    BY <1>1, SMT
  <2> QED  BY <1>1, <1>2, <2>1, <2>2
<1> QED  BY <1>3, <1>4 DEF Principal, n, d

\* A slipped price is a price: a buy pays at least the last price, a sale may
\* receive nothing at all.
LEMMA SlippedIsPrice ==
  ASSUME NEW side \in Sides, NEW last \in Lasts
  PROVE  IsPrice(Slipped(side, last), side)
<1> DEFINE bps == Most(0, SlippageBps)
           f == IF side = "buy" THEN Scale + bps ELSE Scale - bps
<1>1. bps \in Nat /\ bps <= Scale
  BY ExecConstants DEF Most
<1>2. f \in Nat /\ (side = "buy" => f >= Scale)
  BY <1>1, ExecConstants
<1>3. last \in Nat /\ last > 0
  BY ExecConstants
<1> HIDE DEF bps, f
<1>4. last * f \in Nat /\ last * f >= f
  BY <1>2, <1>3, SMT
<1>5. Slipped(side, last) = <<last * f, Scale>>
  BY DEF Slipped, bps, f
<1> QED  BY <1>2, <1>4, <1>5, ExecConstants DEF IsPrice

\* The fees of a turnover are never negative.
LEMMA FeesAreNat ==
  ASSUME NEW cfg \in FeeConfigs, NEW side \in Sides, NEW turnover \in Nat
  PROVE  FeeTotal(cfg, side, turnover) \in Nat
<1>1. /\ cfg.flat \in Nat /\ cfg.pct \in Nat /\ cfg.max \in Nat
      /\ cfg.exchange \in Nat /\ cfg.gst \in Nat /\ cfg.sebi \in Nat
      /\ cfg.sttBuy \in Nat /\ cfg.sttSell \in Nat
      /\ cfg.stamp \in Nat /\ cfg.dp \in Nat
  BY DEF FeeConfigs
<1> DEFINE buying == side = "buy"
           taxed == Brokerage(cfg, turnover) + turnover * cfg.exchange
           rate == cfg.sebi + IF buying THEN cfg.sttBuy + cfg.stamp ELSE cfg.sttSell
           direct == turnover * rate
           dp == IF buying THEN 0 ELSE cfg.dp
           n == (taxed + direct + dp * Scale) * Scale + taxed * cfg.gst
           d == Scale * Scale
<1>2. Brokerage(cfg, turnover) \in Nat
  <2>1. /\ turnover * cfg.pct \in Nat /\ cfg.max * Scale \in Nat
        /\ cfg.flat * Scale \in Nat
    BY <1>1, ExecConstants, SMT
  <2> QED  BY <2>1 DEF Brokerage, Most, Least
<1>3. taxed \in Nat
  BY <1>1, <1>2, SMT
<1>4. direct \in Nat
  <2>1. rate \in Nat
    BY <1>1
  <2> HIDE DEF rate
  <2> QED  BY <2>1, SMT
<1>5. dp * Scale \in Nat
  <2>1. dp \in Nat
    BY <1>1
  <2> HIDE DEF dp
  <2> QED  BY <2>1, ExecConstants, SMT
<1>6. n \in Nat
  <2>1. taxed + direct + dp * Scale \in Nat
    BY <1>3, <1>4, <1>5
  <2> HIDE DEF taxed, direct, dp
  <2>2. (taxed + direct + dp * Scale) * Scale \in Nat
    BY <2>1, ExecConstants, SMT
  <2>3. taxed * cfg.gst \in Nat
    BY <1>1, <1>3, SMT
  <2> QED  BY <2>2, <2>3
<1>7. d \in Nat /\ d > 0
  BY ExecConstants, SMT
<1>8. FeeTotal(cfg, side, turnover) = IF turnover <= 0 THEN 0 ELSE HalfUp(n, d)
  BY DEF FeeTotal
<1> HIDE DEF n, d
<1>9. 2 * n + d \in Nat /\ 2 * d \in Nat \ {0}
  BY <1>6, <1>7
<1>10. HalfUp(n, d) \in Nat
  BY <1>9, DivBounds DEF HalfUp
<1> QED  BY <1>8, <1>10

-----------------------------------------------------------------------------
(* The levels of a book *)

\* The constants of the book.
LEMMA BookConstants ==
  /\ Levels \in Nat /\ DepthPct \in Nat /\ SpreadBps \in Nat /\ DefaultAdv \in Nat
  /\ Decay[1] \in Nat \ {0} /\ Decay[2] \in Nat \ {0}
  /\ Scale \in Nat \ {0} /\ NoValue \notin Int
  /\ Ticks \subseteq Nat /\ Lasts \subseteq Nat \ {0}
  /\ \A m \in Quotes : /\ {m.bid, m.ask, m.volume} \subseteq Int \cup {NoValue}
                       /\ {m.bids, m.asks} \subseteq Seq(Level)
BY ExecutionAssumption DEF ExecutionAssumption

\* Powers are positive.
LEMMA PowersPositive ==
  ASSUME NEW a \in Nat \ {0}
  PROVE  \A n \in 0..Levels : Powers(a)[n] \in Nat \ {0}
<1> DEFINE X == Nat \ {0}
           Is(f) == f = [n \in 0..Levels |-> IF n = 0 THEN 1 ELSE a * f[n - 1]]
           step == [n \in 1..Levels |-> [x \in X |-> a * x]]
<1>1. \A x \in X : a * x \in X
  BY SMT
<1>2. 1 \in X /\ Levels \in Nat /\ step \in [1..Levels -> [X -> X]]
  BY <1>1, BookConstants
<1>3. HasLoop(Levels, X, 1, step)
  <2> HIDE DEF X, step
  <2> QED
    BY <1>2, LoopEnds
<1>4. PICK f \in [0..Levels -> X] :
        f[0] = 1 /\ \A n \in 1..Levels : f[n] = step[n][f[n - 1]]
  BY <1>3 DEF HasLoop
<1>5. \A n \in 1..Levels : f[n] = a * f[n - 1] /\ n \in 0..Levels /\ n - 1 \in 0..Levels
  <2> SUFFICES ASSUME NEW n \in 1..Levels
               PROVE  f[n] = a * f[n - 1] /\ n \in 0..Levels /\ n - 1 \in 0..Levels
    OBVIOUS
  <2>1. n \in 0..Levels /\ n - 1 \in 0..Levels
    BY <1>2
  <2>2. f[n - 1] \in X
    BY <2>1
  <2> HIDE DEF X
  <2> QED
    BY <1>4, <2>1, <2>2
<1>6. Is(f)
  <2>1. \A n \in 0..Levels : n # 0 => n \in 1..Levels
    BY <1>2
  <2>2. \A n \in 0..Levels : f[n] = IF n = 0 THEN 1 ELSE a * f[n - 1]
    BY <1>4, <1>5, <2>1
  <2>3. f = [n \in 0..Levels |-> f[n]]
    OBVIOUS
  <2> QED
    BY <2>2, <2>3
<1> DEFINE c == CHOOSE g : Is(g)
<1>7. Is(c)
  <2> HIDE DEF Is
  <2> QED
    BY <1>6
<1>8. c = Powers(a)
  BY DEF Powers
<1> HIDE DEF c
<1> DEFINE P == {n \in 0..Levels : c[n] \in X}
<1>9. 0 \in P
  BY <1>2, <1>7
<1>10. ASSUME NEW n \in 1..Levels, n - 1 \in P
       PROVE  n \in P
  <2>1. n \in 0..Levels /\ n # 0 /\ c[n - 1] \in X
    BY <1>2, <1>10
  <2>2. c[n] = a * c[n - 1]
    BY <1>7, <2>1
  <2> QED
    BY <1>1, <2>1, <2>2
<1>11. 0..Levels \subseteq P
  <2> HIDE DEF P
  <2> QED
    BY <1>2, <1>9, <1>10, Rounds
<1> QED
  BY <1>8, <1>11

\* Rounding a fraction gives a whole number.
LEMMA HalfEvenNat ==
  ASSUME NEW n \in Nat, NEW d \in Nat \ {0}
  PROVE  HalfEven(n, d) \in Nat
<1>1. n \div d \in Nat
  BY DivBounds
<1> QED
  BY <1>1 DEF HalfEven

\* Every size of a level is at least one.
LEMMA SizesPositive ==
  ASSUME NEW top \in Nat, NEW i \in 0..Levels
  PROVE  SizeAt(top, i) \in Nat \ {0}
<1> DEFINE a == Powers(Decay[1])[i]
           b == Powers(Decay[2])[i]
<1>1. a \in Nat /\ b \in Nat \ {0}
  BY BookConstants, PowersPositive
<1> HIDE DEF a, b
<1>2. top * a \in Nat
  BY <1>1, SMT
<1>3. HalfEven(top * a, b) \in Nat
  BY <1>1, <1>2, HalfEvenNat
<1> QED
  BY <1>3 DEF SizeAt, Most, a, b

\* The loop of Positive: where it ends is what the lemma says of every round.
PositiveRound(levels, s, n) ==
  /\ s \in Seq(Level)
  /\ \A k \in 1..Len(s) :
       s[k].price > 0 /\ \E i \in 1..n : s[k] = levels[i]
  /\ \A k, l \in 1..Len(s) : k < l =>
       \E i, j \in 1..n : i < j /\ s[k] = levels[i] /\ s[l] = levels[j]
  /\ (\E i \in 1..n : levels[i].price > 0) => s # <<>>

\* One more level.
LEMMA PositiveRoundStep ==
  ASSUME NEW levels \in Seq(Level), NEW n \in 1..Len(levels), NEW s,
         PositiveRound(levels, s, n - 1)
  PROVE  PositiveRound(levels,
           IF levels[n].price > 0 THEN Append(s, levels[n]) ELSE s, n)
<1>1. levels[n] \in Level /\ levels[n].price \in Int /\ n \in Nat /\ n - 1 \in Nat
  <2>1. levels[n] \in Level
    OBVIOUS
  <2> QED
    BY <2>1 DEF Level
<1>2. \A i \in 1..(n - 1) : i \in 1..n /\ i < n
  BY <1>1
<1>3. CASE levels[n].price > 0
  <2> DEFINE t == Append(s, levels[n])
  <2>1. s \in Seq(Level) /\ Len(s) \in Nat
    BY DEF PositiveRound
  <2>2. /\ t \in Seq(Level) /\ Len(t) = Len(s) + 1 /\ t[Len(s) + 1] = levels[n]
        /\ \A k \in 1..Len(s) : t[k] = s[k]
    BY <1>1, <2>1, AppendProperties
  <2> HIDE DEF t
  <2>3. n \in 1..n
    BY <1>1
  <2>4. ASSUME NEW k \in 1..Len(t)
        PROVE  t[k].price > 0 /\ \E i \in 1..n : t[k] = levels[i]
    <3>1. CASE k = Len(s) + 1
      BY <1>3, <2>2, <2>3, <3>1
    <3>2. CASE k # Len(s) + 1
      <4>1. k \in 1..Len(s)
        BY <2>1, <2>2, <3>2
      <4>2. s[k].price > 0 /\ \E i \in 1..(n - 1) : s[k] = levels[i]
        BY <4>1 DEF PositiveRound
      <4> QED
        BY <1>2, <2>2, <4>1, <4>2
    <3> QED
      BY <3>1, <3>2
  <2>5. ASSUME NEW k \in 1..Len(t), NEW l \in 1..Len(t), k < l
        PROVE  \E i, j \in 1..n : i < j /\ t[k] = levels[i] /\ t[l] = levels[j]
    <3>1. k \in 1..Len(s)
      BY <2>1, <2>2, <2>5
    <3>2. CASE l = Len(s) + 1
      <4>1. PICK i \in 1..(n - 1) : s[k] = levels[i]
        BY <3>1 DEF PositiveRound
      <4> QED
        BY <1>2, <2>2, <2>3, <3>1, <3>2, <4>1
    <3>3. CASE l # Len(s) + 1
      <4>1. l \in 1..Len(s)
        BY <2>1, <2>2, <3>3
      <4>2. PICK i, j \in 1..(n - 1) : i < j /\ s[k] = levels[i] /\ s[l] = levels[j]
        BY <2>5, <3>1, <4>1 DEF PositiveRound
      <4> QED
        BY <1>2, <2>2, <3>1, <4>1, <4>2
    <3> QED
      BY <3>2, <3>3
  <2>6. t # <<>>
    BY <2>1, <2>2
  <2> QED
    BY <1>3, <2>2, <2>4, <2>5, <2>6 DEF PositiveRound, t
<1>4. CASE ~(levels[n].price > 0)
  <2>1. (\E i \in 1..n : levels[i].price > 0) =>
          \E i \in 1..(n - 1) : levels[i].price > 0
    <3> SUFFICES ASSUME NEW i \in 1..n, levels[i].price > 0
                 PROVE  i \in 1..(n - 1)
      OBVIOUS
    <3> QED
      BY <1>1, <1>4
  <2> QED
    BY <1>2, <1>4, <2>1 DEF PositiveRound
<1> QED
  BY <1>3, <1>4

\* The positive levels are the levels with a positive price, in their order.
LEMMA PositiveIs ==
  ASSUME NEW levels \in Seq(Level)
  PROVE  PositiveRound(levels, Positive(levels), Len(levels))
<1> DEFINE N == Len(levels)
           X == Seq(Level)
           Is(f) == f = [n \in 0..N |->
                           IF n = 0 THEN <<>>
                           ELSE IF levels[n].price > 0 THEN Append(f[n - 1], levels[n])
                                                       ELSE f[n - 1]]
           step == [n \in 1..N |-> [s \in X |->
                      IF levels[n].price > 0 THEN Append(s, levels[n]) ELSE s]]
<1>1. N \in Nat /\ \A n \in 1..N : levels[n] \in Level
  OBVIOUS
<1>2. \A n \in 1..N, s \in X : Append(s, levels[n]) \in X
  BY <1>1
<1>3. <<>> \in X /\ step \in [1..N -> [X -> X]]
  <2>1. \A n \in 1..N, s \in X :
          (IF levels[n].price > 0 THEN Append(s, levels[n]) ELSE s) \in X
    BY <1>2
  <2>2. <<>> \in X
    OBVIOUS
  <2> HIDE DEF X
  <2> QED
    BY <2>1, <2>2
<1>4. HasLoop(N, X, <<>>, step)
  <2> HIDE DEF X, step, N
  <2> QED
    BY <1>1, <1>3, LoopEnds
<1>5. PICK f \in [0..N -> X] :
        f[0] = <<>> /\ \A n \in 1..N : f[n] = step[n][f[n - 1]]
  BY <1>4 DEF HasLoop
<1>6. ASSUME NEW n \in 1..N
      PROVE  f[n] = IF levels[n].price > 0 THEN Append(f[n - 1], levels[n])
                                           ELSE f[n - 1]
  <2>1. n - 1 \in 0..N
    BY <1>1
  <2>2. f[n - 1] \in X
    BY <2>1
  <2> HIDE DEF X
  <2>3. step[n][f[n - 1]] = IF levels[n].price > 0 THEN Append(f[n - 1], levels[n])
                                                   ELSE f[n - 1]
    BY <2>2
  <2> HIDE DEF step
  <2> QED
    BY <1>5, <2>3
<1>7. Is(f)
  <2>1. \A n \in 0..N : n # 0 => n \in 1..N
    BY <1>1
  <2>2. \A n \in 0..N : f[n] = IF n = 0 THEN <<>>
                           ELSE IF levels[n].price > 0 THEN Append(f[n - 1], levels[n])
                                                       ELSE f[n - 1]
    BY <1>5, <1>6, <2>1, Zenon
  <2>3. f = [n \in 0..N |-> f[n]]
    OBVIOUS
  <2> QED
    BY <2>2, <2>3
<1> DEFINE c == CHOOSE g : Is(g)
<1>8. Is(c)
  <2> HIDE DEF Is
  <2> QED
    BY <1>7
<1>9. Positive(levels) = c[N]
  BY DEF Positive
<1> HIDE DEF c
<1> DEFINE P == {n \in 0..N : PositiveRound(levels, c[n], n)}
<1>10. 0 \in P
  <2>1. 0 \in 0..N /\ c[0] = <<>>
    BY <1>1, <1>8
  <2>2. PositiveRound(levels, <<>>, 0)
    <3>1. Len(<<>>) = 0 /\ 1..0 = {} /\ <<>> \in Seq(Level)
      OBVIOUS
    <3> QED
      BY <3>1 DEF PositiveRound
  <2> QED
    BY <2>1, <2>2
<1>11. ASSUME NEW n \in 1..N, n - 1 \in P
       PROVE  n \in P
  <2>1. n \in 0..N /\ n # 0
    BY <1>1
  <2>2. c[n] = IF levels[n].price > 0 THEN Append(c[n - 1], levels[n]) ELSE c[n - 1]
    BY <1>8, <2>1
  <2>3. PositiveRound(levels, c[n - 1], n - 1)
    BY <1>11
  <2>4. PositiveRound(levels, c[n], n)
    BY <2>2, <2>3, PositiveRoundStep
  <2> QED
    BY <2>1, <2>4
<1>12. 0..N \subseteq P
  <2> HIDE DEF P
  <2> QED
    BY <1>1, <1>10, <1>11, Rounds
<1>13. N \in P
  BY <1>1, <1>12
<1> QED
  BY <1>9, <1>13

\* y is no better a price than x for who trades on the side.
Away(side, x, y) == IF side = "buy" THEN x <= y ELSE x >= y

\* A side of a book: real levels at positive prices, the better ones first,
\* none better than b.
Priceable(s) == s \in Seq(Level) /\ \A i \in DOMAIN s : s[i].price > 0
Sorted(side, s) ==
  \A i, j \in DOMAIN s : i < j => Away(side, s[i].price, s[j].price)
Beyond(side, b, s) == \A i \in DOMAIN s : Away(side, b, s[i].price)

\* The fields of levels.
LEMMA LevelFields ==
  ASSUME NEW s \in Seq(Level), NEW i \in DOMAIN s
  PROVE  s[i].price \in Int /\ s[i].size \in Nat \ {0}
<1>1. s[i] \in Level
  OBVIOUS
<1> QED
  BY <1>1 DEF Level

\* What is left of a sequence of levels when the others are taken out.
LEMMA PositiveFacts ==
  ASSUME NEW s \in Seq(Level)
  PROVE  /\ Priceable(Positive(s))
         /\ \A side : Sorted(side, s) => Sorted(side, Positive(s))
         /\ \A side, b : Beyond(side, b, s) => Beyond(side, b, Positive(s))
         /\ (\E i \in DOMAIN s : s[i].price > 0) => Positive(s) # <<>>
<1> DEFINE t == Positive(s)
<1>1. PositiveRound(s, t, Len(s))
  BY PositiveIs
<1>2. t \in Seq(Level) /\ DOMAIN t = 1..Len(t) /\ DOMAIN s = 1..Len(s)
  BY <1>1 DEF PositiveRound
<1> HIDE DEF t
<1>3. Priceable(t)
  BY <1>1, <1>2 DEF PositiveRound, Priceable
<1>4. ASSUME NEW side, Sorted(side, s)
      PROVE  Sorted(side, t)
  <2> SUFFICES ASSUME NEW k \in 1..Len(t), NEW l \in 1..Len(t), k < l
               PROVE  Away(side, t[k].price, t[l].price)
    BY <1>2 DEF Sorted
  <2>1. PICK i, j \in 1..Len(s) : i < j /\ t[k] = s[i] /\ t[l] = s[j]
    BY <1>1 DEF PositiveRound
  <2> QED
    BY <1>2, <1>4, <2>1 DEF Sorted
<1>5. ASSUME NEW side, NEW b, Beyond(side, b, s)
      PROVE  Beyond(side, b, t)
  <2> SUFFICES ASSUME NEW k \in 1..Len(t) PROVE Away(side, b, t[k].price)
    BY <1>2 DEF Beyond
  <2>1. PICK i \in 1..Len(s) : t[k] = s[i]
    BY <1>1 DEF PositiveRound
  <2> QED
    BY <1>2, <1>5, <2>1 DEF Beyond
<1>6. (\E i \in DOMAIN s : s[i].price > 0) => t # <<>>
  BY <1>1, <1>2 DEF PositiveRound
<1> QED
  BY <1>3, <1>4, <1>5, <1>6 DEF t

\* A ladder goes away from its price.
LEMMA LadderFacts ==
  ASSUME NEW side \in Sides, NEW price \in Int, NEW step \in Int, Away(side, 0, step),
         NEW top \in Nat, NEW from \in 0..1, NEW n \in Int, n - 1 + from <= Levels
  PROVE  LET s == Ladder(price, step, top, from, n) IN
         /\ Priceable(s) /\ Sorted(side, s) /\ Beyond(side, price, s)
         /\ price > 0 /\ from = 0 /\ n > 0 => s # <<>>
<1> DEFINE at(i) == price + (i - 1 + from) * step
           raw == [i \in 1..n |-> [price |-> price + (i - 1 + from) * step,
                                   size |-> SizeAt(top, i - 1 + from)]]
<1>1. ASSUME NEW i \in 1..n
      PROVE  at(i) \in Int /\ SizeAt(top, i - 1 + from) \in Nat \ {0}
  <2>1. i - 1 + from \in 0..Levels
    BY BookConstants
  <2>2. (i - 1 + from) * step \in Int
    BY SMT
  <2> QED
    BY <2>1, <2>2, SizesPositive
<1> DEFINE len == IF n > 0 THEN n ELSE 0
<1>2. len \in Nat /\ 1..n = 1..len
  OBVIOUS
<1>3. raw \in Seq(Level) /\ DOMAIN raw = 1..n
  <2>1. \A i \in 1..n : [price |-> price + (i - 1 + from) * step,
                         size |-> SizeAt(top, i - 1 + from)] \in Level
    BY <1>1 DEF Level
  <2>2. raw \in [1..len -> Level]
    BY <1>2, <2>1
  <2> HIDE DEF raw, len
  <2>3. raw \in Seq(Level)
    BY <1>2, <2>2
  <2> QED
    BY <1>2, <2>2, <2>3
<1>4. \A i \in 1..n : raw[i].price = at(i)
  OBVIOUS
<1>5. ASSUME NEW i \in 1..n, NEW j \in 1..n, i < j
      PROVE  Away(side, at(i), at(j))
  <2> DEFINE d == j - i
             x == (i - 1 + from) * step
  <2>1. d \in Nat /\ x \in Int
    BY <1>5, SMT
  <2>2. at(j) = at(i) + d * step
    <3>1. j - 1 + from = (i - 1 + from) + d
      OBVIOUS
    <3>2. (j - 1 + from) * step = x + d * step
      <4> DEFINE e == i - 1 + from
      <4>1. e \in Int /\ d \in Int
        OBVIOUS
      <4> HIDE DEF e, d
      <4>2. (e + d) * step = e * step + d * step
        BY <4>1, SMT
      <4> QED
        BY <3>1, <4>2 DEF e
    <3>3. d * step \in Int
      <4> HIDE DEF d
      <4> QED
        BY <2>1, SMT
    <3> QED
      BY <2>1, <3>2, <3>3
  <2>3. Away(side, 0, d * step) /\ d * step \in Int
    <3> HIDE DEF d
    <3> QED
      BY <2>1, SMT DEF Away
  <2>4. at(i) \in Int
    BY <1>1
  <2> HIDE DEF at, d, x
  <2> QED
    BY <2>2, <2>3, <2>4 DEF Away
<1>6. ASSUME NEW i \in 1..n
      PROVE  Away(side, price, at(i))
  <2> DEFINE d == i - 1 + from
  <2>1. d \in Nat
    OBVIOUS
  <2>2. at(i) = price + d * step
    OBVIOUS
  <2> HIDE DEF d, at
  <2>3. Away(side, 0, d * step) /\ d * step \in Int
    BY <2>1, SMT DEF Away
  <2> QED
    BY <2>2, <2>3 DEF Away
<1>7. ASSUME price > 0, from = 0, n > 0
      PROVE  1 \in 1..n /\ at(1) = price
  <2>1. (1 - 1 + from) * step = 0
    BY <1>7
  <2> QED
    BY <1>7, <2>1
<1>8. Ladder(price, step, top, from, n) = Positive(raw)
  BY DEF Ladder
<1> HIDE DEF at, raw
<1>9. Sorted(side, raw)
  BY <1>3, <1>4, <1>5 DEF Sorted
<1>10. Beyond(side, price, raw)
  BY <1>3, <1>4, <1>6 DEF Beyond
<1>11. price > 0 /\ from = 0 /\ n > 0 => \E i \in DOMAIN raw : raw[i].price > 0
  BY <1>3, <1>4, <1>7
<1> QED
  BY <1>3, <1>8, <1>9, <1>10, <1>11, PositiveFacts

\* A real side and the ladder behind its deepest level.
LEMMA ExtendFacts ==
  ASSUME NEW side \in Sides, NEW step \in Int, Away(side, 0, step), NEW real \in Seq(Level)
  PROVE  LET s == Extend(real, step) IN
         /\ Priceable(s)
         /\ Sorted(side, real) => Sorted(side, s)
         /\ \A b \in Int : Beyond(side, b, real) => Beyond(side, b, s)
         /\ (\E i \in DOMAIN real : real[i].price > 0) => s # <<>>
<1> DEFINE out == Positive(real)
           deepest == out[Len(out)]
           tail == Ladder(deepest.price, step, Most(1, deepest.size), 1, Levels - Len(out))
<1>1. /\ Priceable(out)
      /\ Sorted(side, real) => Sorted(side, out)
      /\ \A b : Beyond(side, b, real) => Beyond(side, b, out)
      /\ (\E i \in DOMAIN real : real[i].price > 0) => out # <<>>
  BY PositiveFacts
<1> HIDE DEF out
<1>2. Extend(real, step) = IF out = <<>> THEN <<>> ELSE out \o tail
  BY DEF Extend, out
<1>3. CASE out = <<>>
  BY <1>1, <1>2, <1>3 DEF Priceable, Sorted, Beyond
<1>4. CASE out # <<>>
  <2> DEFINE N == Len(out)
  <2>1. out \in Seq(Level) /\ N \in Nat /\ N > 0 /\ N \in 1..N /\ DOMAIN out = 1..N
    BY <1>1, <1>4 DEF Priceable
  <2>2. deepest.price \in Int /\ deepest.price > 0 /\ Most(1, deepest.size) \in Nat
    <3>1. deepest \in Level
      BY <2>1
    <3>2. deepest.price > 0
      BY <1>1, <2>1 DEF Priceable
    <3> HIDE DEF deepest
    <3> QED
      BY <3>1, <3>2 DEF Level, Most
  <2>3. Levels - N \in Int /\ Levels - N - 1 + 1 <= Levels /\ 1 \in 0..1
    BY <2>1, BookConstants
  <2> DEFINE top == Most(1, deepest.size)
             n == Levels - N
  <2>4. Priceable(tail) /\ Sorted(side, tail) /\ Beyond(side, deepest.price, tail)
    <3>1. top \in Nat /\ n \in Int /\ n - 1 + 1 <= Levels /\ deepest.price \in Int
      BY <2>2, <2>3
    <3>2. tail = Ladder(deepest.price, step, top, 1, n)
      OBVIOUS
    <3> HIDE DEF top, n, deepest, tail
    <3> QED
      BY <2>3, <3>1, <3>2, LadderFacts
  <2> HIDE DEF tail
  <2> DEFINE s == out \o tail
  <2>5. tail \in Seq(Level) /\ Len(tail) \in Nat /\ DOMAIN tail = 1..Len(tail)
    BY <2>4 DEF Priceable
  <2>6. /\ s \in Seq(Level) /\ Len(s) = N + Len(tail) /\ DOMAIN s = 1..(N + Len(tail))
        /\ \A i \in 1..(N + Len(tail)) :
             s[i] = IF i <= N THEN out[i] ELSE tail[i - N]
    BY <2>1, <2>5, ConcatProperties
  <2> HIDE DEF s
  <2>7. ASSUME NEW i \in DOMAIN s
        PROVE  \/ i <= N /\ i \in DOMAIN out /\ s[i] = out[i]
               \/ i > N /\ i - N \in DOMAIN tail /\ s[i] = tail[i - N]
    BY <2>1, <2>5, <2>6
  <2>8. \A i \in DOMAIN out : out[i].price \in Int
    BY <2>1, LevelFields
  <2>9. \A i \in DOMAIN tail : tail[i].price \in Int
    BY <2>5, LevelFields
  <2>10. Priceable(s)
    BY <1>1, <2>4, <2>6, <2>7 DEF Priceable
  <2>11. ASSUME NEW b \in Int, Beyond(side, b, out)
         PROVE  Beyond(side, b, s)
    <3>1. Away(side, b, deepest.price)
      BY <2>1, <2>11 DEF Beyond
    <3>2. \A i \in DOMAIN tail : Away(side, b, tail[i].price)
      <4> HIDE DEF deepest
      <4> QED
        BY <2>2, <2>4, <2>9, <3>1 DEF Beyond, Away
    <3> QED
      BY <2>7, <2>11, <3>2 DEF Beyond
  <2>12. ASSUME Sorted(side, out)
         PROVE  Sorted(side, s)
    <3> SUFFICES ASSUME NEW i \in DOMAIN s, NEW j \in DOMAIN s, i < j
                 PROVE  Away(side, s[i].price, s[j].price)
      BY DEF Sorted
    <3>1. i \in Int /\ j \in Int
      BY <2>6
    <3>2. CASE j <= N
      <4>1. /\ i \in DOMAIN out /\ s[i] = out[i]
            /\ j \in DOMAIN out /\ s[j] = out[j]
        BY <2>1, <2>7, <3>1, <3>2
      <4> QED
        BY <2>12, <4>1 DEF Sorted
    <3>3. CASE i > N
      <4>1. /\ i - N \in DOMAIN tail /\ s[i] = tail[i - N]
            /\ j - N \in DOMAIN tail /\ s[j] = tail[j - N] /\ i - N < j - N
        BY <2>1, <2>7, <3>1, <3>3
      <4> QED
        BY <2>4, <4>1 DEF Sorted
    <3>4. CASE i <= N /\ j > N
      <4>1. /\ i \in DOMAIN out /\ s[i] = out[i]
            /\ j - N \in DOMAIN tail /\ s[j] = tail[j - N]
        BY <2>1, <2>7, <3>1, <3>4
      <4>2. Away(side, out[i].price, deepest.price)
        <5>1. CASE i = N
          BY <2>2, <5>1 DEF Away
        <5>2. CASE i # N
          <6>1. i < N
            BY <2>1, <3>1, <3>4, <5>2
          <6> QED
            BY <2>1, <2>12, <4>1, <6>1 DEF Sorted
        <5> QED
          BY <5>1, <5>2
      <4>3. Away(side, deepest.price, tail[j - N].price)
        BY <2>4, <4>1 DEF Beyond
      <4> HIDE DEF deepest
      <4> QED
        BY <2>2, <2>8, <2>9, <4>1, <4>2, <4>3 DEF Away
    <3> QED
      BY <2>1, <3>1, <3>2, <3>3, <3>4
  <2>13. s # <<>>
    BY <2>1, <2>5, <2>6
  <2> QED
    BY <1>1, <1>2, <1>4, <2>10, <2>11, <2>12, <2>13 DEF s
<1> QED
  BY <1>3, <1>4

\* Where a fraction that is not negative lies when it is rounded half up.
LEMMA HalfUpBounds ==
  ASSUME NEW n \in Nat, NEW d \in Nat \ {0}
  PROVE  /\ HalfUp(n, d) \in Nat
         /\ 2 * d * HalfUp(n, d) <= 2 * n + d
         /\ 2 * n < 2 * d * HalfUp(n, d) + d
<1> DEFINE a == 2 * n + d
           b == 2 * d
<1>1. a \in Nat /\ b \in Nat \ {0}
  OBVIOUS
<1>2. HalfUp(n, d) = a \div b
  BY DEF HalfUp
<1>3. a \div b \in Nat /\ b * (a \div b) <= a /\ a < b * (a \div b) + b
  <2> HIDE DEF a, b
  <2> QED
    BY <1>1, DivBounds
<1> DEFINE h == a \div b
<1>4. h \in Nat /\ b * h <= a /\ a < b * h + b /\ HalfUp(n, d) = h
  BY <1>2, <1>3
<1> HIDE DEF h
<1>5. b * h = 2 * d * h /\ b * h \in Int
  BY <1>4, SMT
<1> QED
  BY <1>4, <1>5

\* A price of n / d that is rounded to the tick: at most half a tick away.
LEMMA TickBounds ==
  ASSUME NEW n \in Nat, NEW d \in Nat \ {0}, NEW tick \in Nat \ {0}
  PROVE  LET t == RoundToTick(n, d, tick) IN
         /\ t \in Nat
         /\ 2 * d * t <= 2 * n + d * tick
         /\ 2 * n <= 2 * d * t + d * tick
<1>1. CASE n = 0
  <2>1. RoundToTick(n, d, tick) = 0
    BY <1>1 DEF RoundToTick
  <2>2. d * tick \in Nat /\ 2 * d * 0 = 0
    BY SMT
  <2> QED
    BY <1>1, <2>1, <2>2
<1>2. CASE n # 0
  <2> DEFINE e == d * tick
             h == HalfUp(n, e)
  <2>1. e \in Nat \ {0}
    BY SMT
  <2>2. RoundToTick(n, d, tick) = h * tick
    BY <1>2 DEF RoundToTick
  <2>3. h \in Nat /\ 2 * e * h <= 2 * n + e /\ 2 * n < 2 * e * h + e
    <3> HIDE DEF e
    <3> QED
      BY <2>1, HalfUpBounds
  <2> HIDE DEF h
  <2>4. 2 * e * h = 2 * d * (h * tick) /\ h * tick \in Nat
    BY <2>3, SMT
  <2> DEFINE x == 2 * d * (h * tick)
  <2>5. x \in Int
    BY <2>4, SMT
  <2> QED
    BY <2>1, <2>2, <2>3, <2>4, <2>5
<1> QED
  BY <1>1, <1>2

\* Usable sides are snapped to prices, the bid to no more than the ask.
LEMMA SnapKeepsOrder ==
  ASSUME NEW bid \in Nat \ {0}, NEW ask \in Nat \ {0}, bid < ask, NEW tick \in Nat
  PROVE  /\ Snap(bid, 1, tick) \in Nat \ {0} /\ Snap(ask, 1, tick) \in Nat \ {0}
         /\ Snap(bid, 1, tick) <= Snap(ask, 1, tick)
<1>1. bid \div 1 = bid /\ ask \div 1 = ask
  OBVIOUS
<1>2. CASE tick = 0
  BY <1>1, <1>2 DEF Snap, RoundToTick
<1>3. CASE tick # 0
  <2> DEFINE h(n) == HalfUp(n, tick)
             x == h(bid)
             y == h(ask)
  <2>1. x \in Nat /\ 2 * tick * x <= 2 * bid + tick /\ 2 * bid < 2 * tick * x + tick
    BY <1>3, HalfUpBounds
  <2>2. y \in Nat /\ 2 * tick * y <= 2 * ask + tick /\ 2 * ask < 2 * tick * y + tick
    BY <1>3, HalfUpBounds
  <2>3. /\ RoundToTick(bid, 1, tick) = x * tick
        /\ RoundToTick(ask, 1, tick) = y * tick
    BY <1>3 DEF RoundToTick
  <2> HIDE DEF x, y
  <2>4. x * tick \in Nat /\ y * tick \in Nat
    BY <2>1, <2>2, SMT
  <2>5. x <= y
    <3>1. SUFFICES ASSUME y + 1 <= x PROVE FALSE
      BY <2>1, <2>2
    <3>2. 2 * tick * (y + 1) <= 2 * tick * x
      BY <2>1, <2>2, <3>1, SMT
    <3>3. 2 * tick * (y + 1) = 2 * tick * y + 2 * tick
      BY <2>2, SMT
    <3>4. 2 * tick * x \in Int /\ 2 * tick * y \in Int
      BY <2>1, <2>2, SMT
    <3> QED
      BY <2>1, <2>2, <3>2, <3>3, <3>4
  <2>6. x * tick <= y * tick
    BY <2>1, <2>2, <2>5, SMT
  <2>7. CASE x = 0 /\ y # 0
    <3>1. y * tick >= tick
      BY <2>2, <2>7, SMT
    <3>2. 2 * bid < tick
      <4>1. 2 * tick * x = 0
        BY <2>7
      <4> QED
        BY <2>1, <4>1
    <3>3. x * tick = 0
      BY <2>7
    <3> QED
      BY <1>1, <1>3, <2>3, <2>4, <3>1, <3>2, <3>3 DEF Snap
  <2>8. CASE x = 0 /\ y = 0
    <3>1. x * tick = 0 /\ y * tick = 0
      BY <2>8
    <3> QED
      BY <1>1, <2>3, <3>1 DEF Snap
  <2>9. CASE x # 0
    <3>1. x * tick > 0
      BY <1>3, <2>1, <2>9, SMT
    <3> QED
      BY <2>3, <2>4, <2>6, <3>1 DEF Snap
  <2> QED
    BY <2>1, <2>2, <2>7, <2>8, <2>9
<1> QED
  BY <1>2, <1>3

\* The default spread has the last price in it, also after it was snapped.
LEMMA SpreadHasLast ==
  ASSUME NEW last \in Nat \ {0}, NEW tick \in Nat, NEW half \in Nat, half >= tick * Scale
  PROVE  /\ Snap(2 * Scale * last - half, 2 * Scale, tick) \in Int
         /\ Snap(2 * Scale * last - half, 2 * Scale, tick) <= last
         /\ Snap(2 * Scale * last + half, 2 * Scale, tick) \in Nat
         /\ Snap(2 * Scale * last + half, 2 * Scale, tick) >= last
<1> DEFINE d == 2 * Scale
           low == 2 * Scale * last - half
           high == 2 * Scale * last + half
<1>1. /\ d \in Nat \ {0} /\ low \in Int /\ high \in Nat \ {0}
      /\ low <= d * last /\ high >= d * last /\ d * last \in Nat
      /\ low = d * last - half /\ high = d * last + half
      /\ d * tick = 2 * (tick * Scale) /\ d * tick \in Nat /\ tick * Scale \in Nat
  <2>1. 2 * Scale * last \in Nat \ {0}
    BY BookConstants, SMT
  <2>2. d * last = 2 * Scale * last /\ d \in Nat \ {0}
    BY BookConstants, SMT
  <2>3. d * tick = 2 * (tick * Scale) /\ tick * Scale \in Nat
    BY BookConstants, SMT
  <2> QED
    BY <2>1, <2>2, <2>3
<1> HIDE DEF d, low, high
<1>2. low \div d \in Int /\ low \div d <= last
  <2>1. low \div d \in Int /\ d * (low \div d) <= low
    BY <1>1, SMT
  <2>2. d * (low \div d) <= d * last
    BY <1>1, <2>1, SMT
  <2> QED
    BY <1>1, <2>1, <2>2, CancelLeq
<1>3. high \div d \in Nat /\ high \div d >= last
  <2>1. high \div d \in Nat /\ high < d * (high \div d) + d
    BY <1>1, DivBounds
  <2> DEFINE k == high \div d
  <2>2. k \in Nat /\ d * last < d * k + d
    BY <1>1, <2>1, SMT
  <2> HIDE DEF k
  <2>3. d * k + d = d * (k + 1)
    BY <1>1, <2>2, SMT
  <2>4. last < k + 1
    BY <1>1, <2>2, <2>3, CancelLess
  <2> QED
    BY <2>2, <2>4 DEF k
<1>4. RoundToTick(low, d, tick) \in Nat /\ RoundToTick(low, d, tick) <= last
  <2>1. CASE tick = 0 \/ low <= 0
    BY <1>1, <2>1 DEF RoundToTick
  <2>2. CASE tick # 0 /\ low > 0
    <3> DEFINE t == RoundToTick(low, d, tick)
    <3>1. t \in Nat /\ 2 * d * t <= 2 * low + d * tick
      <4>1. low \in Nat /\ tick \in Nat \ {0} /\ d \in Nat \ {0}
        BY <1>1, <2>2
      <4> QED
        BY <4>1, TickBounds
    <3> HIDE DEF t
    <3>2. 2 * d * t = 2 * (d * t) /\ d * t \in Nat
      BY <1>1, <3>1, SMT
    <3>3. d * t <= d * last
      BY <1>1, <3>1, <3>2
    <3>4. t <= last
      BY <1>1, <3>1, <3>3, CancelLeq
    <3> QED
      BY <3>1, <3>4 DEF t
  <2> QED
    BY <1>1, <2>1, <2>2
<1>5. /\ RoundToTick(high, d, tick) \in Nat
      /\ RoundToTick(high, d, tick) > 0 => RoundToTick(high, d, tick) >= last
  <2>1. CASE tick = 0
    BY <2>1 DEF RoundToTick
  <2>2. CASE tick # 0
    <3> DEFINE t == RoundToTick(high, d, tick)
    <3>1. t \in Nat /\ 2 * high <= 2 * d * t + d * tick
      BY <1>1, <2>2, TickBounds
    <3> HIDE DEF t
    <3>2. 2 * d * t = 2 * (d * t) /\ d * t \in Nat
      BY <1>1, <3>1, SMT
    <3>3. d * last <= d * t
      BY <1>1, <3>1, <3>2
    <3>4. last <= t
      BY <1>1, <3>1, <3>3, CancelLeq
    <3> QED
      BY <3>1, <3>4 DEF t
  <2> QED
    BY <2>1, <2>2
<1>6. /\ Snap(low, d, tick) \in Int /\ Snap(low, d, tick) <= last
      /\ Snap(high, d, tick) \in Nat /\ Snap(high, d, tick) >= last
  BY <1>2, <1>3, <1>4, <1>5 DEF Snap
<1> QED
  BY <1>6 DEF d, low, high

-----------------------------------------------------------------------------
(* The walk *)

\* The loop of the walk: what is left never grows, and what is taken of a
\* level is gone.
LEMMA LeftLoop ==
  ASSUME NEW s \in Seq(Level), NEW q \in Nat
  PROVE  LET left == Left(s, q) IN
         /\ left[0] = q
         /\ \A n \in 0..Len(s) : left[n] \in Nat
         /\ \A n \in 1..Len(s) :
              /\ Take(s, q)[n] = Least(left[n - 1], s[n].size)
              /\ left[n] = left[n - 1] - Take(s, q)[n]
<1> DEFINE N == Len(s)
           Is(f) == f = [n \in 0..N |-> IF n = 0 THEN q
                                        ELSE f[n - 1] - Taken(f[n - 1], s[n])]
           step == [n \in 1..N |-> [x \in Nat |-> x - Taken(x, s[n])]]
<1>1. N \in Nat /\ DOMAIN s = 1..N
  OBVIOUS
<1>2. ASSUME NEW n \in 1..N, NEW x \in Nat
      PROVE  x - Taken(x, s[n]) \in Nat
  <2>1. s[n].size \in Nat
    BY <1>1, LevelFields
  <2> QED
    BY <2>1 DEF Taken, Least
<1>3. step \in [1..N -> [Nat -> Nat]]
  BY <1>2
<1>4. HasLoop(N, Nat, q, step)
  <2> HIDE DEF step, N
  <2> QED
    BY <1>1, <1>3, LoopEnds
<1>5. PICK f \in [0..N -> Nat] :
        f[0] = q /\ \A n \in 1..N : f[n] = step[n][f[n - 1]]
  BY <1>4 DEF HasLoop
<1>6. ASSUME NEW n \in 1..N
      PROVE  f[n] = f[n - 1] - Taken(f[n - 1], s[n])
  <2>1. n - 1 \in 0..N
    BY <1>1
  <2>2. f[n - 1] \in Nat
    BY <2>1
  <2>3. step[n][f[n - 1]] = f[n - 1] - Taken(f[n - 1], s[n])
    BY <2>2
  <2> HIDE DEF step
  <2> QED
    BY <1>5, <2>3
<1>7. Is(f)
  <2>1. \A n \in 0..N : n # 0 => n \in 1..N
    BY <1>1
  <2>2. \A n \in 0..N : f[n] = IF n = 0 THEN q ELSE f[n - 1] - Taken(f[n - 1], s[n])
    BY <1>5, <1>6, <2>1, Zenon
  <2>3. f = [n \in 0..N |-> f[n]]
    OBVIOUS
  <2> QED
    BY <2>2, <2>3
<1> DEFINE c == CHOOSE g : Is(g)
<1>8. Is(c)
  <2> HIDE DEF Is
  <2> QED
    BY <1>7
<1>9. c = Left(s, q)
  BY DEF Left
<1> HIDE DEF c
<1>10. c[0] = q
  BY <1>1, <1>8
<1>11. \A n \in 1..N : n \in 0..N /\ n # 0 /\ c[n] = c[n - 1] - Taken(c[n - 1], s[n])
  <2>1. \A n \in 1..N : n \in 0..N /\ n # 0
    BY <1>1
  <2> QED
    BY <1>8, <2>1
<1> DEFINE P == {n \in 0..N : c[n] \in Nat}
<1>12. 0..N \subseteq P
  <2>1. 0 \in P
    BY <1>1, <1>10
  <2>2. ASSUME NEW n \in 1..N, n - 1 \in P
        PROVE  n \in P
    BY <1>2, <1>11, <2>2
  <2> HIDE DEF P
  <2> QED
    BY <1>1, <2>1, <2>2, Rounds
<1>13. \A n \in 1..N : Take(s, q)[n] = Taken(c[n - 1], s[n])
  BY <1>1, <1>9 DEF Take
<1> QED
  BY <1>9, <1>10, <1>11, <1>12, <1>13 DEF Taken

\* How an order of q shares walks through the levels.
LEMMA TakeFacts ==
  ASSUME NEW s \in Seq(Level), NEW q \in Nat
  PROVE  LET left == Left(s, q)
             take == Take(s, q)
         IN  /\ take \in [DOMAIN s -> 0..q]
             /\ \A i \in DOMAIN s : take[i] <= s[i].size
             /\ left[Len(s)] \in Nat
             /\ SumFunction(take) = q - left[Len(s)]
             /\ q > 0 /\ s # <<>> => SumFunction(take) > 0
<1> DEFINE N == Len(s)
           left == Left(s, q)
           take == Take(s, q)
           UpTo(n) == SumFunctionOnSet(take, 1..n)
<1>1. N \in Nat /\ DOMAIN s = 1..N /\ DOMAIN take = 1..N
  BY DEF Take
<1>2. /\ left[0] = q
      /\ \A n \in 0..N : left[n] \in Nat
      /\ \A n \in 1..N : /\ take[n] = Least(left[n - 1], s[n].size)
                         /\ left[n] = left[n - 1] - take[n]
  BY LeftLoop
<1>3. \A n \in 1..N : n - 1 \in 0..N /\ n \in 0..N
  BY <1>1
<1>4. \A n \in 1..N : s[n].size \in Nat \ {0}
  BY <1>1, LevelFields
<1>5. take = [n \in 1..N |-> take[n]]
  BY <1>1 DEF Take
<1> HIDE DEF take, left
<1>6. \A n \in 1..N : take[n] \in Nat /\ take[n] <= left[n - 1] /\ take[n] <= s[n].size
  <2> SUFFICES ASSUME NEW n \in 1..N
               PROVE  take[n] \in Nat /\ take[n] <= left[n - 1] /\ take[n] <= s[n].size
    OBVIOUS
  <2>1. left[n - 1] \in Nat /\ s[n].size \in Nat /\ take[n] = Least(left[n - 1], s[n].size)
    BY <1>2, <1>3, <1>4
  <2> QED
    BY <2>1 DEF Least
<1> DEFINE P == {n \in 0..N : left[n] <= q}
<1>7. 0..N \subseteq P
  <2>1. 0 \in P
    BY <1>1, <1>2
  <2>2. ASSUME NEW n \in 1..N, n - 1 \in P
        PROVE  n \in P
    BY <1>2, <1>3, <1>6, <2>2
  <2> HIDE DEF P
  <2> QED
    BY <1>1, <2>1, <2>2, Rounds
<1>8. \A n \in 1..N : take[n] \in 0..q
  <2> SUFFICES ASSUME NEW n \in 1..N PROVE take[n] \in 0..q
    OBVIOUS
  <2>1. left[n - 1] \in Nat /\ left[n - 1] <= q
    BY <1>2, <1>3, <1>7
  <2> QED
    BY <1>6, <2>1
<1> DEFINE R == {n \in 0..N : UpTo(n) = q - left[n]}
<1>9. 0..N \subseteq R
  <2>1. 0 \in R
    <3>1. 1..0 = {} /\ SumFunctionOnSet(take, {}) = 0
      BY SumEmpty
    <3>2. UpTo(0) = 0
      BY <3>1
    <3> HIDE DEF UpTo
    <3> QED
      BY <1>1, <1>2, <3>2
  <2>2. ASSUME NEW n \in 1..N, n - 1 \in R
        PROVE  n \in R
    <3>1. n \in Nat \ {0} /\ \A x \in 1..n : x \in 1..N
      BY <1>1
    <3>2. \A x \in 1..n : take[x] \in Int
      BY <1>6, <3>1
    <3>3. UpTo(n) = UpTo(n - 1) + take[n]
      BY <3>1, <3>2, SumUpTo
    <3> HIDE DEF UpTo
    <3> QED
      BY <1>2, <1>3, <1>6, <2>2, <3>3
  <2> HIDE DEF R
  <2> QED
    BY <1>1, <2>1, <2>2, Rounds
<1>10. SumFunction(take) = q - left[N] /\ left[N] \in Nat
  <2>1. N \in R /\ N \in 0..N
    BY <1>1, <1>9
  <2>2. SumFunction(take) = UpTo(N)
    BY <1>1 DEF SumFunction
  <2> QED
    BY <1>2, <2>1, <2>2
<1>11. q > 0 /\ s # <<>> => SumFunction(take) > 0
  <2> SUFFICES ASSUME q > 0, s # <<>> PROVE SumFunction(take) > 0
    OBVIOUS
  <2>1. 1 \in 1..N
    BY <1>1
  <2>2. take[1] > 0
    BY <1>2, <1>4, <2>1 DEF Least
  <2>3. UpTo(1) = take[1]
    <3>1. 1..1 = {1} /\ take[1] \in Int
      BY <1>6, <2>1
    <3> QED
      BY <3>1, SumOfOne
  <2>4. IsFiniteSet(1..N) /\ 1..1 \in SUBSET (1..N)
    BY <1>1, <2>1, FS_Interval
  <2>5. UpTo(1) <= UpTo(N)
    BY <1>6, <2>4, SumGrows
  <2>6. SumFunction(take) = UpTo(N)
    BY <1>1 DEF SumFunction
  <2>7. UpTo(N) \in Int
    BY <1>2, <1>10, <2>6
  <2> HIDE DEF UpTo
  <2> QED
    BY <1>6, <2>1, <2>2, <2>3, <2>5, <2>6, <2>7
<1> QED
  BY <1>1, <1>5, <1>6, <1>8, <1>10, <1>11 DEF take, left

\* The money for shares that are taken from levels none of which is better
\* than b.
LEMMA CostBounds ==
  ASSUME NEW s \in Seq(Level), NEW take \in [DOMAIN s -> Nat]
  PROVE  /\ Cost(s, take) \in Int /\ SumFunction(take) \in Nat
         /\ \A side \in Sides, b \in Int : Beyond(side, b, s) =>
              Away(side, b * SumFunction(take), Cost(s, take))
<1> DEFINE S == DOMAIN s
           c == [i \in S |-> s[i].price * take[i]]
<1>1. IsFiniteSet(S)
  BY FS_Interval
<1>2. \A i \in S : s[i].price \in Int /\ take[i] \in Nat
  BY LevelFields
<1>3. \A i \in S : c[i] = s[i].price * take[i] /\ c[i] \in Int
  <2>1. \A x \in Int, y \in Nat : x * y \in Int
    BY SMT
  <2> QED
    BY <1>2, <2>1
<1>4. /\ Cost(s, take) = SumFunctionOnSet(c, S)
      /\ SumFunction(take) = SumFunctionOnSet(take, S)
  BY DEF Cost, SumFunction
<1> HIDE DEF c, S
<1>5. SumFunctionOnSet(c, S) \in Int /\ SumFunctionOnSet(take, S) \in Nat
  BY <1>1, <1>2, <1>3, SumInt, SumNat
<1>6. ASSUME NEW side \in Sides, NEW b \in Int, Beyond(side, b, s)
      PROVE  Away(side, b * SumFunction(take), Cost(s, take))
  <2> DEFINE zero == [i \in S |-> 0]
             d == [i \in S |-> b * take[i] + 0]
  <2>1. \A i \in S : zero[i] = 0 /\ d[i] = b * take[i] + zero[i]
    OBVIOUS
  <2>2. \A i \in S : d[i] \in Int /\ d[i] = b * take[i]
    <3>1. \A y \in Nat : b * y \in Int /\ b * y + 0 = b * y
      BY SMT
    <3> QED
      BY <1>2, <3>1
  <2> HIDE DEF zero, d
  <2>3. SumFunctionOnSet(zero, S) = 0
    BY <1>1, <2>1, SumOfZeros
  <2>4. SumFunctionOnSet(d, S)
          = b * SumFunctionOnSet(take, S) + SumFunctionOnSet(zero, S)
    <3>1. \A i \in S : take[i] \in Int /\ zero[i] \in Int /\ d[i] = b * take[i] + zero[i]
      BY <1>2, <2>1
    <3> QED
      BY <1>1, <3>1, SumLinear
  <2>5. ASSUME NEW i \in S
        PROVE  Away(side, d[i], c[i])
    <3>1. Away(side, b, s[i].price)
      BY <1>6 DEF Beyond, S
    <3> DEFINE p == s[i].price
               y == take[i]
    <3>2. p \in Int /\ y \in Nat /\ Away(side, b, p) /\ d[i] = b * y /\ c[i] = p * y
      BY <1>2, <1>3, <2>2, <3>1
    <3> HIDE DEF p, y
    <3>3. Away(side, b * y, p * y)
      BY <3>2, SMT DEF Away
    <3> QED
      BY <3>2, <3>3
  <2>6. Away(side, SumFunctionOnSet(d, S), SumFunctionOnSet(c, S))
    <3>1. CASE side = "buy"
      <4>1. \A i \in S : d[i] \in Int /\ c[i] \in Int /\ d[i] <= c[i]
        BY <1>3, <2>2, <2>5, <3>1 DEF Away
      <4> QED
        BY <1>1, <3>1, <4>1, SumLeq DEF Away
    <3>2. CASE side = "sell"
      <4>1. \A i \in S : c[i] \in Int /\ d[i] \in Int /\ c[i] <= d[i]
        BY <1>3, <2>2, <2>5, <3>2 DEF Away
      <4>2. SumFunctionOnSet(c, S) <= SumFunctionOnSet(d, S)
        BY <1>1, <4>1, SumLeq
      <4>3. SumFunctionOnSet(d, S) \in Int
        BY <1>1, <2>2, SumInt
      <4> QED
        BY <1>5, <3>2, <4>2, <4>3 DEF Away
    <3> QED
      BY <3>1, <3>2 DEF Sides
  <2>7. b * SumFunctionOnSet(take, S) + 0 = b * SumFunctionOnSet(take, S)
    <3> DEFINE y == SumFunctionOnSet(take, S)
    <3>1. y \in Nat
      BY <1>5
    <3> HIDE DEF y
    <3>2. b * y \in Int
      BY <3>1, SMT
    <3>3. b * y + 0 = b * y
      BY <3>2
    <3> QED
      BY <3>3 DEF y
  <2> QED
    BY <1>4, <2>3, <2>4, <2>6, <2>7, Zenon
<1> QED
  BY <1>4, <1>5, <1>6

\* Whoever takes more of the better of two prices does not lose by it.
LEMMA BetterFirst ==
  ASSUME NEW side \in Sides, NEW p \in Int, NEW limit \in Int, NEW t \in Nat, NEW f \in Nat,
         \/ Away(side, p, limit) /\ f <= t
         \/ Away(side, limit, p) /\ t <= f
  PROVE  Away(side, limit * f + p * t, limit * t + p * f)
<1> DEFINE x == limit - p
           y == t - f
<1>1. x * y \in Int /\ (IF side = "buy" THEN x * y >= 0 ELSE x * y <= 0)
  <2>1. x \in Int /\ y \in Int
    OBVIOUS
  <2>2. IF side = "buy" THEN (x >= 0 /\ y >= 0) \/ (x <= 0 /\ y <= 0)
                        ELSE (x <= 0 /\ y >= 0) \/ (x >= 0 /\ y <= 0)
    BY DEF Away
  <2> HIDE DEF x, y
  <2> QED
    BY <2>1, <2>2, SMT
<1>2. x * y = limit * t + p * f - (limit * f + p * t)
  BY SMT
<1>3. limit * t + p * f \in Int /\ limit * f + p * t \in Int
  BY SMT
<1> DEFINE l == limit * f + p * t
           r == limit * t + p * f
           z == x * y
<1>4. l \in Int /\ r \in Int /\ z = r - l /\ (IF side = "buy" THEN z >= 0 ELSE z <= 0)
  BY <1>1, <1>2, <1>3
<1> HIDE DEF l, r, z
<1>5. Away(side, l, r)
  BY <1>4 DEF Away
<1> QED
  BY <1>5 DEF l, r

\* No way to take the shares from sorted levels is better than the walk.
LEMMA WalkBeats ==
  ASSUME NEW side \in Sides, NEW s \in Seq(Level), Sorted(side, s), NEW q \in Nat \ {0},
         NEW f \in [DOMAIN s -> Nat], \A i \in DOMAIN s : f[i] <= s[i].size,
         SumFunction(f) = q
  PROVE  /\ SumFunction(Take(s, q)) = q
         /\ Away(side, Cost(s, Take(s, q)), Cost(s, f))
<1> DEFINE N == Len(s)
           S == DOMAIN s
           left == Left(s, q)
           take == Take(s, q)
<1>1. N \in Nat /\ S = 1..N /\ IsFiniteSet(S)
  <2>1. N \in Nat /\ S = 1..N
    OBVIOUS
  <2> HIDE DEF N, S
  <2> QED
    BY <2>1, FS_Interval
<1>2. /\ left[0] = q
      /\ \A n \in 0..N : left[n] \in Nat
      /\ \A n \in 1..N : /\ take[n] = Least(left[n - 1], s[n].size)
                         /\ left[n] = left[n - 1] - take[n]
  BY LeftLoop
<1>3. /\ take \in [S -> Nat] /\ \A i \in S : take[i] <= s[i].size
      /\ SumFunction(take) = q - left[N]
  <2>1. take \in [S -> 0..q]
    BY TakeFacts
  <2> QED
    BY <2>1, TakeFacts
<1>4. \A n \in 1..N : n - 1 \in 0..N /\ n \in 0..N /\ n \in S
  BY <1>1
<1>5. \A i \in S : s[i].price \in Int /\ s[i].size \in Nat /\ f[i] \in Nat /\ take[i] \in Nat
  BY <1>3, LevelFields
<1> HIDE DEF take, left
<1>6. ASSUME NEW k \in 0..N, left[k] = 0, NEW n \in 0..N, n >= k
      PROVE  left[n] = 0
  <2> DEFINE P == {m \in 0..N : m >= k => left[m] = 0}
  <2>1. 0 \in P
    <3>1. 0 >= k => k = 0
      OBVIOUS
    <3> QED
      BY <1>1, <1>6, <3>1
  <2>2. ASSUME NEW m \in 1..N, m - 1 \in P
        PROVE  m \in P
    <3>1. SUFFICES ASSUME m >= k PROVE left[m] = 0
      BY <1>4
    <3>2. CASE m = k
      BY <1>6, <3>2
    <3>3. CASE m # k
      <4>1. left[m - 1] = 0
        BY <2>2, <3>1, <3>3
      <4>2. left[m] \in Nat /\ take[m] \in Nat /\ left[m] = left[m - 1] - take[m]
        BY <1>2, <1>4, <1>5
      <4> QED
        BY <4>1, <4>2
    <3> QED
      BY <3>2, <3>3
  <2>3. 0..N \subseteq P
    <3> HIDE DEF P
    <3> QED
      BY <1>1, <2>1, <2>2, Rounds
  <2>4. n \in P
    BY <1>6, <2>3
  <2> QED
    BY <1>6, <2>4
<1>7. ASSUME NEW n \in 1..N, left[n] # 0
      PROVE  take[n] = s[n].size
  <2>1. left[n - 1] \in Nat /\ s[n].size \in Nat /\ left[n] \in Nat
    BY <1>2, <1>4, <1>5
  <2> QED
    BY <1>2, <1>7, <2>1 DEF Least
<1>8. left[N] = 0
  <2> SUFFICES ASSUME left[N] # 0 PROVE FALSE
    OBVIOUS
  <2>1. \A n \in 1..N : left[n] # 0
    BY <1>1, <1>4, <1>6
  <2>2. \A i \in S : f[i] \in Int /\ take[i] \in Int /\ f[i] <= take[i]
    BY <1>1, <1>5, <1>7, <2>1
  <2>3. SumFunctionOnSet(f, S) <= SumFunctionOnSet(take, S)
    BY <1>1, <2>2, SumLeq
  <2>4. SumFunction(f) = SumFunctionOnSet(f, S) /\ SumFunction(take) = SumFunctionOnSet(take, S)
    <3>1. DOMAIN f = S /\ DOMAIN take = S
      BY <1>3
    <3> QED
      BY <3>1 DEF SumFunction
  <2>5. N \in 0..N /\ left[N] \in Nat
    BY <1>1, <1>2
  <2> QED
    BY <1>3, <2>3, <2>4, <2>5
<1> DEFINE K == {n \in 0..N : left[n] = 0}
<1>9. PICK k \in K : \A n \in K : k <= n
  <2>1. K \in SUBSET Nat /\ N \in K
    BY <1>1, <1>8
  <2> HIDE DEF K
  <2> QED
    BY <2>1, LeastNat
<1>10. k \in 1..N /\ k \in S /\ left[k] = 0
  <2>1. k \in 0..N /\ left[k] = 0 /\ k # 0
    BY <1>2, <1>9
  <2> QED
    BY <1>1, <2>1
<1> DEFINE limit == s[k].price
<1>11. ASSUME NEW i \in S
       PROVE  Away(side, limit * f[i] + s[i].price * take[i],
                         limit * take[i] + s[i].price * f[i])
  <2>1. /\ limit \in Int /\ s[i].price \in Int /\ f[i] \in Nat /\ take[i] \in Nat
        /\ f[i] <= s[i].size /\ i \in 1..N
    BY <1>1, <1>5, <1>10
  <2>2. CASE i < k
    <3>1. i \in 0..N /\ i \notin K
      BY <1>1, <1>9, <1>10, <2>1, <2>2
    <3>2. take[i] = s[i].size
      BY <1>7, <2>1, <3>1
    <3>3. Away(side, s[i].price, limit)
      BY <1>10, <2>2 DEF Sorted
    <3> HIDE DEF limit
    <3> QED
      BY <2>1, <3>2, <3>3, BetterFirst
  <2>3. CASE i = k
    <3>1. Away(side, limit, s[i].price)  /\ Away(side, s[i].price, limit)
      BY <2>1, <2>3 DEF Away
    <3>2. f[i] <= take[i] \/ take[i] <= f[i]
      BY <2>1
    <3> HIDE DEF limit
    <3> QED
      BY <2>1, <3>1, <3>2, BetterFirst
  <2>4. CASE i > k
    <3>1. left[i - 1] = 0 /\ left[i] = 0
      <4>1. i - 1 \in 0..N /\ i \in 0..N /\ i - 1 >= k /\ k \in 0..N
        BY <1>1, <1>10, <2>1, <2>4
      <4> QED
        BY <1>6, <1>10, <2>4, <4>1
    <3>2. take[i] = 0
      BY <1>2, <2>1, <3>1
    <3>3. Away(side, limit, s[i].price)
      BY <1>10, <2>4 DEF Sorted
    <3>4. take[i] <= f[i]
      BY <2>1, <3>2
    <3> HIDE DEF limit
    <3> QED
      BY <2>1, <3>3, <3>4, BetterFirst
  <2> QED
    BY <1>1, <1>10, <2>1, <2>2, <2>3, <2>4
<1> DEFINE a == [i \in S |-> s[i].price * take[i]]
           b == [i \in S |-> s[i].price * f[i]]
           x == [i \in S |-> limit * f[i] + a[i]]
           y == [i \in S |-> limit * take[i] + b[i]]
<1>12. limit \in Int
  BY <1>5, <1>10
<1> HIDE DEF limit
<1>13. \A i \in S : /\ a[i] = s[i].price * take[i] /\ a[i] \in Int
                    /\ b[i] = s[i].price * f[i] /\ b[i] \in Int
  <2>1. \A m \in Int, n \in Nat : m * n \in Int
    BY SMT
  <2> QED
    BY <1>5, <2>1
<1>14. Cost(s, take) = SumFunctionOnSet(a, S) /\ Cost(s, f) = SumFunctionOnSet(b, S)
  BY DEF Cost, SumFunction
<1> HIDE DEF a, b
<1>15. \A i \in S : /\ x[i] = limit * f[i] + a[i] /\ x[i] \in Int
                    /\ y[i] = limit * take[i] + b[i] /\ y[i] \in Int
  <2> SUFFICES ASSUME NEW i \in S
               PROVE  /\ x[i] = limit * f[i] + a[i] /\ x[i] \in Int
                      /\ y[i] = limit * take[i] + b[i] /\ y[i] \in Int
    OBVIOUS
  <2>1. \A n \in Nat : limit * n \in Int
    BY <1>12, SMT
  <2>2. limit * f[i] \in Int /\ limit * take[i] \in Int /\ a[i] \in Int /\ b[i] \in Int
    BY <1>5, <1>13, <2>1
  <2>3. x[i] = limit * f[i] + a[i] /\ y[i] = limit * take[i] + b[i]
    OBVIOUS
  <2> QED
    BY <2>2, <2>3
<1> HIDE DEF x, y
<1>16. /\ SumFunctionOnSet(f, S) = q /\ SumFunctionOnSet(take, S) = q
       /\ SumFunction(take) = q
  <2>1. DOMAIN f = S /\ DOMAIN take = S
    BY <1>3
  <2>2. SumFunction(take) = q
    BY <1>3, <1>8
  <2> QED
    BY <2>1, <2>2 DEF SumFunction
<1>17. /\ SumFunctionOnSet(x, S) = limit * q + SumFunctionOnSet(a, S)
       /\ SumFunctionOnSet(y, S) = limit * q + SumFunctionOnSet(b, S)
  <2>1. \A i \in S : f[i] \in Int /\ a[i] \in Int /\ x[i] = limit * f[i] + a[i]
    BY <1>5, <1>13, <1>15
  <2>2. \A i \in S : take[i] \in Int /\ b[i] \in Int /\ y[i] = limit * take[i] + b[i]
    BY <1>5, <1>13, <1>15
  <2>3. IsFiniteSet(S)
    BY <1>1
  <2> HIDE DEF S
  <2>4. SumFunctionOnSet(x, S) = limit * SumFunctionOnSet(f, S) + SumFunctionOnSet(a, S)
    BY <1>12, <2>1, <2>3, SumLinear
  <2>5. SumFunctionOnSet(y, S) = limit * SumFunctionOnSet(take, S) + SumFunctionOnSet(b, S)
    BY <1>12, <2>2, <2>3, SumLinear
  <2> QED
    BY <1>16, <2>4, <2>5
<1>18. Away(side, SumFunctionOnSet(x, S), SumFunctionOnSet(y, S))
  <2>1. \A i \in S : Away(side, x[i], y[i])
    BY <1>11, <1>13, <1>15
  <2>2. CASE side = "buy"
    <3>1. \A i \in S : x[i] \in Int /\ y[i] \in Int /\ x[i] <= y[i]
      BY <1>15, <2>1, <2>2 DEF Away
    <3> QED
      BY <1>1, <2>2, <3>1, SumLeq DEF Away
  <2>3. CASE side = "sell"
    <3>1. \A i \in S : y[i] \in Int /\ x[i] \in Int /\ y[i] <= x[i]
      BY <1>15, <2>1, <2>3 DEF Away
    <3>2. SumFunctionOnSet(y, S) <= SumFunctionOnSet(x, S)
      BY <1>1, <3>1, SumLeq
    <3>3. SumFunctionOnSet(x, S) \in Int /\ SumFunctionOnSet(y, S) \in Int
      BY <1>1, <1>15, SumInt
    <3> QED
      BY <2>3, <3>2, <3>3 DEF Away
  <2> QED
    BY <2>2, <2>3 DEF Sides
<1>19. /\ SumFunctionOnSet(a, S) \in Int /\ SumFunctionOnSet(b, S) \in Int
       /\ limit * q \in Int
  <2>1. limit * q \in Int
    BY <1>12, SMT
  <2> QED
    BY <1>1, <1>13, <2>1, SumInt
<1> DEFINE lq == limit * q
<1>20. /\ lq \in Int
       /\ Away(side, lq + SumFunctionOnSet(a, S), lq + SumFunctionOnSet(b, S))
  BY <1>17, <1>18, <1>19
<1> HIDE DEF lq
<1>21. Away(side, SumFunctionOnSet(a, S), SumFunctionOnSet(b, S))
  BY <1>19, <1>20 DEF Away
<1> QED
  BY <1>14, <1>16, <1>21 DEF take

-----------------------------------------------------------------------------
(* The book of a quote *)

\* No levels are left of none.
LEMMA EmptyLadder ==
  ASSUME NEW price, NEW step, NEW top
  PROVE  Ladder(price, step, top, 0, 0) = <<>>
<1> DEFINE raw == [i \in 1..0 |-> [price |-> price + (i - 1 + 0) * step,
                                   size |-> SizeAt(top, i - 1 + 0)]]
<1>1. raw = <<>>
  OBVIOUS
<1>2. <<>> \in Seq(Level) /\ Len(<<>>) = 0
  OBVIOUS
<1>3. PositiveRound(<<>>, Positive(<<>>), 0)
  BY <1>2, PositiveIs
<1>4. Positive(<<>>) = <<>>
  <2> DEFINE s == Positive(<<>>)
  <2>1. s \in Seq(Level) /\ \A k \in 1..Len(s) : \E i \in 1..0 : s[k] = <<>>[i]
    BY <1>3 DEF PositiveRound
  <2> HIDE DEF s
  <2>2. Len(s) \in Nat /\ ~\E k : k \in 1..Len(s)
    BY <2>1
  <2>3. Len(s) = 0
    BY <2>2
  <2> QED
    BY <2>1, <2>3 DEF s
<1> HIDE DEF raw
<1>5. Ladder(price, step, top, 0, 0) = Positive(raw)
  BY DEF Ladder, raw
<1> QED
  BY <1>1, <1>4, <1>5

\* What a book promises: levels at positive prices on both sides; the better
\* ones first if real depth comes so; and, if real depth is not crossed, a
\* price between the sides, the last one when only one of them is empty.
LEMMA BookFacts ==
  ASSUME NEW m \in Quotes, m.bid # NoValue, m.ask # NoValue,
         NEW last \in Lasts, NEW tick \in Ticks
  PROVE  LET levels(side) == SideOf(side, BookOf(last, m, tick)) IN
         /\ \A side \in Sides : Priceable(levels(side))
         /\ BestFirst => \A side \in Sides : Sorted(side, levels(side))
         /\ Uncrossed =>
              \E b \in Int :
                /\ \A side \in Sides : Beyond(side, b, levels(side))
                /\ b = last \/ (levels("buy") = <<>> <=> levels("sell") = <<>>)
<1> DEFINE book == BookOf(last, m, tick)
<1>1. SideOf("buy", book) = book.asks /\ SideOf("sell", book) = book.bids
  BY DEF SideOf
<1>2. /\ tick \in Nat /\ -tick \in Int /\ last \in Nat \ {0} /\ Levels \in Nat
      /\ Away("buy", 0, tick) /\ Away("sell", 0, -tick)
  BY BookConstants DEF Away
<1>3. /\ m.bids \in Seq(Level) /\ m.asks \in Seq(Level)
      /\ m.bid \in Int /\ m.ask \in Int /\ m.volume \in Int \cup {NoValue}
  BY BookConstants
<1>4. "buy" \in Sides /\ "sell" \in Sides /\ \A side \in Sides : side \in {"buy", "sell"}
  BY DEF Sides
<1> HIDE DEF book
<1>5. SUFFICES /\ Priceable(book.bids) /\ Priceable(book.asks)
               /\ BestFirst => Sorted("sell", book.bids) /\ Sorted("buy", book.asks)
               /\ Uncrossed =>
                    \E b \in Int :
                      /\ Beyond("sell", b, book.bids) /\ Beyond("buy", b, book.asks)
                      /\ b = last \/ (book.asks = <<>> <=> book.bids = <<>>)
  <2>1. \A side \in Sides : side = "buy" \/ side = "sell"
    BY <1>4
  <2> QED
    BY <1>1, <1>5, <2>1 DEF book
<1>6. CASE m.bids # <<>> /\ m.asks # <<>>
  <2>1. book.bids = Extend(m.bids, -tick) /\ book.asks = Extend(m.asks, tick)
    BY <1>6 DEF book, BookOf, BookFromLevels
  <2>2. /\ Priceable(book.bids)
        /\ Sorted("sell", m.bids) => Sorted("sell", book.bids)
        /\ \A b \in Int : Beyond("sell", b, m.bids) => Beyond("sell", b, book.bids)
        /\ (\E i \in DOMAIN m.bids : m.bids[i].price > 0) => book.bids # <<>>
    BY <1>2, <1>3, <1>4, <2>1, ExtendFacts
  <2>3. /\ Priceable(book.asks)
        /\ Sorted("buy", m.asks) => Sorted("buy", book.asks)
        /\ \A b \in Int : Beyond("buy", b, m.asks) => Beyond("buy", b, book.asks)
        /\ (\E i \in DOMAIN m.asks : m.asks[i].price > 0) => book.asks # <<>>
    BY <1>2, <1>3, <1>4, <2>1, ExtendFacts
  <2>4. ASSUME BestFirst
        PROVE  Sorted("sell", m.bids) /\ Sorted("buy", m.asks)
    <3>1. \A i, j \in DOMAIN m.bids : i < j => i <= j
      BY <1>3
    <3>2. \A i, j \in DOMAIN m.asks : i < j => i <= j
      BY <1>3
    <3> QED
      BY <2>4, <3>1, <3>2 DEF BestFirst, Sorted, Away
  <2>5. ASSUME Uncrossed
        PROVE  \E b \in Int :
                 /\ Beyond("sell", b, book.bids) /\ Beyond("buy", b, book.asks)
                 /\ book.asks # <<>> /\ book.bids # <<>>
    <3>1. /\ \A i \in DOMAIN m.bids, j \in DOMAIN m.asks :
               m.bids[i].price <= m.asks[j].price
          /\ \E i \in DOMAIN m.bids : m.bids[i].price > 0
      BY <1>6, <2>5 DEF Uncrossed
    <3>2. PICK i \in DOMAIN m.bids : m.bids[i].price > 0
      BY <3>1
    <3> DEFINE prices == {m.asks[j].price : j \in DOMAIN m.asks}
    <3>3. \A j \in DOMAIN m.asks : m.asks[j].price \in Nat /\ m.asks[j].price > 0
      <4> SUFFICES ASSUME NEW j \in DOMAIN m.asks
                   PROVE  m.asks[j].price \in Nat /\ m.asks[j].price > 0
        OBVIOUS
      <4>1. m.bids[i].price \in Int /\ m.asks[j].price \in Int
        BY <1>3, LevelFields
      <4> QED
        BY <3>1, <3>2, <4>1
    <3>4. 1 \in DOMAIN m.asks
      BY <1>3, <1>6
    <3>5. PICK b \in prices : \A n \in prices : b <= n
      <4>1. prices \in SUBSET Nat /\ prices # {}
        BY <3>3, <3>4
      <4> HIDE DEF prices
      <4> QED
        BY <4>1, LeastNat
    <3>6. b \in Int
      BY <3>3
    <3>7. Beyond("buy", b, m.asks)
      BY <3>5 DEF Beyond, Away
    <3>8. Beyond("sell", b, m.bids)
      <4> SUFFICES ASSUME NEW k \in DOMAIN m.bids
                   PROVE  b >= m.bids[k].price
        BY DEF Beyond, Away
      <4>1. PICK j \in DOMAIN m.asks : b = m.asks[j].price
        OBVIOUS
      <4>2. m.bids[k].price \in Int /\ m.bids[k].price <= b
        BY <1>3, <3>1, <4>1, LevelFields
      <4> QED
        BY <3>6, <4>2
    <3> QED
      BY <2>2, <2>3, <3>2, <3>3, <3>4, <3>6, <3>7, <3>8
  <2> QED
    BY <2>2, <2>3, <2>4, <2>5
<1>7. CASE ~(m.bids # <<>> /\ m.asks # <<>>)
  <2> DEFINE adv == IF m.volume # NoValue /\ m.volume > 0 THEN m.volume ELSE DefaultAdv
             unusable == m.bid >= m.ask \/ m.bid <= 0
             half == Most(last * SpreadBps, tick * Scale)
             bid == IF unusable THEN Snap(2 * Scale * last - half, 2 * Scale, tick)
                                ELSE Snap(m.bid, 1, tick)
             ask == IF unusable THEN Snap(2 * Scale * last + half, 2 * Scale, tick)
                                ELSE Snap(m.ask, 1, tick)
             top == Most(1, HalfEven(adv * DepthPct, Scale))
  <2>1. /\ book.bids = Ladder(bid, -tick, top, 0, Levels)
        /\ book.asks = Ladder(ask, tick, top, 0, Levels)
    BY <1>7 DEF book, BookOf, Synthesize
  <2>2. top \in Nat
    <3>1. adv \in Nat
      BY <1>3, BookConstants
    <3> HIDE DEF adv
    <3>2. adv * DepthPct \in Nat
      BY <3>1, BookConstants, SMT
    <3>3. HalfEven(adv * DepthPct, Scale) \in Nat
      BY <3>2, BookConstants, HalfEvenNat
    <3> QED
      BY <3>3 DEF Most
  <2>3. half \in Nat /\ half >= tick * Scale
    <3>1. last * SpreadBps \in Nat /\ tick * Scale \in Nat
      BY <1>2, BookConstants, SMT
    <3> QED
      BY <3>1 DEF Most
  <2> HIDE DEF half, top
  <2>4. \E b \in Int :
          /\ bid \in Int /\ ask \in Int /\ bid <= b /\ b <= ask
          /\ b = last \/ (bid > 0 /\ ask > 0)
    <3>1. CASE unusable
      <4>1. bid \in Int /\ bid <= last /\ ask \in Int /\ ask >= last
        BY <1>2, <2>3, <3>1, SpreadHasLast
      <4> HIDE DEF bid, ask
      <4> QED
        BY <1>2, <4>1
    <3>2. CASE ~unusable
      <4>1. m.bid \in Nat \ {0} /\ m.ask \in Nat \ {0} /\ m.bid < m.ask
        BY <1>3, <3>2
      <4>2. bid \in Nat \ {0} /\ ask \in Nat \ {0} /\ bid <= ask
        BY <1>2, <3>2, <4>1, SnapKeepsOrder
      <4> HIDE DEF bid, ask
      <4> QED
        BY <4>2
    <3> QED
      BY <3>1, <3>2
  <2> HIDE DEF bid, ask
  <2>5. 0 \in 0..1 /\ Levels \in Int /\ Levels - 1 + 0 <= Levels
    BY <1>2
  <2>6. PICK b \in Int :
          /\ bid \in Int /\ ask \in Int /\ bid <= b /\ b <= ask
          /\ b = last \/ (bid > 0 /\ ask > 0)
    BY <2>4
  <2>7. /\ Priceable(book.bids) /\ Sorted("sell", book.bids)
        /\ Beyond("sell", bid, book.bids)
        /\ bid > 0 /\ Levels > 0 => book.bids # <<>>
    BY <1>2, <1>4, <2>1, <2>2, <2>5, <2>6, LadderFacts
  <2>8. /\ Priceable(book.asks) /\ Sorted("buy", book.asks)
        /\ Beyond("buy", ask, book.asks)
        /\ ask > 0 /\ Levels > 0 => book.asks # <<>>
    BY <1>2, <1>4, <2>1, <2>2, <2>5, <2>6, LadderFacts
  <2>9. Beyond("sell", b, book.bids) /\ Beyond("buy", b, book.asks)
    <3>1. \A i \in DOMAIN book.bids : book.bids[i].price \in Int
      BY <2>7, LevelFields DEF Priceable
    <3>2. \A i \in DOMAIN book.asks : book.asks[i].price \in Int
      BY <2>8, LevelFields DEF Priceable
    <3> QED
      BY <2>6, <2>7, <2>8, <3>1, <3>2 DEF Beyond, Away
  <2>10. Levels = 0 => book.asks = <<>> /\ book.bids = <<>>
    BY <2>1, EmptyLadder
  <2>11. b = last \/ (book.asks = <<>> <=> book.bids = <<>>)
    BY <1>2, <2>6, <2>7, <2>8, <2>10
  <2> QED
    BY <2>7, <2>8, <2>9, <2>11
<1> QED
  BY <1>6, <1>7

\* The price of a walk, or the last one where there was nothing to walk.
Average(s, q, last) ==
  LET w == Walk(s, q) IN IF w.filled = 0 THEN <<last, 1>> ELSE <<w.spent, w.filled>>

\* It is a price.
LEMMA AverageIsPrice ==
  ASSUME NEW side \in Sides, NEW s, Priceable(s), NEW q \in Nat \ {0},
         NEW last \in Nat \ {0}
  PROVE  IsPrice(Average(s, q, last), side)
<1> DEFINE take == Take(s, q)
           spent == Cost(s, take)
           filled == SumFunction(take)
<1>1. s \in Seq(Level) /\ \A i \in DOMAIN s : s[i].price \in Int /\ s[i].price > 0
  BY LevelFields DEF Priceable
<1>2. take \in [DOMAIN s -> Nat]
  <2>1. take \in [DOMAIN s -> 0..q]
    BY <1>1, TakeFacts
  <2> QED
    BY <2>1
<1>3. Beyond("buy", 1, s) /\ "buy" \in Sides
  BY <1>1 DEF Beyond, Away, Sides
<1> HIDE DEF take
<1>4. spent \in Int /\ filled \in Nat /\ Away("buy", 1 * filled, spent)
  BY <1>1, <1>2, <1>3, CostBounds
<1> HIDE DEF spent, filled
<1>5. spent >= filled
  BY <1>4 DEF Away
<1>6. Average(s, q, last) = IF filled = 0 THEN <<last, 1>> ELSE <<spent, filled>>
  BY DEF Average, Walk, spent, filled, take
<1> QED
  BY <1>4, <1>5, <1>6 DEF IsPrice

\* Whoever takes from a side pays at least, or gets at most, any price that
\* the side is beyond.
LEMMA AverageBeyond ==
  ASSUME NEW side \in Sides, NEW s, Priceable(s), NEW q \in Nat \ {0},
         NEW last \in Nat \ {0}, NEW b \in Int, Beyond(side, b, s), s = <<>> => b = last
  PROVE  Away(side, q * b, Principal(q, Average(s, q, last)))
<1> DEFINE take == Take(s, q)
           spent == Cost(s, take)
           filled == SumFunction(take)
<1>1. s \in Seq(Level)
  BY DEF Priceable
<1>2. take \in [DOMAIN s -> Nat] /\ (s # <<>> => filled > 0)
  <2>1. take \in [DOMAIN s -> 0..q] /\ (s # <<>> => filled > 0)
    BY <1>1, TakeFacts
  <2> QED
    BY <2>1
<1>3. s = <<>> => filled = 0
  <2> SUFFICES ASSUME s = <<>> PROVE filled = 0
    OBVIOUS
  <2>1. filled = q - Left(s, q)[Len(s)] /\ Left(s, q)[0] = q
    BY <1>1, TakeFacts, LeftLoop
  <2>2. Len(s) = 0
    OBVIOUS
  <2> HIDE DEF filled
  <2> QED
    BY <2>1, <2>2
<1> HIDE DEF take
<1>4. spent \in Int /\ filled \in Nat /\ Away(side, b * filled, spent)
  BY <1>1, <1>2, CostBounds
<1>5. Average(s, q, last) = IF filled = 0 THEN <<last, 1>> ELSE <<spent, filled>>
  BY DEF Average, Walk, take
<1> HIDE DEF spent, filled
<1> DEFINE qb == q * b
           p == Average(s, q, last)
           x == Principal(q, p)
<1>6. qb \in Int
  BY SMT
<1>7. CASE filled = 0
  <2>1. x = (q * last) \div 1 /\ b = last
    BY <1>2, <1>5, <1>7 DEF Principal
  <2>2. q * last \in Int
    BY SMT
  <2>3. x = q * last
    <3> DEFINE ql == q * last
    <3> HIDE DEF ql, x
    <3> QED
      BY <2>1, <2>2, SMT DEF ql
  <2> HIDE DEF x
  <2> QED
    BY <2>1, <2>2, <2>3 DEF Away, x
<1>8. CASE filled # 0
  <2> DEFINE qs == q * spent
  <2>1. x = qs \div filled
    BY <1>5, <1>8 DEF Principal
  <2>2. qs \in Int /\ b * filled \in Int
    BY <1>4, SMT
  <2>3. IF side = "buy" THEN qs >= q * (b * filled) ELSE qs <= q * (b * filled)
    <3> DEFINE bf == b * filled
    <3>1. bf \in Int /\ Away(side, bf, spent)
      BY <1>4, <2>2
    <3> HIDE DEF bf
    <3>2. IF side = "buy" THEN spent >= bf ELSE spent <= bf
      BY <1>4, <3>1 DEF Away
    <3>3. IF side = "buy" THEN q * spent >= q * bf ELSE q * spent <= q * bf
      BY <1>4, <3>1, <3>2, SMT
    <3> QED
      BY <3>3 DEF bf
  <2>4. q * (b * filled) = qb * filled
    BY <1>4, SMT
  <2>5. filled \in Nat \ {0}
    BY <1>4, <1>8
  <2> HIDE DEF qs, qb, x
  <2>6. IF side = "buy" THEN qs >= qb * filled ELSE qs <= qb * filled
    BY <2>3, <2>4
  <2>7. x \in Int /\ (IF side = "buy" THEN x >= qb ELSE x <= qb)
    <3>1. x \in Int /\ filled * x <= qs /\ qs < filled * x + filled
      BY <2>1, <2>2, <2>5, SMT
    <3>2. CASE side = "buy"
      <4>1. qb * filled < filled * x + filled /\ qs >= qb * filled
        BY <1>6, <2>2, <2>5, <2>6, <3>1, <3>2, SMT
      <4>2. x < qb => filled * x + filled <= qb * filled
        BY <1>6, <2>5, <3>1, SMT
      <4> QED
        BY <1>6, <2>5, <3>1, <3>2, <4>1, <4>2, SMT
    <3>3. CASE side # "buy"
      <4>1. filled * x <= qb * filled
        BY <1>6, <2>2, <2>5, <2>6, <3>1, <3>3, SMT
      <4>2. x > qb => filled * x >= qb * filled + filled
        BY <1>6, <2>5, <3>1, SMT
      <4> QED
        BY <1>6, <2>5, <3>1, <3>3, <4>1, <4>2, SMT
    <3> QED
      BY <3>2, <3>3
  <2> QED
    BY <1>6, <2>7 DEF Away, x, qb
<1> QED
  BY <1>7, <1>8

\* A book prices by the average over its levels.
LEMMA BookAverages ==
  ASSUME NEW side, NEW q, NEW last, NEW tick, NEW m,
         m # Down, m.bid # NoValue, m.ask # NoValue
  PROVE  BookPrice(side, q, last, m, tick)
           = Average(SideOf(side, BookOf(last, m, tick)), q, last)
BY DEF BookPrice, Average

\* The price of a book is a price.
LEMMA BookPriceIsPrice ==
  ASSUME NEW side \in Sides, NEW q \in Nat \ {0}, NEW last \in Lasts,
         NEW m \in Quotes \cup {Down}, NEW tick \in Ticks
  PROVE  IsPrice(BookPrice(side, q, last, m, tick), side)
<1>1. last \in Nat \ {0}
  BY BookConstants
<1>2. CASE m = Down \/ m.bid = NoValue \/ m.ask = NoValue
  <2>1. BookPrice(side, q, last, m, tick) = <<last, 1>>
    BY <1>2 DEF BookPrice
  <2> QED
    BY <1>1, <2>1 DEF IsPrice
<1>3. CASE m # Down /\ m.bid # NoValue /\ m.ask # NoValue
  <2>1. Priceable(SideOf(side, BookOf(last, m, tick)))
    BY <1>3, BookFacts
  <2> QED
    BY <1>1, <1>3, <2>1, AverageIsPrice, BookAverages
<1> QED
  BY <1>2, <1>3

\* A sale into the book brings no more than a purchase from it costs.
LEMMA BooksFair ==
  ASSUME Uncrossed, NEW q \in Nat \ {0}, NEW last \in Lasts,
         NEW m \in Quotes \cup {Down}, NEW tick \in Ticks
  PROVE  Principal(q, BookPrice("sell", q, last, m, tick))
           <= Principal(q, BookPrice("buy", q, last, m, tick))
<1> DEFINE levels(side) == SideOf(side, BookOf(last, m, tick))
           x(side) == Principal(q, BookPrice(side, q, last, m, tick))
<1>1. last \in Nat \ {0} /\ "buy" \in Sides /\ "sell" \in Sides
  BY BookConstants DEF Sides
<1>2. CASE m = Down \/ m.bid = NoValue \/ m.ask = NoValue
  <2>1. /\ BookPrice("sell", q, last, m, tick) = <<last, 1>>
        /\ BookPrice("buy", q, last, m, tick) = <<last, 1>>
    BY <1>2 DEF BookPrice
  <2>2. q * last \in Int
    BY <1>1, SMT
  <2> DEFINE ql == q * last
  <2>3. ql \in Int /\ Principal(q, <<last, 1>>) = ql \div 1
    BY <2>2 DEF Principal
  <2> HIDE DEF ql
  <2> QED
    BY <2>1, <2>3, SMT
<1>3. CASE m # Down /\ m.bid # NoValue /\ m.ask # NoValue
  <2>1. /\ Priceable(levels("buy")) /\ Priceable(levels("sell"))
        /\ \E b \in Int :
             /\ Beyond("buy", b, levels("buy")) /\ Beyond("sell", b, levels("sell"))
             /\ b = last \/ (levels("buy") = <<>> <=> levels("sell") = <<>>)
    BY <1>1, <1>3, BookFacts
  <2>2. /\ x("buy") = Principal(q, Average(levels("buy"), q, last))
        /\ x("sell") = Principal(q, Average(levels("sell"), q, last))
    BY <1>3, BookAverages
  <2> HIDE DEF levels
  <2>3. PICK b \in Int :
          /\ Beyond("buy", b, levels("buy")) /\ Beyond("sell", b, levels("sell"))
          /\ b = last \/ (levels("buy") = <<>> <=> levels("sell") = <<>>)
    BY <2>1
  <2> DEFINE both == levels("buy") = <<>> /\ levels("sell") = <<>>
             c == IF both THEN last ELSE b
  <2>4. /\ c \in Int
        /\ Beyond("buy", c, levels("buy")) /\ Beyond("sell", c, levels("sell"))
        /\ levels("buy") = <<>> => c = last
        /\ levels("sell") = <<>> => c = last
    <3>1. \A side, n : Beyond(side, n, <<>>)
      BY DEF Beyond
    <3>2. CASE both
      BY <1>1, <3>1, <3>2
    <3>3. CASE ~both
      BY <2>3, <3>3
    <3> QED
      BY <3>2, <3>3
  <2> HIDE DEF c
  <2>5. Away("buy", q * c, x("buy"))
    BY <1>1, <2>1, <2>2, <2>4, AverageBeyond
  <2>6. Away("sell", q * c, x("sell"))
    BY <1>1, <2>1, <2>2, <2>4, AverageBeyond
  <2>7. x("buy") \in Int /\ x("sell") \in Int /\ q * c \in Int
    <3>1. q * c \in Int
      BY <2>4, SMT
    <3>2. \A side \in Sides : x(side) \in Int
      <4> SUFFICES ASSUME NEW side \in Sides PROVE x(side) \in Int
        OBVIOUS
      <4> DEFINE p == BookPrice(side, q, last, m, tick)
                 n == p[1]
                 d == p[2]
      <4>1. n \in Nat /\ d \in Nat \ {0}
        BY BookPriceIsPrice DEF IsPrice
      <4> HIDE DEF n, d
      <4>2. q * n \in Nat
        BY <4>1, SMT
      <4> DEFINE qn == q * n
      <4>3. qn \in Nat /\ x(side) = qn \div d
        BY <4>2 DEF Principal, n, d
      <4> HIDE DEF qn
      <4> QED
        BY <4>1, <4>3, SMT
    <3> QED
      BY <1>1, <3>1, <3>2
  <2> DEFINE qc == q * c
  <2>8. qc \in Int /\ x("sell") <= qc /\ qc <= x("buy")
    BY <2>5, <2>6, <2>7 DEF Away
  <2> HIDE DEF qc
  <2> QED
    BY <2>7, <2>8
<1> QED
  BY <1>2, <1>3

-----------------------------------------------------------------------------
(* The states of an order *)

Checked ==
  [at : {"checked"}, side : Sides, qty : Nat \ {0}, risk : Nat, raced : BOOLEAN]
Priced ==
  {o \in [at : {"priced"}, side : Sides, qty : Nat \ {0}, risk : Nat,
          raced : BOOLEAN, last : Lasts, quote : Quotes \cup {Down},
          tick : Ticks, principal : Nat, fee : Nat] :
     o.side = "buy" => o.principal > 0}
Resting ==
  {o \in [at : {"resting"}, side : Sides, qty : Nat \ {0}, limit : Nat \ {0},
          filled : Nat] : o.filled < o.qty}
OrderOK(o) == o \in {None} \cup Checked \cup Priced \cup Resting

OrdersOK ==
  /\ order = [c \in Clients |-> order[c]]
  /\ \A c \in Clients : OrderOK(order[c])
ListingOK ==
  listing \in {NoRow} \cup [state : {"listed", "delisted"}, row : Rows]

\* The four facts about the account that every transaction keeps.
Books == TypeOK /\ CashIsLedger /\ EquityConserved /\ BasisIffShares

\* The inductive invariant.
ExecInv == Books /\ OrdersOK /\ ListingOK

\* The tick in force is one of the master's or the default.
LEMMA RulesTick ==
  ASSUME ListingOK
  PROVE  Rules.tick \in Ticks
<1>1. CASE listing = NoRow
  BY <1>1 DEF Rules, NoRow, Ticks
<1>2. CASE listing \in [state : {"listed", "delisted"}, row : Rows]
  BY <1>2 DEF Rules, Or, Ticks
<1> QED  BY <1>1, <1>2 DEF ListingOK

\* A market order is priced at a price, by the book or by slippage.
LEMMA MarketPrice ==
  ASSUME NEW c \in Clients, NEW o \in Checked, NEW last \in Lasts,
         NEW m \in Quotes \cup {Down}, NEW tick \in Ticks
  PROVE  IsPrice(PriceFor(c, o.side, o.qty, last, m, tick), o.side)
<1>1. o.side \in Sides /\ o.qty \in Nat \ {0}
  BY DEF Checked
<1>2. IsPrice(BookPrice(o.side, o.qty, last, m, tick), o.side)
  BY <1>1, BookPriceIsPrice
<1> QED  BY <1>1, <1>2, SlippedIsPrice DEF PriceFor

\* A limit order is filled at a price: the last price, or the slipped one
\* bounded by the limit.
LEMMA RestingPrice ==
  ASSUME NEW side \in Sides, NEW last \in Lasts, NEW limit \in Nat \ {0}
  PROVE  IsPrice(LimitPrice(side, last, limit), side) /\ IsPrice(<<last, 1>>, side)
<1>1. IsPrice(<<limit, 1>>, side)
  BY DEF IsPrice
<1>2. IsPrice(<<last, 1>>, side)
  BY ExecConstants DEF IsPrice
<1> QED  BY <1>1, <1>2, SlippedIsPrice DEF LimitPrice

\* An order in flight stays what it is when the account changes under it.
LEMMA RacedOK ==
  ASSUME OrdersOK, NEW d, NEW c \in Clients
  PROVE  /\ OrderOK(Raced(d)[c])
         /\ Raced(d)[c].at = order[c].at
<1>1. OrderOK(order[c])
  BY DEF OrdersOK
<1>2. CASE Raced(d)[c] = order[c]
  BY <1>1, <1>2
<1>3. CASE Raced(d)[c] = [order[c] EXCEPT !.raced = TRUE]
  <2> SUFFICES ASSUME order[c].at \in {"checked", "priced"}
               PROVE  /\ OrderOK(Raced(d)[c])
                      /\ Raced(d)[c].at = order[c].at
    BY <1>2 DEF Raced
  <2>1. CASE order[c] \in Checked
    BY <1>3, <2>1 DEF Checked, OrderOK
  <2>2. CASE order[c] \in Priced
    BY <1>3, <2>2 DEF Priced, OrderOK
  <2> QED  BY <1>1, <2>1, <2>2 DEF OrderOK, None, Resting
<1> QED  BY <1>2, <1>3 DEF Raced

-----------------------------------------------------------------------------
(* The books *)

\* A fill keeps the books, at whatever principal and fee.
LEMMA ApplyKeeps ==
  ASSUME Books, NEW side \in Sides, NEW q \in Nat \ {0}, NEW principal \in Nat,
         side = "buy" => principal > 0, NEW fee \in Nat,
         Apply(side, q, principal, fee)
  PROVE  Books'
<1>1. CASE side = "buy" /\ BuyFor(q, principal, fee)
  <2>1. principal \in Nat \ {0}
    BY <1>1
  <2> QED  BY <1>1, <2>1, BuyForKeeps DEF Books
<1>2. CASE side = "sell" /\ SellFor(q, principal, fee)
  BY <1>2, SellForKeeps DEF Books
<1> QED  BY <1>1, <1>2 DEF Apply

\* So do corporate actions and resets, which are steps of module Account.
LEMMA AccountStepKeeps ==
  ASSUME Books, [Next]_vars
  PROVE  Books'
BY TypeStep, CashStep, EquityStep, BasisStep DEF Books

\* The new account is balanced.
LEMMA InitBooks == Init => Books
<1>1. Init => CashIsLedger
  BY AccountAssumption, OpeningBooks
  DEF AccountAssumption, Init, CashIsLedger, LedgerSum, Reasons
<1>2. Init => EquityConserved
  BY AccountAssumption, OpeningBooks
  DEF AccountAssumption, Init, EquityConserved, Reasons
<1>3. Init => BasisIffShares
  BY DEF Init, BasisIffShares
<1> QED  BY <1>1, <1>2, <1>3, TypeInit DEF Books

-----------------------------------------------------------------------------
(* The steps *)

\* One order changes and the others are told of it or not.
LEMMA OneOrder ==
  ASSUME OrdersOK, NEW c \in Clients, NEW o, OrderOK(o),
         \/ order' = [order EXCEPT ![c] = o]
         \/ order' = [Raced(c) EXCEPT ![c] = o]
  PROVE  OrdersOK'
<1>1. \A d \in Clients : OrderOK(Raced(c)[d]) /\ OrderOK(order[d])
  BY RacedOK DEF OrdersOK
<1>2. order' = [d \in Clients |-> order'[d]]
  BY DEF OrdersOK, Raced
<1>3. \A d \in Clients : order'[d] \in {o, order[d], Raced(c)[d]}
                     /\ (d = c => order'[d] = o)
  BY DEF OrdersOK, Raced
<1>4. \A d \in Clients : OrderOK(order'[d])
  <2> SUFFICES ASSUME NEW d \in Clients PROVE OrderOK(order'[d])
    OBVIOUS
  <2>1. CASE d = c
    BY <1>3, <2>1
  <2>2. CASE d # c
    <3>1. order'[d] \in {order[d], Raced(c)[d]}
      BY <2>2 DEF OrdersOK, Raced
    <3> QED  BY <1>1, <3>1
  <2> QED  BY <2>1, <2>2
<1> QED  BY <1>2, <1>4 DEF OrdersOK

\* Checking, pricing, refusing and cancelling leave an order well formed.
LEMMA PrepareKeeps ==
  ASSUME ExecInv, NEW c \in Clients, Prepare(c)
  PROVE  ExecInv'
<1>1. Books' /\ ListingOK'
  <2>1. UNCHANGED <<vars, listing>>
    BY DEF Prepare
  <2> QED
    BY <2>1, AccountStepKeeps DEF ExecInv, ListingOK
<1>2. ASSUME NEW r \in Requests[c], NEW risk \in RiskPrices(r), Submit(c, r, risk)
      PROVE  OrdersOK'
  <2>1. /\ r.side \in Sides /\ r.qty \in Nat \ {0}
        /\ r.limit \in {NoValue} \cup (Nat \ {0})
    BY ExecutionAssumption DEF ExecutionAssumption, Sides
  <2>2. CASE r.limit = NoValue
    <3> DEFINE o == [at |-> "checked", side |-> r.side, qty |-> r.qty,
                     risk |-> IF r.side = "buy" THEN risk ELSE 0, raced |-> FALSE]
    <3>1. risk \in Nat
      BY <2>2, ExecConstants DEF RiskPrices
    <3>2. OrderOK(o)
      BY <2>1, <2>2, <3>1 DEF OrderOK, Checked
    <3>3. order' = [order EXCEPT ![c] = o]
      BY <1>2, <2>2 DEF Submit
    <3> QED  BY <3>2, <3>3, OneOrder DEF ExecInv
  <2>3. CASE r.limit # NoValue
    <3> DEFINE o == [at |-> "resting", side |-> r.side, qty |-> r.qty,
                     limit |-> r.limit, filled |-> 0]
    <3>1. OrderOK(o)
      BY <2>1, <2>3 DEF OrderOK, Resting
    <3>2. order' = [order EXCEPT ![c] = o]
      BY <1>2, <2>3 DEF Submit
    <3> QED  BY <3>1, <3>2, OneOrder DEF ExecInv
  <2> QED  BY <2>2, <2>3
<1>3. ASSUME NEW last \in Lasts, NEW m \in Quotes \cup {Down}, NEW day \in Days,
             Price(c, last, m, day)
      PROVE  OrdersOK'
  <2> DEFINE p == PriceFor(c, order[c].side, order[c].qty, last, m, Rules.tick)
             principal == Principal(order[c].qty, p)
             fee == FeeTotal(ConfigOn(day), order[c].side, principal)
             o == [at |-> "priced", side |-> order[c].side, qty |-> order[c].qty,
                   risk |-> order[c].risk, raced |-> order[c].raced,
                   last |-> last, quote |-> m, tick |-> Rules.tick,
                   principal |-> principal, fee |-> fee]
  <2>1. order[c].at = "checked" /\ order' = [order EXCEPT ![c] = o]
    BY <1>3 DEF Price
  <2>2. order[c] \in Checked
    BY <2>1 DEF ExecInv, OrdersOK, OrderOK, None, Priced, Resting
  <2>3. /\ order[c].side \in Sides /\ order[c].qty \in Nat \ {0}
        /\ order[c].risk \in Nat /\ order[c].raced \in BOOLEAN
    BY <2>2 DEF Checked
  <2>4. Rules.tick \in Ticks
    BY RulesTick DEF ExecInv
  <2>5. IsPrice(p, order[c].side)
    BY <2>2, <2>4, MarketPrice
  <2> HIDE DEF p
  <2>6. principal \in Nat /\ (order[c].side = "buy" => principal > 0)
    BY <2>3, <2>5, PrincipalType
  <2>7. fee \in Nat
    <3>1. ConfigOn(day) \in FeeConfigs
      BY ExecutionAssumption DEF ExecutionAssumption
    <3> QED  BY <2>3, <2>6, <3>1, FeesAreNat
  <2> HIDE DEF principal, fee
  <2>8. OrderOK(o)
    BY <2>3, <2>4, <2>6, <2>7 DEF OrderOK, Priced
  <2> QED  BY <2>1, <2>8, OneOrder DEF ExecInv
<1>4. ASSUME NoFillQuote(c) \/ Refused(c) \/ Cancel(c)
      PROVE  OrdersOK'
  <2>1. order' = [order EXCEPT ![c] = None]
    BY <1>4 DEF NoFillQuote, Refused, Cancel
  <2> QED  BY <2>1, OneOrder DEF ExecInv, OrderOK
<1> QED
  BY <1>1, <1>2, <1>3, <1>4 DEF Prepare, ExecInv

\* A market order commits, or one slice of a limit order does.
LEMMA FillKeeps ==
  ASSUME ExecInv, NEW c \in Clients, Fill(c)
  PROVE  ExecInv'
<1>1. ListingOK'
  BY DEF Fill, ExecInv, ListingOK
<1>2. CASE Commit(c)
  <2>1. /\ order[c].at = "priced" /\ order' = [Raced(c) EXCEPT ![c] = None]
        /\ Apply(order[c].side, order[c].qty, order[c].principal, order[c].fee)
    BY <1>2 DEF Commit
  <2>2. order[c] \in Priced
    BY <2>1 DEF ExecInv, OrdersOK, OrderOK, None, Checked, Resting
  <2>3. /\ order[c].side \in Sides /\ order[c].qty \in Nat \ {0}
        /\ order[c].principal \in Nat /\ order[c].fee \in Nat
        /\ order[c].side = "buy" => order[c].principal > 0
    BY <2>2 DEF Priced
  <2>4. Books'
    BY <2>1, <2>3, ApplyKeeps DEF ExecInv
  <2>5. OrdersOK'
    BY <2>1, OneOrder DEF ExecInv, OrderOK
  <2> QED  BY <1>1, <2>4, <2>5 DEF ExecInv
<1>3. ASSUME NEW last \in Lasts, NEW day \in Days, FillLimit(c, last, day)
      PROVE  ExecInv'
  <2> DEFINE o == order[c]
             q == FillQty(o.qty - o.filled)
             p == IF c \in SlipLimits THEN LimitPrice(o.side, last, o.limit)
                                      ELSE <<last, 1>>
             principal == Principal(q, p)
             fee == FeeTotal(ConfigOn(day), o.side, principal)
             next == IF o.filled + q = o.qty THEN None ELSE [o EXCEPT !.filled = @ + q]
  <2>1. /\ o.at = "resting" /\ Apply(o.side, q, principal, fee)
        /\ order' = [Raced(c) EXCEPT ![c] = next]
    BY <1>3 DEF FillLimit
  <2>2. o \in Resting
    BY <2>1 DEF ExecInv, OrdersOK, OrderOK, None, Checked, Priced
  <2>3. /\ o.side \in Sides /\ o.limit \in Nat \ {0} /\ o.qty \in Nat
        /\ o.filled \in Nat /\ o.filled < o.qty
    BY <2>2 DEF Resting
  <2>4. q \in Nat /\ q > 0 /\ q <= o.qty - o.filled
    <3>1. o.qty - o.filled \in Nat /\ o.qty - o.filled > 0
      BY <2>3
    <3> QED  BY <3>1, SliceFits
  <2>5. IsPrice(p, o.side)
    BY <2>3, RestingPrice
  <2>6. OrderOK(next)
    <3> HIDE DEF q
    <3> QED  BY <2>2, <2>3, <2>4 DEF Resting, OrderOK
  <2> HIDE DEF p, q, next
  <2>7. principal \in Nat /\ (o.side = "buy" => principal > 0)
    BY <2>4, <2>5, PrincipalType
  <2>8. fee \in Nat
    <3>1. ConfigOn(day) \in FeeConfigs
      BY ExecutionAssumption DEF ExecutionAssumption
    <3> QED  BY <2>3, <2>7, <3>1, FeesAreNat
  <2> HIDE DEF principal, fee
  <2>9. Books'
    <3>1. q \in Nat \ {0}
      BY <2>4
    <3> QED  BY <2>1, <2>3, <2>7, <2>8, <3>1, ApplyKeeps DEF ExecInv
  <2>10. OrdersOK'
    BY <2>1, <2>6, OneOrder DEF ExecInv
  <2> QED  BY <1>1, <2>9, <2>10 DEF ExecInv
<1> QED  BY <1>2, <1>3 DEF Fill

\* Corporate actions and resets change the account under the orders, edits of
\* the master only the rules.
LEMMA OthersKeep ==
  ASSUME ExecInv,
         ((Corporate \/ ResetAll) /\ UNCHANGED listing) \/ EditMaster
  PROVE  ExecInv'
<1>1. CASE Corporate /\ UNCHANGED listing
  <2>1. Next /\ order' = Raced(NoValue)
    BY <1>1 DEF Corporate, Next
  <2>2. OrdersOK'
    <3>1. \A c \in Clients : OrderOK(Raced(NoValue)[c])
      BY RacedOK DEF ExecInv
    <3>2. order' = [c \in Clients |-> order'[c]]
      BY <2>1 DEF Raced
    <3> QED  BY <2>1, <3>1, <3>2 DEF OrdersOK
  <2> QED
    BY <1>1, <2>1, <2>2, AccountStepKeeps DEF ExecInv, ListingOK
<1>2. CASE ResetAll /\ UNCHANGED listing
  <2>1. Next
    BY <1>2 DEF ResetAll, Next
  <2>2. order' = [c \in Clients |->
                   IF order[c].at = "resting" THEN None ELSE Raced(NoValue)[c]]
    BY <1>2 DEF ResetAll
  <2>3. OrdersOK'
    <3>1. \A c \in Clients : OrderOK(Raced(NoValue)[c]) /\ OrderOK(None)
      BY RacedOK DEF ExecInv, OrderOK
    <3> QED  BY <2>2, <3>1 DEF OrdersOK
  <2> QED
    BY <1>2, <2>1, <2>3, AccountStepKeeps DEF ExecInv, ListingOK
<1>3. CASE EditMaster
  <2>1. UNCHANGED <<vars, order>>
    BY <1>3 DEF EditMaster
  <2>2. ListingOK'
    <3>1. CASE \E row \in Rows : Upsert(row)
      BY <3>1 DEF Upsert, ListingOK
    <3>2. CASE Delist \/ Relist
      BY <3>2 DEF Delist, Relist, ExecInv, ListingOK, NoRow
    <3> QED  BY <1>3, <3>1, <3>2 DEF EditMaster
  <2> QED
    BY <2>1, <2>2, AccountStepKeeps DEF ExecInv, OrdersOK
<1> QED  BY <1>1, <1>2, <1>3

\* Initially there is an opening balance and nothing else.
LEMMA InitExecInv == ExecInit => ExecInv
<1> SUFFICES ASSUME ExecInit PROVE ExecInv
  OBVIOUS
<1>1. Books
  BY InitBooks DEF ExecInit
<1>2. OrdersOK /\ ListingOK
  BY DEF ExecInit, OrdersOK, OrderOK, ListingOK
<1> QED  BY <1>1, <1>2 DEF ExecInv

\* Every step keeps the invariant.
LEMMA ExecStep ==
  ASSUME ExecInv, [ExecNext]_execVars
  PROVE  ExecInv'
<1>1. CASE UNCHANGED execVars
  <2>1. UNCHANGED <<vars, listing, order>>
    BY <1>1 DEF execVars
  <2> QED  BY <2>1, AccountStepKeeps DEF ExecInv, OrdersOK, ListingOK
<1> QED
  BY <1>1, PrepareKeeps, FillKeeps, OthersKeep DEF ExecNext

\* The invariant holds throughout.
LEMMA ExecKeepsInv == ExecSpec => []ExecInv
BY InitExecInv, ExecStep, PTL DEF ExecSpec

-----------------------------------------------------------------------------
(* What follows for the books *)

\* Cash is the sum of its movements, whatever fills cost: slipped prices,
\* averages over book levels, slices, fees of any schedule, races included.
THEOREM ExecCashIsLedger == ExecSpec => []CashIsLedger
<1>1. ExecInv => CashIsLedger
  BY DEF ExecInv, Books
<1> QED  BY <1>1, ExecKeepsInv, PTL

\* Shares and their cost vanish together, also when an order is filled in
\* slices at different prices.
THEOREM ExecBasisIffShares == ExecSpec => []BasisIffShares
<1>1. ExecInv => BasisIffShares
  BY DEF ExecInv, Books
<1> QED  BY <1>1, ExecKeepsInv, PTL

\* What a holding is worth at a mark is a number.
LEMMA MarketValueType ==
  ASSUME TypeOK, NEW mark \in Marks
  PROVE  MarketValue(mark) \in Int
<1>1. PICK toBid \in BOOLEAN, m \in Quotes \cup {Down}, last \in Lasts \cup {NoValue} :
        mark = MarkPrice(toBid, m, last)
  BY DEF Marks
<1>2. m # Down => {m.bid, m.ask} \subseteq Int \cup {NoValue}
  BY ExecutionAssumption DEF ExecutionAssumption
<1>3. mark = NoValue \/ \E n \in Int, d \in {1, 2} : mark = <<n, d>>
  BY <1>1, <1>2, ExecConstants DEF MarkPrice
<1>4. CASE mark = NoValue
  BY <1>4 DEF MarketValue, TypeOK
<1>5. CASE mark # NoValue
  <2>1. PICK n \in Int, d \in {1, 2} : mark = <<n, d>>
    BY <1>3, <1>5
  <2>2. shares * n \in Int
    BY SMT DEF TypeOK
  <2>3. (shares * n) \div d \in Int
    BY <2>1, <2>2
  <2> QED  BY <1>5, <2>1, <2>3 DEF MarketValue, Principal
<1> QED  BY <1>4, <1>5

\* The figures of the account summary add up at every mark, because every
\* fill books its fees and its realized gain once.
THEOREM ExecPnlAddsUp == ExecSpec => []PnlAddsUp
<1>1. ASSUME ExecInv, NEW mark \in Marks
      PROVE  LET s == Summary(mark) IN
             s.equity = ledger["initial_capital"] + ledger["dividend"]
                          + s.realized + s.unrealized
  <2>1. MarketValue(mark) \in Int
    BY <1>1, MarketValueType DEF ExecInv, Books
  <2>2. /\ cash \in Int /\ basis \in Int /\ realized \in Int
        /\ ledger["initial_capital"] \in Int /\ ledger["dividend"] \in Int
        /\ cash + basis = ledger["initial_capital"] + ledger["dividend"] + realized
    BY <1>1 DEF ExecInv, Books, TypeOK, EquityConserved, Reasons
  <2> DEFINE mv == MarketValue(mark)
  <2>3. /\ Summary(mark).equity = cash + mv
        /\ Summary(mark).realized = realized
        /\ Summary(mark).unrealized = mv - basis
    BY DEF Summary
  <2> HIDE DEF mv
  <2>4. mv \in Int
    BY <2>1 DEF mv
  <2> QED  BY <2>2, <2>3, <2>4
<1>2. ExecInv => PnlAddsUp
  BY <1>1 DEF PnlAddsUp
<1> QED  BY <1>2, ExecKeepsInv, PTL

-----------------------------------------------------------------------------
(* Caps on the position *)

\* The buy of client d that nothing overtook still fits, at the price that it
\* was checked with.
CapInv ==
  \A d \in Clients :
    /\ order[d].at \in {"checked", "priced"} /\ order[d].side = "buy"
    /\ ~order[d].raced
    => PositionFits(order[d].qty, order[d].risk)

\* A change of the account is told to every buy in flight but the one that
\* makes it.
LEMMA RacedIsTold ==
  ASSUME OrdersOK, NEW d, NEW c \in Clients, c # d,
         Raced(d)[c].at \in {"checked", "priced"}, Raced(d)[c].side = "buy"
  PROVE  Raced(d)[c].raced
<1>1. order[c] \in Checked \cup Priced
  BY RacedOK DEF OrdersOK, OrderOK, None, Resting
<1>2. CASE order[c].side = "buy"
  <2>1. Raced(d)[c] = [order[c] EXCEPT !.raced = TRUE]
    BY <1>1, <1>2 DEF Raced, Checked, Priced
  <2> QED  BY <1>1, <2>1 DEF Checked, Priced
<1>3. CASE order[c].side # "buy"
  BY <1>3 DEF Raced
<1> QED  BY <1>2, <1>3

\* While the account does not change, what fitted still fits.
LEMMA StillFits ==
  ASSUME UNCHANGED vars, NEW q, NEW price, PositionFits(q, price)
  PROVE  PositionFits(q, price)'
BY DEF vars, PositionFits, HoldingFits

\* An order on its way keeps to its check until something overtakes it.
LEMMA CapPrepare ==
  ASSUME ExecInv, CapInv, NEW c \in Clients, Prepare(c)
  PROVE  CapInv'
<1>1. UNCHANGED vars
  BY DEF Prepare
<1>2. ASSUME NEW d \in Clients,
             order'[d].at \in {"checked", "priced"},
             order'[d].side = "buy", ~order'[d].raced
      PROVE  PositionFits(order'[d].qty, order'[d].risk)
  <2> USE <1>2
  <2>1. ASSUME NEW r \in Requests[c], NEW risk \in RiskPrices(r), Submit(c, r, risk)
        PROVE  PositionFits(order'[d].qty, order'[d].risk)
    <3>1. CASE d = c /\ r.limit = NoValue
      <4>1. order'[c] = [at |-> "checked", side |-> r.side, qty |-> r.qty,
                         risk |-> IF r.side = "buy" THEN risk ELSE 0,
                         raced |-> FALSE]
        BY <2>1, <3>1 DEF Submit, ExecInv, OrdersOK
      <4>2. r.side = "buy" => PositionFits(r.qty, risk)
        BY <2>1 DEF Submit, WithinCaps
      <4> QED  BY <3>1, <4>1, <4>2
    <3>2. CASE d = c /\ r.limit # NoValue
      <4>1. order'[c].at = "resting"
        BY <2>1, <3>2 DEF Submit, ExecInv, OrdersOK
      <4> QED  BY <3>2, <4>1
    <3>3. CASE d # c
      <4>1. order'[d] = order[d]
        BY <2>1, <3>3 DEF Submit, ExecInv, OrdersOK
      <4> QED  BY <4>1 DEF CapInv
    <3> QED  BY <3>1, <3>2, <3>3
  <2>2. ASSUME NEW last \in Lasts, NEW m \in Quotes \cup {Down}, NEW day \in Days,
               Price(c, last, m, day)
        PROVE  PositionFits(order'[d].qty, order'[d].risk)
    <3>1. CASE d = c
      <4>1. /\ order[c].at = "checked"
            /\ order'[c].qty = order[c].qty /\ order'[c].risk = order[c].risk
            /\ order'[c].side = order[c].side /\ order'[c].raced = order[c].raced
        BY <2>2 DEF Price, ExecInv, OrdersOK
      <4> QED  BY <3>1, <4>1 DEF CapInv
    <3>2. CASE d # c
      <4>1. order'[d] = order[d]
        BY <2>2, <3>2 DEF Price, ExecInv, OrdersOK
      <4> QED  BY <4>1 DEF CapInv
    <3> QED  BY <3>1, <3>2
  <2>3. ASSUME NoFillQuote(c) \/ Refused(c) \/ Cancel(c)
        PROVE  PositionFits(order'[d].qty, order'[d].risk)
    <3>1. order' = [order EXCEPT ![c] = None]
      BY <2>3 DEF NoFillQuote, Refused, Cancel
    <3>2. order'[d] = order[d]
      BY <3>1 DEF ExecInv, OrdersOK, None
    <3> QED  BY <3>2 DEF CapInv
  <2> QED  BY <2>1, <2>2, <2>3 DEF Prepare
<1>3. ASSUME NEW d \in Clients, NEW o, o = order'[d],
             o.at \in {"checked", "priced"}, o.side = "buy", ~o.raced
      PROVE  PositionFits(o.qty, o.risk)'
  BY <1>1, <1>2, <1>3, StillFits
<1> QED  BY <1>3 DEF CapInv

\* Whoever changes the account tells all the others.
LEMMA CapOthers ==
  ASSUME ExecInv, CapInv,
         \/ \E c \in Clients : Fill(c)
         \/ Corporate \/ ResetAll
  PROVE  CapInv'
<1> SUFFICES ASSUME NEW d \in Clients,
                    order'[d].at \in {"checked", "priced"},
                    order'[d].side = "buy", ~order'[d].raced
             PROVE  FALSE
  BY DEF CapInv
<1>1. ASSUME NEW c \in Clients, Fill(c)
      PROVE  FALSE
  <2>1. PICK o : order' = [Raced(c) EXCEPT ![c] = o] /\ o.at \in {"none", "resting"}
    <3>1. CASE Commit(c)
      <4>1. order' = [Raced(c) EXCEPT ![c] = None]
        BY <3>1 DEF Commit
      <4>2. None.at = "none"
        BY DEF None
      <4> QED  BY <4>1, <4>2
    <3>2. ASSUME NEW last \in Lasts, NEW day \in Days, FillLimit(c, last, day)
          PROVE  \E o : /\ order' = [Raced(c) EXCEPT ![c] = o]
                        /\ o.at \in {"none", "resting"}
      <4> DEFINE q == FillQty(order[c].qty - order[c].filled)
                 more == [order[c] EXCEPT !.filled = @ + q]
      <4>1. /\ order[c].at = "resting"
            /\ \/ order' = [Raced(c) EXCEPT ![c] = None]
               \/ order' = [Raced(c) EXCEPT ![c] = more]
        BY <3>2 DEF FillLimit
      <4>2. order[c] \in Resting
        BY <4>1 DEF ExecInv, OrdersOK, OrderOK, None, Checked, Priced
      <4>3. more.at = "resting" /\ None.at = "none"
        <5> HIDE DEF q
        <5> QED  BY <4>2 DEF Resting, None
      <4> HIDE DEF more
      <4>4. CASE order' = [Raced(c) EXCEPT ![c] = None]
        BY <4>3, <4>4
      <4>5. CASE order' = [Raced(c) EXCEPT ![c] = more]
        BY <4>3, <4>5
      <4> QED  BY <4>1, <4>4, <4>5
    <3> QED  BY <1>1, <3>1, <3>2 DEF Fill
  <2>2. CASE d = c
    <3>1. order'[c] = o
      BY <2>1 DEF Raced
    <3> QED  BY <2>1, <2>2, <3>1
  <2>3. CASE d # c
    <3>1. order'[d] = Raced(c)[d]
      BY <2>1, <2>3 DEF Raced
    <3> QED  BY <2>3, <3>1, RacedIsTold DEF ExecInv
  <2> QED  BY <2>2, <2>3
<1>2. ASSUME Corporate \/ ResetAll
      PROVE  FALSE
  <2>1. order'[d] \in {None, Raced(NoValue)[d]}
    BY <1>2 DEF Corporate, ResetAll
  <2>2. d # NoValue /\ None.at = "none"
    BY ExecutionAssumption DEF ExecutionAssumption, None
  <2>3. order'[d] = Raced(NoValue)[d]
    BY <2>1, <2>2
  <2> QED  BY <2>2, <2>3, RacedIsTold DEF ExecInv
<1> QED  BY <1>1, <1>2

\* A buy that nothing overtook fits at any time.
LEMMA ExecKeepsCap == ExecSpec => []CapInv
<1>1. ExecInit => CapInv
  BY DEF ExecInit, CapInv, None
<1>2. ExecInv /\ CapInv /\ [ExecNext]_execVars => CapInv'
  <2> SUFFICES ASSUME ExecInv, CapInv, [ExecNext]_execVars PROVE CapInv'
    OBVIOUS
  <2>1. CASE UNCHANGED <<vars, order>>
    <3> SUFFICES ASSUME NEW d \in Clients,
                        order[d].at \in {"checked", "priced"},
                        order[d].side = "buy", ~order[d].raced
                 PROVE  PositionFits(order[d].qty, order[d].risk)'
      BY <2>1 DEF CapInv
    <3>1. PositionFits(order[d].qty, order[d].risk)
      BY DEF CapInv
    <3> QED  BY <2>1, <3>1 DEF vars, PositionFits, HoldingFits
  <2>2. CASE EditMaster \/ UNCHANGED execVars
    BY <2>1, <2>2 DEF EditMaster, execVars
  <2> QED
    BY <2>2, CapPrepare, CapOthers DEF ExecNext
<1> QED  BY <1>1, <1>2, ExecKeepsInv, PTL DEF ExecSpec

\* The step that fills a market buy is its own commit.
LEMMA FilledByCommit ==
  ASSUME ExecInv, [ExecNext]_execVars, NEW c \in Clients,
         order[c].at = "priced", order'[c] = None, shares' # shares
  PROVE  Commit(c)
<1>1. \A d : Raced(d)[c] # None
  BY RacedOK DEF None, ExecInv
<1>2. ASSUME NEW d \in Clients, Prepare(d)
      PROVE  FALSE
  BY <1>2 DEF Prepare, vars
<1>3. ASSUME NEW d \in Clients, Commit(d)
      PROVE  d = c
  <2>1. order' = [Raced(d) EXCEPT ![d] = None]
    BY <1>3 DEF Commit
  <2>2. d # c => order'[c] = Raced(d)[c]
    BY <2>1 DEF Raced
  <2> QED  BY <1>1, <2>2
<1>4. ASSUME NEW d \in Clients, NEW last \in Lasts, NEW day \in Days,
             FillLimit(d, last, day)
      PROVE  FALSE
  <2>1. order[d].at = "resting" /\ d # c
    BY <1>4 DEF FillLimit
  <2>2. order'[c] = Raced(d)[c]
    BY <1>4, <2>1 DEF FillLimit, Raced
  <2> QED  BY <1>1, <2>2
<1>5. ASSUME Corporate \/ ResetAll
      PROVE  FALSE
  <2>1. order'[c] = Raced(NoValue)[c]
    BY <1>5 DEF Corporate, ResetAll
  <2> QED  BY <1>1, <2>1
<1>6. ~EditMaster /\ ~UNCHANGED execVars
  BY DEF EditMaster, execVars, vars
<1> QED
  BY <1>2, <1>3, <1>4, <1>5, <1>6 DEF ExecNext, Fill

\* Only a race breaks a cap on the position: a market buy that no other change
\* of the account overtook between its check and its transaction leaves a
\* holding within the caps (submit.py 284-314), whatever it was filled at.
THEOREM ExecCapHoldsUnlessRaced == ExecSpec => CapHoldsUnlessRaced
<1> DEFINE Keeps ==
      \A c \in Clients :
        LET o == order[c] IN
        /\ o.at = "priced" /\ o.side = "buy" /\ ~o.raced
        /\ order'[c] = None /\ shares' > shares
        => HoldingFits(shares', o.risk)
<1>1. ASSUME ExecInv, CapInv, [ExecNext]_execVars
      PROVE  Keeps
  <2> SUFFICES ASSUME NEW c \in Clients,
                      order[c].at = "priced", order[c].side = "buy",
                      ~order[c].raced, order'[c] = None, shares' > shares
               PROVE  HoldingFits(shares', order[c].risk)
    OBVIOUS
  <2>1. shares' # shares
    BY <1>1, ExecStep DEF ExecInv, Books, TypeOK
  <2>2. Commit(c)
    BY <1>1, <2>1, FilledByCommit
  <2>3. shares' = shares + order[c].qty
    BY <2>2 DEF Commit, Apply, BuyFor
  <2>4. PositionFits(order[c].qty, order[c].risk)
    BY <1>1 DEF CapInv
  <2> QED  BY <2>3, <2>4 DEF PositionFits
<1>2. ExecInv /\ CapInv /\ [ExecNext]_execVars => [Keeps]_execVars
  BY <1>1
<1> QED  BY <1>2, ExecKeepsInv, ExecKeepsCap, PTL DEF ExecSpec, CapHoldsUnlessRaced

-----------------------------------------------------------------------------
(* Round trips *)

\* The larger sum buys the larger whole number of units.
LEMMA DivMonotone ==
  ASSUME NEW a \in Nat, NEW b \in Nat, a <= b, NEW d \in Nat \ {0}
  PROVE  a \div d <= b \div d
<1> DEFINE x == a \div d
           y == b \div d
<1>1. x \in Nat /\ y \in Nat /\ d * x <= a /\ b < d * y + d
  BY DivBounds
<1> HIDE DEF x, y
<1> SUFFICES ASSUME x > y PROVE FALSE
  BY <1>1 DEF x, y
<1>2. x >= y + 1
  BY <1>1
<1>3. d * x >= d * (y + 1)
  BY <1>1, <1>2, SMT
<1>4. d * (y + 1) = d * y + d
  BY <1>1, SMT
<1> QED  BY <1>1, <1>3, <1>4, SMT

\* A sale at a slipped price brings no more than a purchase costs.
LEMMA SlippageIsFair ==
  ASSUME NEW q \in Nat \ {0}, NEW last \in Lasts
  PROVE  Principal(q, Slipped("sell", last)) <= Principal(q, Slipped("buy", last))
<1> DEFINE bps == Most(0, SlippageBps)
           less == Scale - bps
           more == Scale + bps
<1>1. bps \in Nat /\ bps <= Scale
  BY ExecConstants DEF Most
<1>2. less \in Nat /\ more \in Nat /\ less <= more
  BY <1>1, ExecConstants
<1>3. last \in Nat
  BY ExecConstants
<1>4. /\ Slipped("sell", last) = <<last * less, Scale>>
      /\ Slipped("buy", last) = <<last * more, Scale>>
  BY DEF Slipped
<1> HIDE DEF bps, less, more
<1>5. last * less \in Nat /\ last * more \in Nat /\ last * less <= last * more
  BY <1>2, <1>3, SMT
<1> DEFINE got == last * less
           paid == last * more
<1>6. got \in Nat /\ paid \in Nat /\ got <= paid
  BY <1>5
<1>7. /\ Principal(q, Slipped("sell", last)) = (q * got) \div Scale
      /\ Principal(q, Slipped("buy", last)) = (q * paid) \div Scale
  BY <1>4 DEF Principal
<1> HIDE DEF got, paid
<1>8. q * got \in Nat /\ q * paid \in Nat /\ q * got <= q * paid
  BY <1>6, SMT
<1> QED  BY <1>7, <1>8, DivMonotone, ExecConstants

\* An order on its way to its transaction has the principal of the price that
\* its client got from the quote and the tick it carries.
PricedAsQuoted ==
  \A c \in Clients :
    LET o == order[c] IN
    o.at = "priced" =>
      o.principal = Principal(o.qty,
        PriceFor(c, o.side, o.qty, o.last, o.quote, o.tick))

\* What the others do to an order in flight leaves its price alone.
LEMMA KeepsItsPrice ==
  ASSUME OrdersOK, PricedAsQuoted, NEW d, NEW c \in Clients,
         NEW o, o \in {order[c], Raced(d)[c]}, o.at = "priced"
  PROVE  o.principal = Principal(o.qty,
              PriceFor(c, o.side, o.qty, o.last, o.quote, o.tick))
<1>1. order[c].at = "priced"
  BY RacedOK
<1>2. order[c] \in Priced
  BY <1>1 DEF OrdersOK, OrderOK, None, Checked, Resting
<1>3. o = order[c] \/ o = [order[c] EXCEPT !.raced = TRUE]
  BY DEF Raced
<1>4. /\ o.qty = order[c].qty /\ o.principal = order[c].principal
      /\ o.side = order[c].side /\ o.last = order[c].last
      /\ o.quote = order[c].quote /\ o.tick = order[c].tick
  BY <1>2, <1>3 DEF Priced
<1> QED  BY <1>1, <1>4 DEF PricedAsQuoted

\* Only Price makes an order priced.
LEMMA PricedStep ==
  ASSUME ExecInv, PricedAsQuoted, [ExecNext]_execVars
  PROVE  PricedAsQuoted'
<1> SUFFICES ASSUME NEW c \in Clients, order'[c].at = "priced"
             PROVE  LET o == order'[c] IN
                    o.principal = Principal(o.qty,
                         PriceFor(c, o.side, o.qty, o.last, o.quote, o.tick))
  BY DEF PricedAsQuoted, PriceFor
<1>1. CASE \E d : order'[c] \in {order[c], Raced(d)[c]}
  BY <1>1, KeepsItsPrice DEF ExecInv
<1>2. ASSUME NEW last \in Lasts, NEW m \in Quotes \cup {Down}, NEW day \in Days,
             Price(c, last, m, day)
      PROVE  LET o == order'[c] IN
             o.principal = Principal(o.qty,
                  PriceFor(c, o.side, o.qty, o.last, o.quote, o.tick))
  <2> DEFINE was == order[c]
             p == PriceFor(c, was.side, was.qty, last, m, Rules.tick)
  <2>1. was.at = "checked"
    BY <1>2 DEF Price
  <2>2. was \in Checked
    BY <2>1 DEF ExecInv, OrdersOK, OrderOK, None, Priced, Resting
  <2>3. /\ order'[c].qty = was.qty /\ order'[c].side = was.side
        /\ order'[c].last = last /\ order'[c].quote = m
        /\ order'[c].tick = Rules.tick
        /\ order'[c].principal = Principal(was.qty, p)
    BY <1>2 DEF Price, ExecInv, OrdersOK
  <2> QED  BY <2>2, <2>3 DEF Checked
<1>3. ASSUME NEW r \in Requests[c], NEW risk, Submit(c, r, risk)
      PROVE  FALSE
  BY <1>3 DEF Submit, ExecInv, OrdersOK
<1>4. ASSUME order'[c] = None
      PROVE  FALSE
  BY <1>4 DEF None
<1>5. ASSUME NEW d \in Clients, Prepare(d), d # c
      PROVE  order'[c] = order[c]
  BY <1>5 DEF Prepare, Submit, Price, NoFillQuote, Refused, Cancel, ExecInv, OrdersOK
<1>6. ASSUME Prepare(c), ~\E last \in Lasts, m \in Quotes \cup {Down}, day \in Days :
                            Price(c, last, m, day)
      PROVE  FALSE
  <2>1. NoFillQuote(c) \/ Refused(c) \/ Cancel(c)
    BY <1>3, <1>6 DEF Prepare
  <2>2. order'[c] = None
    BY <2>1 DEF NoFillQuote, Refused, Cancel, ExecInv, OrdersOK
  <2> QED  BY <1>4, <2>2
<1>7. ASSUME NEW d \in Clients, Fill(d)
      PROVE  order'[c] = Raced(d)[c]
  <2>1. CASE Commit(d)
    BY <1>4, <2>1 DEF Commit, Raced
  <2>2. ASSUME NEW last \in Lasts, NEW day \in Days, FillLimit(d, last, day)
        PROVE  order'[c] = Raced(d)[c]
    <3> DEFINE q == FillQty(order[d].qty - order[d].filled)
               more == [order[d] EXCEPT !.filled = @ + q]
    <3>1. /\ order[d].at = "resting"
          /\ \/ order' = [Raced(d) EXCEPT ![d] = None]
             \/ order' = [Raced(d) EXCEPT ![d] = more]
      BY <2>2 DEF FillLimit
    <3>2. order[d] \in Resting
      BY <3>1 DEF ExecInv, OrdersOK, OrderOK, None, Checked, Priced
    <3>3. more.at = "resting"
      <4> HIDE DEF q
      <4> QED  BY <3>2 DEF Resting
    <3> HIDE DEF more
    <3>4. c # d
      BY <1>4, <3>1, <3>3 DEF Raced
    <3> QED  BY <3>1, <3>4 DEF Raced
  <2> QED  BY <1>7, <2>1, <2>2 DEF Fill
<1>8. ASSUME Corporate \/ ResetAll
      PROVE  order'[c] = Raced(NoValue)[c]
  BY <1>4, <1>8 DEF Corporate, ResetAll
<1>9. ASSUME EditMaster \/ UNCHANGED execVars
      PROVE  order'[c] = order[c]
  BY <1>9 DEF EditMaster, execVars
<1> QED
  BY <1>1, <1>2, <1>5, <1>6, <1>7, <1>8, <1>9 DEF ExecNext

\* No quote is a money pump (slippage.py 105-110): a market order that is
\* undone at the quote and the tick it was priced with never pays, whatever
\* the master, the feed and the other clients did meanwhile.  Slippage and
\* synthetic books need no assumption, real depth that it is not crossed.
THEOREM ExecNoFreeRoundTrip ==
  ASSUME Uncrossed
  PROVE  ExecSpec => []NoFreeRoundTrip
<1>1. ExecInit => PricedAsQuoted
  BY DEF ExecInit, PricedAsQuoted, None
<1>2. ExecSpec => [](ExecInv /\ PricedAsQuoted)
  BY <1>1, PricedStep, ExecKeepsInv, PTL DEF ExecSpec
<1>3. ASSUME ExecInv, PricedAsQuoted, NEW c \in Clients, order[c].at = "priced"
      PROVE  LET o == order[c] IN
             Principal(o.qty, PriceFor(c, "sell", o.qty, o.last, o.quote, o.tick))
               <= Principal(o.qty, PriceFor(c, "buy", o.qty, o.last, o.quote, o.tick))
  <2>1. order[c] \in Priced
    BY <1>3 DEF ExecInv, OrdersOK, OrderOK, None, Checked, Resting
  <2>2. /\ order[c].qty \in Nat \ {0} /\ order[c].last \in Lasts
        /\ order[c].quote \in Quotes \cup {Down} /\ order[c].tick \in Ticks
    BY <2>1 DEF Priced
  <2>3. CASE c \in BookClients
    BY <2>2, <2>3, BooksFair DEF PriceFor
  <2>4. CASE c \notin BookClients
    BY <2>2, <2>4, SlippageIsFair DEF PriceFor
  <2> QED  BY <2>3, <2>4
<1>4. ExecInv /\ PricedAsQuoted => NoFreeRoundTrip
  BY <1>3 DEF NoFreeRoundTrip, PricedAsQuoted
<1> QED  BY <1>2, <1>4, PTL

-----------------------------------------------------------------------------
(* The best execution *)

\* The walk is the best of all ways to split an order over the levels of its
\* book (book.py 229-283), real, synthetic or mixed, at any depth, if real depth
\* comes best first: what else could be taken instead of a share of the walk is
\* no better than the last level the walk reaches, and that share no worse.
THEOREM ExecWalkIsBest ==
  ASSUME BestFirst
  PROVE  ExecSpec => []WalkIsBest
<1>1. ExecInit => PricedAsQuoted
  BY DEF ExecInit, PricedAsQuoted, None
<1>2. ExecSpec => [](ExecInv /\ PricedAsQuoted)
  BY <1>1, PricedStep, ExecKeepsInv, PTL DEF ExecSpec
<1>3. ASSUME ExecInv, PricedAsQuoted, NEW c \in BookClients,
             order[c].at = "priced", order[c].quote # Down,
             order[c].quote.bid # NoValue, order[c].quote.ask # NoValue,
             NEW levels,
             levels = SideOf(order[c].side,
                             BookOf(order[c].last, order[c].quote, order[c].tick)),
             NEW f \in Splits(levels, order[c].qty)
      PROVE  /\ \E g \in Splits(levels, order[c].qty) :
                  order[c].principal = Cost(levels, g)
             /\ Away(order[c].side, order[c].principal, Cost(levels, f))
  <2> DEFINE o == order[c]
             q == order[c].qty
             take == Take(levels, q)
             spent == Cost(levels, take)
  <2>1. c \in Clients
    BY ExecutionAssumption DEF ExecutionAssumption
  <2>2. o \in Priced
    BY <1>3, <2>1 DEF ExecInv, OrdersOK, OrderOK, None, Checked, Resting
  <2>3. /\ q \in Nat \ {0} /\ o.side \in Sides /\ o.last \in Lasts
        /\ o.quote \in Quotes /\ o.tick \in Ticks
    BY <1>3, <2>2 DEF Priced
  <2>4. Priceable(levels) /\ Sorted(o.side, levels)
    BY <1>3, <2>3, BookFacts
  <2>5. levels \in Seq(Level)
    BY <2>4 DEF Priceable
  <2>6. /\ f \in [DOMAIN levels -> 0..q] /\ SumFunction(f) = q
        /\ \A i \in DOMAIN levels : f[i] <= levels[i].size
    BY DEF Splits
  <2>7. f \in [DOMAIN levels -> Nat]
    BY <2>6
  <2>8. SumFunction(take) = q /\ Away(o.side, spent, Cost(levels, f))
    BY <2>3, <2>4, <2>5, <2>6, <2>7, WalkBeats
  <2>9. take \in Splits(levels, q)
    BY <2>3, <2>5, <2>8, TakeFacts DEF Splits
  <2>10. o.principal = spent
    <3>1. o.principal = Principal(q, Average(levels, q, o.last))
      BY <1>3, <2>1, BookAverages DEF PricedAsQuoted, PriceFor
    <3>2. Average(levels, q, o.last) = <<spent, q>>
      BY <2>3, <2>8 DEF Average, Walk
    <3>3. spent \in Int
      <4>1. take \in [DOMAIN levels -> Nat]
        BY <2>9 DEF Splits
      <4> HIDE DEF take
      <4> QED  BY <2>5, <4>1, CostBounds
    <3> HIDE DEF spent
    <3>4. o.principal = (q * spent) \div q
      BY <3>1, <3>2 DEF Principal
    <3> HIDE DEF q, o
    <3>5. (q * spent) \div q = spent
      BY <2>3, <3>3, SMT
    <3> QED  BY <3>4, <3>5
  <2> QED  BY <2>8, <2>9, <2>10
<1>4. ExecInv /\ PricedAsQuoted => WalkIsBest
  <2> SUFFICES ASSUME ExecInv, PricedAsQuoted, NEW c \in BookClients,
                      order[c].at = "priced", order[c].quote # Down,
                      order[c].quote.bid # NoValue, order[c].quote.ask # NoValue,
                      NEW levels,
                      levels = SideOf(order[c].side, BookOf(order[c].last,
                                        order[c].quote, order[c].tick)),
                      NEW f \in Splits(levels, order[c].qty)
               PROVE  LET o == order[c]
                          costs == {Cost(levels, g) : g \in Splits(levels, o.qty)}
                      IN  /\ o.principal \in costs
                          /\ \A x \in costs : IF o.side = "buy" THEN o.principal <= x
                                                                ELSE o.principal >= x
    BY DEF WalkIsBest
  <2> QED  BY <1>3 DEF Away
<1> QED  BY <1>2, <1>4, PTL

=============================================================================
