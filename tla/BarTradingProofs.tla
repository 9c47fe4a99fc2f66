-------------------------- MODULE BarTradingProofs --------------------------
(***************************************************************************)
(* One position and its trailing stop, and what the live strategy and the  *)
(* backtest make of it, for every scale of prices, every trailing          *)
(* configuration and every length of a day: the stop never loosens, the    *)
(* backtest fills at prices the market has had, and, where a closed bar is *)
(* handled before the next one begins, the live position is the backtest's *)
(* seen with the close of the bar of its entry (AsLive), and both sides    *)
(* end a trade alike but for what follows from that close.  The market may *)
(* open a bar anywhere, and leave bars out.                                *)
(***************************************************************************)
EXTENDS BarTrading, Sums, SequenceTheorems

Directions == {"BUY", "SELL"}

Positions == [direction : Directions, entry : Int, stop : Int, take : Int, r : Int,
              stage : Int, mfe : Int, entryBar : Nat, entryClose : Int,
              atClose : BOOLEAN, openCodes : SUBSET Warnings]

\* p and q differ in the best price they have seen at most.
Same(p, q) ==
    /\ p.direction = q.direction /\ p.entry = q.entry /\ p.stop = q.stop
    /\ p.take = q.take /\ p.r = q.r /\ p.stage = q.stage /\ p.entryBar = q.entryBar
    /\ p.entryClose = q.entryClose /\ p.atClose = q.atClose /\ p.openCodes = q.openCodes

\* p and q were opened alike and may have been trailed since.
SameOrigin(p, q) ==
    /\ p.direction = q.direction /\ p.entry = q.entry /\ p.take = q.take /\ p.r = q.r
    /\ p.entryBar = q.entryBar /\ p.entryClose = q.entryClose
    /\ p.atClose = q.atClose /\ p.openCodes = q.openCodes

-----------------------------------------------------------------------------
(* Better and worse                                                        *)

\* The better and the worse of two prices.
LEMMA BestIs ==
    ASSUME NEW d, NEW x \in Int, NEW y \in Int
    PROVE  /\ BestOf(d, x, y) \in {x, y} /\ WorstOf(d, x, y) \in {x, y}
           /\ NotWorse(d, BestOf(d, x, y), x) /\ NotWorse(d, BestOf(d, x, y), y)
           /\ ~Better(d, WorstOf(d, x, y), x) /\ ~Better(d, WorstOf(d, x, y), y)
BY DEF BestOf, WorstOf, Better, NotWorse

\* Prices are ordered by what a position gains.
LEMMA Order ==
    ASSUME NEW d, NEW x \in Int, NEW y \in Int, NEW z \in Int
    PROVE  /\ NotWorse(d, x, x)
           /\ NotWorse(d, x, y) /\ NotWorse(d, y, z) => NotWorse(d, x, z)
           /\ NotWorse(d, x, y) <=> ~Better(d, y, x)
BY DEF Better, NotWorse

\* The best price so far, by way of a third one.
LEMMA BestOfThree ==
    ASSUME NEW d, NEW x \in Int, NEW y \in Int, NEW z \in Int
    PROVE  /\ NotWorse(d, z, y) => BestOf(d, z, BestOf(d, y, x)) = BestOf(d, z, x)
           /\ BestOf(d, x, BestOf(d, x, y)) = BestOf(d, x, y)
BY DEF BestOf, Better, NotWorse

\* A price in between is no better than the better end.
LEMMA UpdateMFEIs ==
    ASSUME NEW p \in Positions, NEW x \in Int
    PROVE  /\ UpdateMFE(p, x) \in Positions /\ Same(UpdateMFE(p, x), p)
           /\ UpdateMFE(p, x).mfe = BestOf(p.direction, x, p.mfe)
           /\ UpdateMFE(p, x) # NoPosition
<1>1. p.mfe \in Int
  BY DEF Positions
<1>2. BestOf(p.direction, x, p.mfe) \in Int
  BY <1>1, BestIs
<1>3. UpdateMFE(p, x) = [p EXCEPT !.mfe = BestOf(p.direction, x, p.mfe)]
  BY DEF UpdateMFE
<1>4. UpdateMFE(p, x) \in Positions
  BY <1>2, <1>3 DEF Positions
<1>. QED
  BY <1>3, <1>4 DEF Positions, Same, NoPosition, Directions

\* Positions with the same fields are the same position.
LEMMA SameValue ==
    ASSUME NEW p \in Positions, NEW q \in Positions, Same(p, q), p.mfe = q.mfe
    PROVE  p = q
BY DEF Positions, Same

-----------------------------------------------------------------------------
(* The trail                                                               *)

\* A stop moves towards the gain or stays.
LEMMA MoveSLIs ==
    ASSUME NEW p \in Positions, NEW x \in Int
    PROVE  /\ MoveSL(p, x) \in Positions
           /\ SameOrigin(MoveSL(p, x), p) /\ MoveSL(p, x).mfe = p.mfe
           /\ NotWorse(p.direction, MoveSL(p, x).stop, p.stop)
<1>1. p.stop \in Int
  BY DEF Positions
<1>2. BestOf(p.direction, x, p.stop) \in Int
      /\ NotWorse(p.direction, BestOf(p.direction, x, p.stop), p.stop)
  BY <1>1, BestIs
<1>3. MoveSL(p, x) = [p EXCEPT !.stop = BestOf(p.direction, x, p.stop)]
  BY DEF MoveSL
<1>. QED
  BY <1>2, <1>3 DEF Positions, SameOrigin

\* Multiples of R are whole prices.
LEMMA InPriceType ==
    ASSUME NEW p \in Positions, NEW n \in Int
    PROVE  InPrice(n, p) \in Int
<1>1. p.r \in Int /\ PartsOfR \in Nat /\ PartsOfR > 0
  BY PositionAssumption DEF Positions
<1>2. n * p.r \in Int
  BY <1>1
<1>. QED
  BY <1>1, <1>2 DEF InPrice

\* q may be what trailing has made of p.
Trailed(q, p) ==
    /\ q \in Positions /\ SameOrigin(q, p) /\ q.mfe = p.mfe
    /\ NotWorse(p.direction, q.stop, p.stop)

\* Trailing twice is trailing.
LEMMA TrailedTwice ==
    ASSUME NEW p \in Positions, NEW q \in Positions, NEW o \in Positions,
           Trailed(q, p), Trailed(o, q)
    PROVE  Trailed(o, p)
<1>1. p.stop \in Int /\ q.stop \in Int /\ o.stop \in Int
  BY DEF Positions
<1>2. p.direction = q.direction
  BY DEF Trailed, SameOrigin
<1>3. NotWorse(p.direction, o.stop, p.stop)
  BY <1>1, <1>2, Order DEF Trailed
<1>. QED
  BY <1>3 DEF Trailed, SameOrigin

\* One stage.
LEMMA EnterStageIs ==
    ASSUME NEW p \in Positions, NEW n \in Int, NEW x
    PROVE  Trailed(EnterStage(p, n, x), p)
<1>1. Trailed(p, p)
  BY Order DEF Trailed, SameOrigin, NotWorse
<1>. DEFINE sl == IF n = 1 THEN BreakevenSL(p) ELSE LockSL(p, ActivationR + (n - 2) * DiscreteStepR)
            moved == MoveSL(p, sl)
<1>2. sl \in Int
  <2>1. p.entry \in Int /\ BreakevenR \in Nat /\ BreakevenOffset \in Nat
        /\ ActivationR \in Int /\ DiscreteStepR \in Int
    BY PositionAssumption DEF Positions
  <2>2. ActivationR + (n - 2) * DiscreteStepR \in Int
    BY <2>1
  <2>3. InPrice(BreakevenR, p) \in Int /\ InPrice(ActivationR + (n - 2) * DiscreteStepR, p) \in Int
    BY <2>1, <2>2, InPriceType
  <2>. QED
    BY <2>1, <2>3 DEF BreakevenSL, LockSL, Toward
<1>3. Trailed(moved, p)
  <2>. HIDE DEF sl
  <2>. QED
    BY <1>2, MoveSLIs DEF Trailed
<1>4. Trailed([moved EXCEPT !.stage = n], p)
  <2>. HIDE DEF moved
  <2>. QED
    BY <1>3 DEF Trailed, SameOrigin, Positions
<1>5. EnterStage(p, n, x) \in {p, [moved EXCEPT !.stage = n]}
  BY DEF EnterStage
<1>. QED
  BY <1>1, <1>4, <1>5

\* upTo is the function from which EnterStages takes its answer.
Stages(p, x, upTo) ==
    upTo = [stage \in 0..StageMax |->
               IF stage = 0 THEN p ELSE EnterStage(upTo[stage - 1], stage, x)]

\* EnterStages, its definition expanded.
LEMMA EnterStagesIs ==
    ASSUME NEW p, NEW x
    PROVE  EnterStages(p, x) = (CHOOSE upTo : Stages(p, x, upTo))[StageMax]
BY DEF EnterStages, Stages

\* The stages can be entered one after the other.
LEMMA StagesExist ==
    ASSUME NEW p \in Positions, NEW x
    PROVE  \E upTo : Stages(p, x, upTo)
<1>. DEFINE Fits(n, f) == \A k \in 0..n :
                f[k] = IF k = 0 THEN p ELSE EnterStage(f[k - 1], k, x)
            T == {n \in Nat : \E f : Fits(n, f)}
<1>1. 0 \in T
  <2>1. Fits(0, [k \in 0..0 |-> p])
    OBVIOUS
  <2>. QED
    BY <2>1
<1>2. ASSUME NEW n \in T PROVE n + 1 \in T
  <2>1. PICK f : Fits(n, f)
    OBVIOUS
  <2>. DEFINE g == [k \in 0..(n + 1) |-> IF k = n + 1 THEN EnterStage(f[n], n + 1, x) ELSE f[k]]
  <2>2. n \in Nat
    OBVIOUS
  <2>3. /\ g[n + 1] = EnterStage(f[n], n + 1, x) /\ \A k \in 0..n : g[k] = f[k]
    BY <2>2
  <2>4. ASSUME NEW k \in 0..(n + 1)
        PROVE  g[k] = IF k = 0 THEN p ELSE EnterStage(g[k - 1], k, x)
    <3>. HIDE DEF g
    <3>1. CASE k = n + 1
      <4>1. k # 0 /\ k - 1 = n /\ n \in 0..n
        BY <2>2, <3>1
      <4>. QED
        BY <2>3, <3>1, <4>1
    <3>2. CASE k \in 0..n
      <4>1. k # 0 => k - 1 \in 0..n
        BY <2>2, <3>2
      <4>. QED
        BY <2>1, <2>3, <3>2, <4>1
    <3>. QED
      BY <2>2, <3>1, <3>2
  <2>5. Fits(n + 1, g)
    BY <2>4
  <2>6. \E h : Fits(n + 1, h)
    <3>. HIDE DEF g, Fits
    <3>. QED
      BY <2>5
  <2>7. n + 1 \in Nat
    BY <2>2
  <2>. QED
    BY <2>6, <2>7
<1>3. T = Nat
  <2>. HIDE DEF T
  <2>1. T \in SUBSET Nat
    BY DEF T
  <2>. QED
    BY <1>1, <1>2, <2>1, NaturalInduction
<1>4. StageMax \in Nat
  BY PositionAssumption
<1>5. PICK f : Fits(StageMax, f)
  BY <1>3, <1>4
<1>. DEFINE upTo == [k \in 0..StageMax |-> f[k]]
<1>6. \A k \in 0..StageMax : k # 0 => k - 1 \in 0..StageMax
  BY <1>4
<1>7. \A k \in 0..StageMax : upTo[k] = f[k]
  OBVIOUS
<1>8. \A k \in 0..StageMax :
         f[k] = IF k = 0 THEN p ELSE EnterStage(upTo[k - 1], k, x)
  <2>. HIDE DEF upTo
  <2>. QED
    BY <1>5, <1>6, <1>7
<1>9. Stages(p, x, upTo)
  BY <1>8 DEF Stages
<1>. QED
  BY <1>9

\* All stages.
LEMMA EnterStagesTrails ==
    ASSUME NEW p \in Positions, NEW x
    PROVE  Trailed(EnterStages(p, x), p)
<1>1. PICK upTo : Stages(p, x, upTo) /\ EnterStages(p, x) = upTo[StageMax]
  <2>1. Stages(p, x, CHOOSE upTo : Stages(p, x, upTo))
    BY StagesExist
  <2>. QED
    BY <2>1, EnterStagesIs
<1>. DEFINE T == {n \in Nat : n <= StageMax => Trailed(upTo[n], p)}
<1>2. StageMax \in Nat
  BY PositionAssumption
<1>3. \A n \in 0..StageMax :
         upTo[n] = IF n = 0 THEN p ELSE EnterStage(upTo[n - 1], n, x)
  BY <1>1 DEF Stages
<1>4. 0 \in T
  <2>1. upTo[0] = p
    BY <1>2, <1>3
  <2>. QED
    BY <2>1, Order DEF Trailed, SameOrigin, NotWorse
<1>5. ASSUME NEW n \in T PROVE n + 1 \in T
  <2>. SUFFICES ASSUME n + 1 <= StageMax PROVE Trailed(upTo[n + 1], p)
    OBVIOUS
  <2>1. n \in Nat /\ n <= StageMax /\ n + 1 \in 0..StageMax /\ n + 1 # 0 /\ (n + 1) - 1 = n
    BY <1>2
  <2>2. upTo[n + 1] = EnterStage(upTo[n], n + 1, x)
    BY <1>3, <2>1
  <2>3. Trailed(upTo[n], p)
    BY <2>1
  <2>4. upTo[n] \in Positions
    BY <2>3 DEF Trailed
  <2>5. Trailed(upTo[n + 1], upTo[n])
    BY <2>1, <2>2, <2>4, EnterStageIs
  <2>6. upTo[n + 1] \in Positions
    BY <2>5 DEF Trailed
  <2>. QED
    BY <2>3, <2>4, <2>5, <2>6, TrailedTwice
<1>6. T = Nat
  <2>. HIDE DEF T
  <2>1. T \in SUBSET Nat
    BY DEF T
  <2>. QED
    BY <1>4, <1>5, <2>1, NaturalInduction
<1>7. StageMax \in T
  BY <1>2, <1>6
<1>. QED
  BY <1>1, <1>2, <1>7

\* Apply moves the stop towards the gain, and the stage, and nothing else.
LEMMA ApplyTrails ==
    ASSUME NEW p \in Positions, NEW x
    PROVE  Trailed(Apply(p, x), p) /\ Apply(p, x) # NoPosition
<1>1. Trailed(p, p)
  BY Order DEF Trailed, SameOrigin, NotWorse
<1>2. Trailed(EnterStages(p, x), p)
  BY EnterStagesTrails
<1>. DEFINE entered == EnterStages(p, x)
<1>3. entered \in Positions
  BY <1>2 DEF Trailed
<1>4. Trailed(ContinuousSL(entered), p)
  <2>. HIDE DEF entered
  <2>1. entered.mfe \in Int /\ entered.r \in Int
    BY <1>3 DEF Positions
  <2>2. Toward(entered.direction, entered.mfe, -entered.r) \in Int
    BY <2>1 DEF Toward
  <2>3. Trailed(ContinuousSL(entered), entered)
    BY <1>3, <2>2, MoveSLIs DEF Trailed, ContinuousSL
  <2>4. ContinuousSL(entered) \in Positions
    BY <2>3 DEF Trailed
  <2>. QED
    BY <1>2, <1>3, <2>3, <2>4, TrailedTwice DEF entered
<1>5. Apply(p, x) \in {p, entered, ContinuousSL(entered)}
  BY DEF Apply
<1>6. Trailed(Apply(p, x), p)
  <2>. HIDE DEF entered
  <2>. QED
    BY <1>1, <1>2, <1>4, <1>5 DEF entered
<1>7. \A q \in Positions : q # NoPosition
  BY DEF Positions, NoPosition, Directions
<1>. QED
  BY <1>6, <1>7 DEF Trailed

-----------------------------------------------------------------------------
(* The two sides                                                           *)

Bars == {b \in [time : Nat, open : Prices, high : Prices, low : Prices, close : Prices] :
            b.low <= b.open /\ b.open <= b.high /\ b.low <= b.close /\ b.close <= b.high}

Reasons == {"STOP_LOSS", "TAKE_PROFIT", "EOD"}

Trades == [entryBar : Int, entryClose : Int, direction : Directions, r : Int,
           reason : Reasons, price : Int, stop : Int, stage : Int,
           audit : [codes : SUBSET (Warnings \cup Remarks), severity : {"warn", "info", ""}]]

Sides == [pos : Positions \cup {NoPosition}, trades : Seq(Trades)]

\* What is stored of a position that ends.
TradeOf(p, reason, exit, sameBar) ==
    [entryBar |-> p.entryBar, entryClose |-> p.entryClose, direction |-> p.direction,
     r |-> p.r, reason |-> reason, price |-> exit, stop |-> p.stop, stage |-> p.stage,
     audit |-> AnnotateTrade(p, reason, exit, sameBar)]

\* Side s has ended its position as c, with a trade.
Ended(c, s, trade) ==
    /\ c = [pos |-> NoPosition, trades |-> Append(s.trades, trade)]
    /\ trade \in Trades
    /\ c \in Sides

\* Side s holds p as c.
Holds(c, s, p) == c \in Sides /\ p \in Positions /\ c.pos = p /\ c.trades = s.trades /\ HasPos(c)

\* A side that has ended its position has none, and one more trade.
LEMMA EndedIs ==
    ASSUME NEW c, NEW s, NEW trade, Ended(c, s, trade)
    PROVE  /\ c \in Sides /\ ~HasPos(c) /\ c.pos = NoPosition
           /\ trade \in Trades /\ c.trades = Append(s.trades, trade)
BY DEF Ended, HasPos

\* A side that has a position has one of the type.
LEMMA HasPosIs ==
    ASSUME NEW s \in Sides
    PROVE  /\ HasPos(s) => s.pos \in Positions
           /\ s.trades \in Seq(Trades)
           /\ ~HasPos(s) => s.pos = NoPosition
           /\ \A p \in Positions : p # NoPosition
BY DEF Sides, HasPos, Positions, NoPosition, Directions

\* A bar has whole prices between its low and its high.
LEMMA BarIs ==
    ASSUME NEW b \in Bars
    PROVE  /\ b.time \in Nat /\ b.open \in Int /\ b.high \in Int /\ b.low \in Int /\ b.close \in Int
           /\ b.low > 0
           /\ b.low <= b.open /\ b.open <= b.high /\ b.low <= b.close /\ b.close <= b.high
<1>1. Prices \subseteq Int /\ \A x \in Prices : x > 0
  BY BarTradingAssumption DEF Prices
<1>. QED
  BY <1>1 DEF Bars

\* An exit has a reason, and fills at a price.
LEMMA ExitIs ==
    ASSUME NEW p \in Positions, NEW x \in Int, NEW reason
    PROVE  /\ CheckExit(p, x) \in {"STOP_LOSS", "TAKE_PROFIT", ""}
           /\ ExitFillPrice(p, reason, x) \in {p.stop, p.take, x}
           /\ ExitFillPrice(p, reason, x) \in Int
           /\ ExitFillPriceAt(p, reason, x) \in Int
<1>1. p.stop \in Int /\ p.take \in Int
  BY DEF Positions
<1>2. CheckExit(p, x) \in {"STOP_LOSS", "TAKE_PROFIT", ""}
  BY DEF CheckExit
<1>3. ExitFillPrice(p, reason, x) \in {p.stop, p.take, x}
  BY DEF ExitFillPrice
<1>4. ExitFillPrice(p, reason, x) \in Int
  BY <1>1, <1>3
<1>5. ExitFillPriceAt(p, reason, x) \in Int
  BY <1>4, BestIs DEF ExitFillPriceAt
<1>. QED
  BY <1>2, <1>3, <1>4, <1>5

\* The best price seen plays no part in an exit, nor in what is stored of it.
LEMMA ExitSame ==
    ASSUME NEW p \in Positions, NEW q \in Positions, Same(p, q),
           NEW x, NEW reason, NEW sameBar
    PROVE  /\ CheckExit(p, x) = CheckExit(q, x)
           /\ ExitFillPrice(p, reason, x) = ExitFillPrice(q, reason, x)
           /\ ExitFillPriceAt(p, reason, x) = ExitFillPriceAt(q, reason, x)
           /\ TradeOf(p, reason, x, sameBar) = TradeOf(q, reason, x, sameBar)
<1>1. CheckExit(p, x) = CheckExit(q, x)
  BY DEF Same, CheckExit
<1>2. \A y : ExitFillPrice(p, reason, y) = ExitFillPrice(q, reason, y)
  BY DEF Same, ExitFillPrice
<1>3. ExitFillPriceAt(p, reason, x) = ExitFillPriceAt(q, reason, x)
  BY <1>2 DEF Same, ExitFillPriceAt
<1>4. ValidateClose(p, reason, x, sameBar) = ValidateClose(q, reason, x, sameBar)
  BY DEF Same, ValidateClose, FillDrifts, TrailDead
<1>5. AnnotateTrade(p, reason, x, sameBar) = AnnotateTrade(q, reason, x, sameBar)
  BY <1>4 DEF Same, AnnotateTrade
<1>. QED
  BY <1>1, <1>2, <1>3, <1>5 DEF Same, TradeOf

\* What is stored does not depend on it either.
LEMMA TradeSame ==
    ASSUME NEW p \in Positions, NEW q \in Positions, Same(p, q)
    PROVE  \A reason, x : TradeOf(p, reason, x, FALSE) = TradeOf(q, reason, x, FALSE)
<1>1. \A reason, x : ValidateClose(p, reason, x, FALSE) = ValidateClose(q, reason, x, FALSE)
  BY DEF Same, ValidateClose, FillDrifts, TrailDead
<1>2. \A reason, x : AnnotateTrade(p, reason, x, FALSE) = AnnotateTrade(q, reason, x, FALSE)
  BY <1>1 DEF Same, AnnotateTrade
<1>. QED
  BY <1>2 DEF Same, TradeOf

\* A trade has the type of trades.
LEMMA TradeOfType ==
    ASSUME NEW p \in Positions, NEW reason \in Reasons, NEW exit \in Int, NEW sameBar
    PROVE  TradeOf(p, reason, exit, sameBar) \in Trades
<1>1. ValidateClose(p, reason, exit, sameBar) \subseteq Warnings \cup Remarks
  BY DEF ValidateClose, Warnings, Remarks
<1>2. p.openCodes \subseteq Warnings
  BY DEF Positions
<1>3. AnnotateTrade(p, reason, exit, sameBar)
        \in [codes : SUBSET (Warnings \cup Remarks), severity : {"warn", "info", ""}]
  BY <1>1, <1>2 DEF AnnotateTrade
<1>4. p.entryBar \in Int
  BY DEF Positions
<1>. QED
  BY <1>3, <1>4 DEF TradeOf, Trades, Positions

\* A side closes its position.
LEMMA ClosedTradeIs ==
    ASSUME NEW s \in Sides, HasPos(s), NEW reason \in Reasons, NEW exit \in Int, NEW sameBar
    PROVE  Ended(ClosedTrade(s, reason, exit, sameBar), s, TradeOf(s.pos, reason, exit, sameBar))
<1>1. TradeOf(s.pos, reason, exit, sameBar) \in Trades /\ s.trades \in Seq(Trades)
  BY HasPosIs, TradeOfType
<1>2. Append(s.trades, TradeOf(s.pos, reason, exit, sameBar)) \in Seq(Trades)
  BY <1>1
<1>. QED
  BY <1>1, <1>2 DEF Ended, ClosedTrade, TradeOf, Sides

\* A side goes on with another value of its position.
LEMMA HoldsIs ==
    ASSUME NEW s \in Sides, NEW p \in Positions
    PROVE  Holds([s EXCEPT !.pos = p], s, p)
<1>1. [s EXCEPT !.pos = p] \in Sides
  BY DEF Sides
<1>2. [s EXCEPT !.pos = p].pos = p /\ [s EXCEPT !.pos = p].trades = s.trades
  BY DEF Sides
<1>3. p # NoPosition
  BY DEF Positions, NoPosition, Directions
<1>. QED
  BY <1>1, <1>2, <1>3 DEF Holds, HasPos

\* Live, at a price: nothing to do, nothing hit, or the end of the position.
LEMMA CheckSLTPIs ==
    ASSUME NEW s \in Sides, NEW x \in Int
    PROVE  LET c == CheckSLTP(s, x)
               reason == CheckExit(s.pos, x)
           IN /\ c \in Sides
              /\ ~HasPos(s) => c = s
              /\ HasPos(s) /\ reason = "" => Holds(c, s, UpdateMFE(s.pos, x))
              /\ HasPos(s) /\ reason # "" =>
                    Ended(c, s, TradeOf(s.pos, reason, ExitFillPriceAt(s.pos, reason, x), FALSE))
<1>1. CASE ~HasPos(s)
  BY <1>1 DEF CheckSLTP
<1>2. CASE HasPos(s)
  <2>1. s.pos \in Positions
    BY <1>2, HasPosIs
  <2>. DEFINE p == UpdateMFE(s.pos, x)
              reason == CheckExit(s.pos, x)
              exit == ExitFillPriceAt(s.pos, reason, x)
  <2>2. p \in Positions /\ Same(p, s.pos)
    BY <2>1, UpdateMFEIs
  <2>3. CheckExit(p, x) = reason /\ ExitFillPriceAt(p, reason, x) = exit
    BY <2>1, <2>2, ExitSame
  <2>4. CheckSLTP(s, x) = IF reason = "" THEN [s EXCEPT !.pos = p] ELSE Closed(s, reason, exit)
    BY <1>2, <2>3 DEF CheckSLTP
  <2>5. CASE reason = ""
    <3>1. Holds([s EXCEPT !.pos = p], s, p)
      BY <2>2, HoldsIs
    <3>. QED
      BY <1>2, <2>4, <2>5, <3>1 DEF Holds
  <2>6. CASE reason # ""
    <3>1. reason \in Reasons /\ exit \in Int
      BY <2>1, <2>6, ExitIs DEF Reasons
    <3>2. Ended(Closed(s, reason, exit), s, TradeOf(s.pos, reason, exit, FALSE))
      BY <1>2, <3>1, ClosedTradeIs DEF Closed
    <3>. QED
      BY <1>2, <2>4, <2>6, <3>2 DEF Ended
  <2>. QED
    BY <2>5, <2>6
<1>. QED
  BY <1>1, <1>2

\* EOD closes, or leaves alone.
LEMMA CheckEODIs ==
    ASSUME NEW s \in Sides, NEW exit \in Int, NEW instant
    PROVE  LET c == CheckEOD(s, exit, instant) IN
           /\ c \in Sides
           /\ HasPos(s) /\ ShouldForceClose(instant) => Ended(c, s, TradeOf(s.pos, "EOD", exit, FALSE))
           /\ ~(HasPos(s) /\ ShouldForceClose(instant)) => c = s
<1>1. "EOD" \in Reasons
  BY DEF Reasons
<1>2. HasPos(s) => Ended(Closed(s, "EOD", exit), s, TradeOf(s.pos, "EOD", exit, FALSE))
  BY <1>1, ClosedTradeIs DEF Closed
<1>. QED
  BY <1>2 DEF CheckEOD, Ended

-----------------------------------------------------------------------------
(* The path of a bar                                                       *)

\* The backtest, at a price of the path.
LEMMA CheckPathPriceIs ==
    ASSUME NEW s \in Sides, HasPos(s), NEW x \in Int, NEW isOpen
    PROVE  LET c == CheckPathPrice(s, x, isOpen)
               reason == CheckExit(s.pos, x)
               exit == IF isOpen THEN ExitFillPriceAt(s.pos, reason, x)
                                 ELSE ExitFillPrice(s.pos, reason, x)
           IN /\ reason = "" => Holds(c, s, UpdateMFE(s.pos, x))
              /\ reason # "" => Ended(c, s, TradeOf(s.pos, reason, exit, FALSE))
<1>1. s.pos \in Positions
  BY HasPosIs
<1>. DEFINE p == UpdateMFE(s.pos, x)
            reason == CheckExit(s.pos, x)
            exit == IF isOpen THEN ExitFillPriceAt(s.pos, reason, x)
                              ELSE ExitFillPrice(s.pos, reason, x)
<1>2. p \in Positions /\ Same(p, s.pos)
  BY <1>1, UpdateMFEIs
<1>3. /\ CheckExit(p, x) = reason /\ ExitFillPriceAt(p, reason, x) = ExitFillPriceAt(s.pos, reason, x)
      /\ ExitFillPrice(p, reason, x) = ExitFillPrice(s.pos, reason, x)
  BY <1>1, <1>2, ExitSame
<1>4. CheckPathPrice(s, x, isOpen)
        = IF reason = "" THEN [s EXCEPT !.pos = p] ELSE Closed(s, reason, exit)
  BY <1>3, SMTT(20) DEF CheckPathPrice
<1>5. CASE reason = ""
  <2>1. Holds([s EXCEPT !.pos = p], s, p)
    BY <1>2, HoldsIs
  <2>. QED
    BY <1>4, <1>5, <2>1
<1>6. CASE reason # ""
  <2>1. reason \in Reasons /\ exit \in Int
    BY <1>1, <1>6, ExitIs DEF Reasons
  <2>2. Ended(Closed(s, reason, exit), s, TradeOf(s.pos, reason, exit, FALSE))
    BY <2>1, ClosedTradeIs DEF Closed
  <2>. QED
    BY <1>4, <1>6, <2>2
<1>. QED
  BY <1>5, <1>6

\* The four prices of a path lie in the bar, the better extreme among them.
LEMMA PathIs ==
    ASSUME NEW b \in Bars, NEW d \in Directions
    PROVE  LET p == IntrabarPath(b, d)
               best == TrailPrice(b, d)
           IN /\ \A i \in 1..4 : p[i] \in Int /\ b.low <= p[i] /\ p[i] <= b.high
                                 /\ NotWorse(d, best, p[i])
              /\ p[1] = b.open /\ p[3] = best /\ p[4] = b.close /\ best \in Int
              /\ p = <<p[1], p[2], p[3], p[4]>>
<1>1. IntrabarPath(b, d) = <<b.open, IF d = "BUY" THEN b.low ELSE b.high,
                             IF d = "BUY" THEN b.high ELSE b.low, b.close>>
  BY DEF IntrabarPath
<1>2. TrailPrice(b, d) = IF d = "BUY" THEN b.high ELSE b.low
  BY DEF TrailPrice, Directions
<1>. QED
  BY <1>1, <1>2, BarIs DEF NotWorse, Better, Directions

\* What the walk makes of a position: nothing was hit, or price i was the first.
LEMMA Walk ==
    ASSUME NEW s \in Sides, HasPos(s), NEW b \in Bars
    PROVE  LET c == ProcessIntrabar(s, b)
               d == s.pos.direction
               p == IntrabarPath(b, d)
               best == TrailPrice(b, d)
               Hit(i) == CheckExit(s.pos, p[i]) # ""
           IN /\ \A i \in 1..4 :
                    Hit(i) /\ (\A j \in 1..(i - 1) : ~Hit(j)) =>
                      LET reason == CheckExit(s.pos, p[i])
                          exit == IF i = 1 THEN ExitFillPriceAt(s.pos, reason, p[i])
                                           ELSE ExitFillPrice(s.pos, reason, p[i])
                      IN Ended(c, s, TradeOf(s.pos, reason, exit, FALSE))
              /\ (\A i \in 1..4 : ~Hit(i)) =>
                    \E q \in Positions : /\ Same(q, s.pos) /\ q.mfe = BestOf(d, best, s.pos.mfe)
                                         /\ Holds(c, s, Apply(q, best))
<1>1. s.pos \in Positions /\ s.pos.direction \in Directions /\ s.pos.mfe \in Int
  BY HasPosIs DEF Positions
<1>. DEFINE d == s.pos.direction
            p == IntrabarPath(b, d)
            best == TrailPrice(b, d)
            Hit(i) == CheckExit(s.pos, p[i]) # ""
            walk(before, i) == IF HasPos(before) THEN CheckPathPrice(before, p[i], i = 1) ELSE before
            s1 == walk(s, 1)
            s2 == walk(s1, 2)
            s3 == walk(s2, 3)
            s4 == walk(s3, 4)
            Fill(i) == LET reason == CheckExit(s.pos, p[i]) IN
                       IF i = 1 THEN ExitFillPriceAt(s.pos, reason, p[i])
                                ELSE ExitFillPrice(s.pos, reason, p[i])
            EndsAt(c, i) == Ended(c, s, TradeOf(s.pos, CheckExit(s.pos, p[i]), Fill(i), FALSE))
            \* After prices that have not hit.
            Alive(c, m) == /\ c \in Sides /\ HasPos(c) /\ c.pos \in Positions
                           /\ Same(c.pos, s.pos) /\ c.trades = s.trades /\ c.pos.mfe = m
            First(i) == Hit(i) /\ \A j \in 1..(i - 1) : ~Hit(j)
            c4 == ProcessIntrabar(s, b)
<1>0. SUFFICES
        /\ \A i \in 1..4 : First(i) => EndsAt(c4, i)
        /\ (\A i \in 1..4 : ~Hit(i)) =>
              \E q \in Positions : /\ Same(q, s.pos) /\ q.mfe = BestOf(d, best, s.pos.mfe)
                                   /\ Holds(c4, s, Apply(q, best))
  OBVIOUS
<1>2. /\ \A i \in 1..4 : p[i] \in Int /\ NotWorse(d, best, p[i])
      /\ p[3] = best /\ best \in Int
  BY <1>1, PathIs
<1>3. ASSUME NEW c \in Sides, NEW m \in Int, Alive(c, m), NEW i \in 1..4
      PROVE  /\ Hit(i) => EndsAt(walk(c, i), i)
             /\ ~Hit(i) => Alive(walk(c, i), BestOf(d, p[i], m)) /\ BestOf(d, p[i], m) \in Int
  <2>. DEFINE reason == CheckExit(c.pos, p[i])
              exit == IF i = 1 THEN ExitFillPriceAt(c.pos, reason, p[i])
                               ELSE ExitFillPrice(c.pos, reason, p[i])
  <2>1. p[i] \in Int /\ BestOf(d, p[i], m) \in Int
    BY <1>2, BestIs
  <2>2. reason = CheckExit(s.pos, p[i]) /\ exit = Fill(i)
    BY <1>1, <1>3, ExitSame
  <2>3. walk(c, i) = CheckPathPrice(c, p[i], i = 1)
    BY <1>3
  <2>4. /\ reason = "" => Holds(walk(c, i), c, UpdateMFE(c.pos, p[i]))
        /\ reason # "" => Ended(walk(c, i), c, TradeOf(c.pos, reason, exit, FALSE))
    BY <1>3, <2>1, <2>3, CheckPathPriceIs
  <2>5. CASE Hit(i)
    <3>1. Ended(walk(c, i), c, TradeOf(c.pos, reason, exit, FALSE))
      BY <2>2, <2>4, <2>5
    <3>2. \A z, y : TradeOf(c.pos, z, y, FALSE) = TradeOf(s.pos, z, y, FALSE)
      <4>1. c.pos \in Positions /\ Same(c.pos, s.pos)
        BY <1>3
      <4>. QED
        BY <1>1, <4>1, TradeSame
    <3>. QED
      BY <1>3, <2>2, <2>5, <3>1, <3>2 DEF Ended
  <2>6. CASE ~Hit(i)
    <3>1. Holds(walk(c, i), c, UpdateMFE(c.pos, p[i]))
      BY <2>2, <2>4, <2>6
    <3>2. /\ UpdateMFE(c.pos, p[i]) \in Positions /\ Same(UpdateMFE(c.pos, p[i]), c.pos)
          /\ UpdateMFE(c.pos, p[i]).mfe = BestOf(c.pos.direction, p[i], c.pos.mfe)
      BY <1>3, <2>1, UpdateMFEIs
    <3>3. c.pos.direction = d /\ c.pos.mfe = m
      BY <1>3 DEF Same
    <3>4. Same(UpdateMFE(c.pos, p[i]), s.pos)
      BY <1>3, <3>2 DEF Same
    <3>. QED
      BY <1>3, <2>1, <2>6, <3>1, <3>2, <3>3, <3>4 DEF Holds
  <2>. QED
    BY <2>5, <2>6
<1>4. Alive(s, s.pos.mfe)
  BY <1>1 DEF Same
<1>5. ASSUME NEW c, NEW i, ~HasPos(c) PROVE walk(c, i) = c
  BY <1>5
<1>6. ASSUME NEW c, NEW i, EndsAt(c, i) PROVE ~HasPos(c)
  BY <1>6 DEF Ended, HasPos
<1>7. ProcessIntrabar(s, b) = IF HasPos(s4) THEN [s4 EXCEPT !.pos = Apply(@, best)] ELSE s4
  BY DEF ProcessIntrabar
<1>. HIDE DEF walk, Hit, EndsAt, Alive, p, best, s1, s2, s3, s4, Fill, c4
<1>10. ASSUME NEW k \in 1..4, First(k), EndsAt(c4, k)
       PROVE  /\ \A i \in 1..4 : First(i) => EndsAt(c4, i)
              /\ ~\A i \in 1..4 : ~Hit(i)
  <2>1. ASSUME NEW i \in 1..4, First(i) PROVE i = k
    <3>1. k < i => k \in 1..(i - 1)
      OBVIOUS
    <3>2. i < k => i \in 1..(k - 1)
      OBVIOUS
    <3>. QED
      BY <1>10, <2>1, <3>1, <3>2
  <2>. QED
    BY <1>10, <2>1
<1>11. 1..(1 - 1) = {} /\ 1..(2 - 1) = {1} /\ 1..(3 - 1) = {1, 2} /\ 1..(4 - 1) = {1, 2, 3}
  OBVIOUS
<1>8. CASE Hit(1)
  <2>1. EndsAt(s1, 1)
    BY <1>1, <1>3, <1>4, <1>8 DEF s1
  <2>2. s4 = s1
    BY <1>5, <1>6, <2>1 DEF s2, s3, s4
  <2>3. ProcessIntrabar(s, b) = s1
    BY <1>6, <1>7, <2>1, <2>2
  <2>4. First(1) /\ EndsAt(c4, 1)
    BY <1>8, <1>11, <2>1, <2>3 DEF c4
  <2>. QED
    BY <1>10, <2>4
<1>9. CASE ~Hit(1)
  <2>. DEFINE m1 == BestOf(d, p[1], s.pos.mfe)
  <2>1. Alive(s1, m1) /\ m1 \in Int
    BY <1>1, <1>3, <1>4, <1>9 DEF s1
  <2>2. s1 \in Sides
    BY <2>1 DEF Alive
  <2>. HIDE DEF m1
  <2>3. CASE Hit(2)
    <3>1. EndsAt(s2, 2)
      BY <1>3, <2>1, <2>2, <2>3 DEF s2
    <3>2. s4 = s2
      BY <1>5, <1>6, <3>1 DEF s3, s4
    <3>3. ProcessIntrabar(s, b) = s2
      BY <1>6, <1>7, <3>1, <3>2
    <3>4. First(2) /\ EndsAt(c4, 2)
      BY <1>9, <1>11, <2>3, <3>1, <3>3 DEF c4
    <3>. QED
      BY <1>10, <3>4
  <2>4. CASE ~Hit(2)
    <3>. DEFINE m2 == BestOf(d, p[2], m1)
    <3>1. Alive(s2, m2) /\ m2 \in Int
      BY <1>3, <2>1, <2>2, <2>4 DEF s2
    <3>2. s2 \in Sides
      BY <3>1 DEF Alive
    <3>. HIDE DEF m2
    <3>3. CASE Hit(3)
      <4>1. EndsAt(s3, 3)
        BY <1>3, <3>1, <3>2, <3>3 DEF s3
      <4>2. s4 = s3
        BY <1>5, <1>6, <4>1 DEF s4
      <4>3. ProcessIntrabar(s, b) = s3
        BY <1>6, <1>7, <4>1, <4>2
      <4>4. First(3) /\ EndsAt(c4, 3)
        BY <1>9, <1>11, <2>4, <3>3, <4>1, <4>3 DEF c4
      <4>. QED
        BY <1>10, <4>4
    <3>4. CASE ~Hit(3)
      <4>. DEFINE m3 == BestOf(d, p[3], m2)
      <4>1. Alive(s3, m3) /\ m3 \in Int
        BY <1>3, <3>1, <3>2, <3>4 DEF s3
      <4>2. s3 \in Sides
        BY <4>1 DEF Alive
      <4>. HIDE DEF m3
      <4>3. CASE Hit(4)
        <5>1. EndsAt(s4, 4)
          BY <1>3, <4>1, <4>2, <4>3 DEF s4
        <5>2. ProcessIntrabar(s, b) = s4
          BY <1>6, <1>7, <5>1
        <5>3. First(4) /\ EndsAt(c4, 4)
          BY <1>9, <1>11, <2>4, <3>4, <4>3, <5>1, <5>2 DEF c4
        <5>. QED
          BY <1>10, <5>3
      <4>4. CASE ~Hit(4)
        <5>. DEFINE m4 == BestOf(d, p[4], m3)
        <5>1. Alive(s4, m4) /\ m4 \in Int
          BY <1>3, <4>1, <4>2, <4>4 DEF s4
        <5>2. s4 \in Sides /\ s4.pos \in Positions /\ HasPos(s4) /\ Same(s4.pos, s.pos)
              /\ s4.trades = s.trades /\ s4.pos.mfe = m4
          BY <5>1 DEF Alive
        <5>3. m4 = BestOf(d, best, s.pos.mfe)
          <6>1. /\ p[1] \in Int /\ p[2] \in Int /\ p[4] \in Int
                /\ NotWorse(d, best, p[1]) /\ NotWorse(d, best, p[2]) /\ NotWorse(d, best, p[4])
            BY <1>2
          <6>. QED
            BY <1>1, <1>2, <6>1 DEF m1, m2, m3, m4, BestOf, Better, NotWorse
        <5>4. ProcessIntrabar(s, b) = [s4 EXCEPT !.pos = Apply(s4.pos, best)]
          BY <1>7, <5>2
        <5>5. Apply(s4.pos, best) \in Positions
          BY <5>2, ApplyTrails DEF Trailed
        <5>6. Holds(ProcessIntrabar(s, b), s, Apply(s4.pos, best))
          BY <5>2, <5>4, <5>5, HoldsIs DEF Holds
        <5>7. \A i \in 1..4 : ~Hit(i)
          <6>1. \A i \in 1..4 : i = 1 \/ i = 2 \/ i = 3 \/ i = 4
            OBVIOUS
          <6>. QED
            BY <1>9, <2>4, <3>4, <4>4, <6>1
        <5>. QED
          BY <5>2, <5>3, <5>6, <5>7 DEF c4
      <4>. QED
        BY <4>3, <4>4
    <3>. QED
      BY <3>3, <3>4
  <2>. QED
    BY <2>3, <2>4
<1>. QED
  BY <1>8, <1>9

-----------------------------------------------------------------------------
(* A closed bar                                                            *)

\* A signal is priced inside its bar and stops behind its price.
LEMMA SignalIs ==
    ASSUME NEW b \in Bars, NEW signal \in Signals(b), signal # NoSignal
    PROVE  /\ signal.direction \in Directions /\ signal.atClose \in BOOLEAN
           /\ signal.price \in Int /\ signal.stop \in Int /\ signal.take \in Int
           /\ b.low <= signal.price /\ signal.price <= b.high
           /\ signal.stop > 0
           /\ Better(signal.direction, signal.price, signal.stop)
<1>1. PICK d \in {"BUY", "SELL"} : \E p \in b.low..b.high :
         \E stop \in StopDistances : \E take \in TakeDistances : \E intrabar \in BOOLEAN :
            signal = SignalAt(b, d, p, stop, take, intrabar)
  BY DEF Signals
<1>2. PICK p \in b.low..b.high : \E stop \in StopDistances : \E take \in TakeDistances :
         \E intrabar \in BOOLEAN : signal = SignalAt(b, d, p, stop, take, intrabar)
  BY <1>1
<1>3. PICK stop \in StopDistances : \E take \in TakeDistances : \E intrabar \in BOOLEAN :
            signal = SignalAt(b, d, p, stop, take, intrabar)
  BY <1>2
<1>4. PICK take \in TakeDistances : \E intrabar \in BOOLEAN :
            signal = SignalAt(b, d, p, stop, take, intrabar)
  BY <1>3
<1>5. /\ p \in Int /\ b.low <= p /\ p <= b.high
      /\ stop \in Int /\ stop > 0 /\ take \in Int
  BY BarIs, BarTradingAssumption
<1>6. /\ signal.direction = d /\ signal.price = p
      /\ signal.stop = (IF d = "BUY" THEN p - stop ELSE p + stop)
      /\ signal.take = (IF take = 0 THEN 0 ELSE IF d = "BUY" THEN p + take ELSE p - take)
  BY <1>4, <1>5 DEF SignalAt, Toward
<1>7. signal.stop > 0
  BY DEF Signals
<1>8. signal.atClose \in BOOLEAN
  <2>1. PICK intrabar \in BOOLEAN : signal = SignalAt(b, d, p, stop, take, intrabar)
    BY <1>4
  <2>2. signal.atClose = (~intrabar /\ p = b.close)
    BY <2>1 DEF SignalAt
  <2>. QED
    BY <2>2
<1>9. d \in Directions
  BY DEF Directions
<1>. QED
  BY <1>5, <1>6, <1>7, <1>8, <1>9 DEF Better

\* The position that a signal of a bar opens.
NewPos(b, signal) ==
    LET pos == NewFromSignal(signal, b) IN
    [pos EXCEPT !.openCodes = ValidateOpen(pos, b.close)]

\* It has the type of positions.
LEMMA NewPosIs ==
    ASSUME NEW b \in Bars, NEW signal \in Signals(b), signal # NoSignal
    PROVE  LET n == NewPos(b, signal) IN
           /\ n \in Positions
           /\ n.direction = signal.direction /\ n.entryBar = b.time
           /\ n.entry = signal.price /\ n.mfe = signal.price /\ n.stop = signal.stop
           /\ n.atClose = signal.atClose /\ n.entryClose = b.close /\ n.stage = 0
<1>. DEFINE pos == NewFromSignal(signal, b)
<1>1. pos \in Positions
  BY SignalIs, BarIs DEF NewFromSignal, Positions
<1>2. ValidateOpen(pos, b.close) \subseteq Warnings
  BY DEF ValidateOpen, Warnings
<1>3. /\ pos.direction = signal.direction /\ pos.entryBar = b.time
      /\ pos.entry = signal.price /\ pos.mfe = signal.price /\ pos.stop = signal.stop
      /\ pos.atClose = signal.atClose /\ pos.entryClose = b.close /\ pos.stage = 0
  BY DEF NewFromSignal
<1>4. NewPos(b, signal) = [pos EXCEPT !.openCodes = ValidateOpen(pos, b.close)]
  BY DEF NewPos
<1>. HIDE DEF pos
<1>. QED
  BY <1>1, <1>2, <1>3, <1>4 DEF Positions

\* A signal opens a position, or a trade that its own bar ends at the stop.
LEMMA EnterOnIs ==
    ASSUME NEW s \in Sides, ~HasPos(s), NEW b \in Bars,
           NEW signal \in Signals(b), signal # NoSignal
    PROVE  LET c == EnterOn(s, b, signal)
               n == NewPos(b, signal)
           IN /\ SameBarExitAfterFill(n, b) = "" => Holds(c, s, n)
              /\ SameBarExitAfterFill(n, b) # "" =>
                    /\ Ended(c, s, TradeOf(n, "STOP_LOSS", n.stop, TRUE))
                    /\ ~Better(n.direction, n.stop, TrailPrice(b, n.direction))
<1>. DEFINE n == NewPos(b, signal)
            opened == Opened(s, b, signal)
            reason == SameBarExitAfterFill(n, b)
<1>1. /\ n \in Positions /\ n.direction = signal.direction /\ n.stop = signal.stop
      /\ n.stop \in Int /\ n.stop > 0
  BY NewPosIs, SignalIs
<1>2. opened = [s EXCEPT !.pos = n]
  BY DEF Opened, NewPos
<1>3. Holds(opened, s, n)
  <2>. HIDE DEF n, opened
  <2>. QED
    BY <1>1, <1>2, HoldsIs
<1>4. opened \in Sides /\ HasPos(opened) /\ opened.pos = n /\ opened.trades = s.trades
  BY <1>3 DEF Holds
<1>5. reason \in {"", "STOP_LOSS"}
  BY DEF SameBarExitAfterFill
<1>6. EnterOn(s, b, signal)
        = IF reason = "" THEN opened
          ELSE ClosedTrade(opened, reason, ExitFillPrice(n, reason, b.close), TRUE)
  BY <1>4 DEF EnterOn
<1>7. ExitFillPrice(n, "STOP_LOSS", b.close) = n.stop
  BY <1>1 DEF ExitFillPrice
<1>8. CASE reason = ""
  BY <1>3, <1>6, <1>8
<1>9. CASE reason = "STOP_LOSS"
  <2>1. "STOP_LOSS" \in Reasons
    BY DEF Reasons
  <2>2. Ended(ClosedTrade(opened, "STOP_LOSS", n.stop, TRUE), opened, TradeOf(n, "STOP_LOSS", n.stop, TRUE))
    <3>. HIDE DEF n, opened
    <3>. QED
      BY <1>1, <1>4, <2>1, ClosedTradeIs
  <2>3. Ended(EnterOn(s, b, signal), s, TradeOf(n, "STOP_LOSS", n.stop, TRUE))
    <3>. HIDE DEF n, opened
    <3>. QED
      BY <1>4, <1>6, <1>7, <1>9, <2>2 DEF Ended
  <2>4. ~Better(n.direction, n.stop, TrailPrice(b, n.direction))
    <3>. HIDE DEF n
    <3>. QED
      BY <1>1, SignalIs, BarIs DEF Better, TrailPrice, Directions
  <2>. QED
    BY <1>9, <2>3, <2>4
<1>. QED
  BY <1>5, <1>8, <1>9

\* A closed bar trails the stop of an older position, and may end it.
LEMMA TrailOnBarIs ==
    ASSUME NEW s \in Sides, NEW b \in Bars
    PROVE  LET c == TrailOnBar(s, b)
               best == TrailPrice(b, s.pos.direction)
               q == Apply(UpdateMFE(s.pos, best), best)
               reason == CheckExit(q, b.close)
           IN /\ c \in Sides
              /\ ~HasPos(s) \/ b.time <= s.pos.entryBar => c = s
              /\ HasPos(s) /\ b.time > s.pos.entryBar =>
                    /\ q \in Positions /\ SameOrigin(q, s.pos)
                    /\ NotWorse(s.pos.direction, q.stop, s.pos.stop)
                    /\ q.mfe = BestOf(s.pos.direction, best, s.pos.mfe)
                    /\ reason = "" => Holds(c, s, UpdateMFE(q, b.close))
                    /\ reason # "" =>
                          Ended(c, s, TradeOf(q, reason, ExitFillPriceAt(q, reason, b.close), FALSE))
<1>1. CASE ~HasPos(s)
  <2>1. TrailOnBar(s, b) = s
    BY <1>1 DEF TrailOnBar
  <2>. QED
    BY <1>1, <2>1
<1>2. CASE HasPos(s) /\ b.time <= s.pos.entryBar
  <2>1. TrailOnBar(s, b) = s
    BY <1>2 DEF TrailOnBar
  <2>2. ~(b.time > s.pos.entryBar)
    BY <1>2, HasPosIs, BarIs DEF Positions
  <2>. QED
    BY <1>2, <2>1, <2>2
<1>3. CASE HasPos(s) /\ ~(b.time <= s.pos.entryBar)
  <2>. DEFINE best == TrailPrice(b, s.pos.direction)
              u == UpdateMFE(s.pos, best)
              q == Apply(u, best)
              reason == CheckExit(q, b.close)
              t == [s EXCEPT !.pos = q]
  <2>1. s.pos \in Positions /\ best \in Int /\ b.close \in Int
    BY <1>3, HasPosIs, BarIs DEF TrailPrice
  <2>2. u \in Positions /\ Same(u, s.pos) /\ u.mfe = BestOf(s.pos.direction, best, s.pos.mfe)
    BY <2>1, UpdateMFEIs
  <2>3. Trailed(q, u)
    BY <2>2, ApplyTrails
  <2>4. /\ q \in Positions /\ SameOrigin(q, s.pos) /\ q.mfe = u.mfe
        /\ NotWorse(s.pos.direction, q.stop, s.pos.stop)
    <3>. HIDE DEF u, q
    <3>. QED
      BY <2>2, <2>3 DEF Trailed, Same, SameOrigin
  <2>5. Holds(t, s, q)
    <3>. HIDE DEF q
    <3>. QED
      BY <2>4, HoldsIs
  <2>6. TrailOnBar(s, b) = CheckSLTP(t, b.close)
    BY <1>3 DEF TrailOnBar
  <2>7. /\ TrailOnBar(s, b) \in Sides
        /\ reason = "" => Holds(TrailOnBar(s, b), t, UpdateMFE(q, b.close))
        /\ reason # "" =>
              Ended(TrailOnBar(s, b), t, TradeOf(q, reason, ExitFillPriceAt(q, reason, b.close), FALSE))
    <3>1. t \in Sides /\ HasPos(t) /\ t.pos = q
      BY <2>5 DEF Holds
    <3>2. reason = CheckExit(t.pos, b.close)
      BY <3>1
    <3>. HIDE DEF t, q, reason
    <3>. QED
      BY <2>1, <2>6, <3>1, <3>2, CheckSLTPIs
  <2>8. t.trades = s.trades
    BY <2>5 DEF Holds
  <2>9. /\ reason = "" => Holds(TrailOnBar(s, b), s, UpdateMFE(q, b.close))
        /\ reason # "" =>
              Ended(TrailOnBar(s, b), s, TradeOf(q, reason, ExitFillPriceAt(q, reason, b.close), FALSE))
    <3>. HIDE DEF t, q, reason
    <3>. QED
      BY <2>7, <2>8 DEF Holds, Ended
  <2>. QED
    BY <1>3, <2>2, <2>4, <2>7, <2>9
<1>. QED
  BY <1>1, <1>2, <1>3

\* The live strategy enters, and looks at the close at once.
LEMMA ProcessCandleIs ==
    ASSUME NEW s \in Sides, NEW b \in Bars, NEW signal \in Signals(b)
    PROVE  LET c == ProcessCandle(s, b, signal) IN
           /\ c \in Sides
           /\ HasPos(s) => c = s
           /\ ~HasPos(s) => \/ c = s
                            \/ /\ signal # NoSignal /\ ~ShouldForceClose(clock)
                               /\ c = CheckSLTP(EnterOn(s, b, signal), b.close)
                               /\ HasPos(c) => c.pos.entryBar = b.time
<1>1. CASE HasPos(s)
  <2>1. ProcessCandle(s, b, signal) = s
    BY <1>1 DEF ProcessCandle
  <2>. QED
    BY <1>1, <2>1
<1>2. CASE ~HasPos(s) /\ ProcessCandle(s, b, signal) = s
  BY <1>2
<1>3. CASE ~HasPos(s) /\ ProcessCandle(s, b, signal) # s
  <2>. DEFINE e == EnterOn(s, b, signal)
              n == NewPos(b, signal)
              c == CheckSLTP(e, b.close)
  <2>1. signal # NoSignal /\ ~ShouldForceClose(clock) /\ ProcessCandle(s, b, signal) = c
    BY <1>3 DEF ProcessCandle, EntriesAllowed
  <2>2. e \in Sides /\ (HasPos(e) => e.pos = n)
    <3>1. ~HasPos(s) /\ (SameBarExitAfterFill(n, b) = "" => Holds(e, s, n))
          /\ (SameBarExitAfterFill(n, b) # "" => Ended(e, s, TradeOf(n, "STOP_LOSS", n.stop, TRUE)))
      BY <1>3, <2>1, EnterOnIs
    <3>. QED
      BY <3>1, EndedIs DEF Holds
  <2>3. n \in Positions /\ n.entryBar = b.time /\ b.close \in Int
    BY <2>1, NewPosIs, BarIs
  <2>4. c \in Sides
    BY <2>2, <2>3, CheckSLTPIs
  <2>5. HasPos(c) => c.pos.entryBar = b.time
    <3>. SUFFICES ASSUME HasPos(c) PROVE c.pos.entryBar = b.time
      OBVIOUS
    <3>. DEFINE u == UpdateMFE(e.pos, b.close)
    <3>1. HasPos(e)
      BY <2>2, <2>3, CheckSLTPIs
    <3>2. Holds(c, e, u)
      <4>. HIDE DEF e, n, c, u
      <4>1. CheckExit(e.pos, b.close) # ""
              => Ended(c, e, TradeOf(e.pos, CheckExit(e.pos, b.close),
                       ExitFillPriceAt(e.pos, CheckExit(e.pos, b.close), b.close), FALSE))
        BY <2>2, <2>3, <3>1, CheckSLTPIs DEF c
      <4>2. CheckExit(e.pos, b.close) = "" => Holds(c, e, u)
        BY <2>2, <2>3, <3>1, CheckSLTPIs DEF c, u
      <4>. QED
        BY <4>1, <4>2, EndedIs
    <3>3. Same(u, e.pos)
      BY <2>2, <2>3, <3>1, UpdateMFEIs
    <3>. QED
      BY <2>2, <2>3, <3>1, <3>2, <3>3 DEF Holds, Same
  <2>. QED
    BY <1>3, <2>1, <2>4, <2>5
<1>. QED
  BY <1>1, <1>2, <1>3

\* After a closed bar the live strategy's position, if it is the old one, has
\* a stop no worse.
LEMMA LiveOnBarIs ==
    ASSUME NEW s \in Sides, NEW b \in Bars, NEW signal \in Signals(b)
    PROVE  LET c == LiveOnBar(s, b, signal) IN
           /\ c \in Sides
           /\ HasPos(s) /\ HasPos(c) /\ c.pos.entryBar = s.pos.entryBar
                => NotWorse(s.pos.direction, c.pos.stop, s.pos.stop)
<1>. DEFINE e == CheckEOD(s, b.close, clock)
            t == TrailOnBar(e, b)
            c == ProcessCandle(t, b, signal)
<1>0. b.close \in Int /\ b.time \in Nat
  BY BarIs
<1>1. /\ e \in Sides
      /\ HasPos(s) /\ ShouldForceClose(clock) => ~HasPos(e)
      /\ ~(HasPos(s) /\ ShouldForceClose(clock)) => e = s
  BY <1>0, CheckEODIs, EndedIs
<1>. HIDE DEF e
<1>2. t \in Sides
  BY <1>1, TrailOnBarIs
<1>3. /\ c \in Sides
      /\ HasPos(t) => c = t
      /\ ~HasPos(t) => c = t \/ (~ShouldForceClose(clock) /\ (HasPos(c) => c.pos.entryBar = b.time))
  BY <1>2, ProcessCandleIs
<1>4. LiveOnBar(s, b, signal) = c
  BY DEF LiveOnBar, e
<1>5. ASSUME HasPos(s), HasPos(c), c.pos.entryBar = s.pos.entryBar
      PROVE  NotWorse(s.pos.direction, c.pos.stop, s.pos.stop)
  <2>0. s.pos \in Positions /\ s.pos.stop \in Int /\ s.pos.entryBar \in Int
    BY <1>5, HasPosIs DEF Positions
  <2>1. CASE HasPos(t)
    <3>1. HasPos(e) /\ e = s
      <4>1. ~HasPos(e) => t = e
        BY <1>1, TrailOnBarIs
      <4>. HIDE DEF t
      <4>. QED
        BY <1>1, <2>1, <4>1
    <3>2. CASE b.time <= s.pos.entryBar
      <4>1. t = s
        BY <1>1, <3>1, <3>2, TrailOnBarIs
      <4>. QED
        BY <1>3, <2>0, <2>1, <4>1, Order
    <3>3. CASE b.time > s.pos.entryBar
      <4>. DEFINE best == TrailPrice(b, s.pos.direction)
                  q == Apply(UpdateMFE(s.pos, best), best)
      <4>1. /\ q \in Positions /\ NotWorse(s.pos.direction, q.stop, s.pos.stop)
            /\ CheckExit(q, b.close) = "" => Holds(t, s, UpdateMFE(q, b.close))
            /\ CheckExit(q, b.close) # "" =>
                 Ended(t, s, TradeOf(q, CheckExit(q, b.close),
                       ExitFillPriceAt(q, CheckExit(q, b.close), b.close), FALSE))
        BY <1>1, <1>5, <3>1, <3>3, TrailOnBarIs
      <4>. HIDE DEF t, q
      <4>2. t.pos = UpdateMFE(q, b.close)
        BY <2>1, <4>1, EndedIs DEF Holds
      <4>3. t.pos.stop = q.stop
        <5>1. Same(UpdateMFE(q, b.close), q)
          BY <1>0, <4>1, UpdateMFEIs
        <5>. QED
          BY <4>2, <5>1 DEF Same
      <4>. QED
        BY <1>3, <2>1, <4>1, <4>3
    <3>. QED
      BY <1>0, <2>0, <3>2, <3>3
  <2>2. CASE ~HasPos(t)
    <3>. HIDE DEF t, c
    <3>1. ~ShouldForceClose(clock) /\ c.pos.entryBar = b.time
      BY <1>3, <1>5, <2>2
    <3>2. e = s
      BY <1>1, <3>1
    <3>3. b.time <= s.pos.entryBar => t = s
      BY <1>1, <3>2, TrailOnBarIs DEF t
    <3>4. b.time <= s.pos.entryBar
      BY <1>0, <1>5, <3>1
    <3>. QED
      BY <1>5, <2>2, <3>3, <3>4
  <2>. QED
    BY <2>1, <2>2
<1>. QED
  BY <1>3, <1>4, <1>5

\* A trade that ended at EOD, or at a price the bar has traded at.
GoodFill(t, b) ==
    t.reason = "EOD" \/ ~Better(t.direction, t.price, TrailPrice(b, t.direction))

\* Side c has what s has stored, or one such trade after it.
Stores(c, s, b) ==
    /\ c \in Sides
    /\ \/ c.trades = s.trades
       \/ \E t \in Trades : c.trades = Append(s.trades, t) /\ GoodFill(t, b)

\* The walk along a bar fills nothing outside of it.
LEMMA WalkFills ==
    ASSUME NEW s \in Sides, NEW b \in Bars
    PROVE  Stores(ProcessIntrabar(s, b), s, b) /\ (~HasPos(s) => ProcessIntrabar(s, b) = s)
<1>. DEFINE d == s.pos.direction
            p == IntrabarPath(b, d)
            best == TrailPrice(b, d)
            Hit(i) == CheckExit(s.pos, p[i]) # ""
            Fill(i) == LET reason == CheckExit(s.pos, p[i]) IN
                       IF i = 1 THEN ExitFillPriceAt(s.pos, reason, p[i])
                                ELSE ExitFillPrice(s.pos, reason, p[i])
            First(i) == Hit(i) /\ \A j \in 1..(i - 1) : ~Hit(j)
            c == ProcessIntrabar(s, b)
<1>1. CASE ~HasPos(s)
  <2>1. c = s
    BY <1>1 DEF ProcessIntrabar
  <2>. QED
    BY <2>1 DEF Stores
<1>2. CASE HasPos(s)
  <2>1. /\ \A i \in 1..4 : First(i) => Ended(c, s, TradeOf(s.pos, CheckExit(s.pos, p[i]), Fill(i), FALSE))
        /\ (\A i \in 1..4 : ~Hit(i)) =>
              \E q \in Positions : Holds(c, s, Apply(q, best))
    BY <1>2, Walk
  <2>2. /\ s.pos \in Positions /\ d \in Directions
        /\ s.pos.stop \in Int /\ s.pos.take \in Int
    BY <1>2, HasPosIs DEF Positions
  <2>3. /\ \A i \in 1..4 : p[i] \in Int /\ NotWorse(d, best, p[i])
        /\ best \in Int
    BY <2>2, PathIs
  <2>4. ASSUME NEW i \in 1..4, First(i) PROVE ~Better(d, Fill(i), best)
    <3>1. CASE CheckExit(s.pos, p[i]) = "TAKE_PROFIT"
      <4>1. NotWorse(d, p[i], s.pos.take) /\ s.pos.take > 0
        BY <3>1 DEF CheckExit
      <4>2. Fill(i) = s.pos.take
        BY <3>1, <4>1 DEF ExitFillPriceAt, ExitFillPrice
      <4>. HIDE DEF Fill, p, best
      <4>. QED
        BY <2>2, <2>3, <4>1, <4>2 DEF Better, NotWorse
    <3>2. CASE CheckExit(s.pos, p[i]) = "STOP_LOSS"
      <4>1. ExitFillPrice(s.pos, "STOP_LOSS", p[i]) = IF s.pos.stop > 0 THEN s.pos.stop ELSE p[i]
        BY DEF ExitFillPrice
      <4>2. CASE i = 1
        <5>1. Fill(i) = WorstOf(d, ExitFillPrice(s.pos, "STOP_LOSS", p[i]), p[i])
          BY <3>2, <4>2 DEF ExitFillPriceAt
        <5>2. ExitFillPrice(s.pos, "STOP_LOSS", p[i]) \in Int
          BY <2>2, <2>3, <4>1
        <5>. HIDE DEF Fill, p, best
        <5>. QED
          BY <2>2, <2>3, <5>1, <5>2 DEF Better, NotWorse, WorstOf
      <4>3. CASE i # 1
        <5>1. Fill(i) = IF s.pos.stop > 0 THEN s.pos.stop ELSE p[i]
          BY <3>2, <4>1, <4>3
        <5>2. 1 \in 1..4 /\ 1 \in 1..(i - 1)
          BY <4>3
        <5>3. ~Hit(1)
          BY <2>4, <5>2
        <5>4. ~NotWorse(d, s.pos.stop, p[1])
          BY <5>3 DEF CheckExit
        <5>. HIDE DEF Fill, p, best
        <5>. QED
          BY <2>2, <2>3, <5>1, <5>2, <5>4 DEF Better, NotWorse
      <4>. QED
        BY <4>2, <4>3
    <3>3. CheckExit(s.pos, p[i]) \in {"STOP_LOSS", "TAKE_PROFIT", ""}
      BY <2>2, <2>3, ExitIs
    <3>. QED
      BY <2>4, <3>1, <3>2, <3>3
  <2>5. CASE \A i \in 1..4 : ~Hit(i)
    <3>1. PICK q \in Positions : Holds(c, s, Apply(q, best))
      BY <2>1, <2>5
    <3>2. c \in Sides /\ c.trades = s.trades
      BY <3>1 DEF Holds
    <3>. QED
      BY <1>2, <3>2 DEF Stores
  <2>6. CASE \E i \in 1..4 : First(i)
    <3>1. PICK i \in 1..4 : First(i)
      BY <2>6
    <3>. DEFINE t == TradeOf(s.pos, CheckExit(s.pos, p[i]), Fill(i), FALSE)
    <3>2. c \in Sides /\ t \in Trades /\ c.trades = Append(s.trades, t)
      <4>1. Ended(c, s, TradeOf(s.pos, CheckExit(s.pos, p[i]), Fill(i), FALSE))
        BY <2>1, <3>1
      <4>. HIDE DEF c, Fill, p, d, best, Hit, First
      <4>. QED
        BY <4>1, EndedIs
    <3>3. ~Better(d, Fill(i), best)
      BY <2>4, <3>1
    <3>4. t.direction = d /\ t.price = Fill(i)
      BY DEF TradeOf
    <3>5. GoodFill(t, b)
      <4>. HIDE DEF t, Fill
      <4>. QED
        BY <3>3, <3>4 DEF GoodFill
    <3>. HIDE DEF t, c
    <3>. QED
      BY <1>2, <3>2, <3>5 DEF Stores, c
  <2>7. (\A i \in 1..4 : ~Hit(i)) \/ \E i \in 1..4 : First(i)
    <3>. HIDE DEF Hit
    <3>1. \A i \in 1..4 : i = 1 \/ i = 2 \/ i = 3 \/ i = 4
      OBVIOUS
    <3>2. 1..(1 - 1) = {} /\ 1..(2 - 1) = {1} /\ 1..(3 - 1) = {1, 2} /\ 1..(4 - 1) = {1, 2, 3}
      OBVIOUS
    <3>3. CASE Hit(1)
      BY <3>2, <3>3
    <3>4. CASE ~Hit(1) /\ Hit(2)
      BY <3>2, <3>4
    <3>5. CASE ~Hit(1) /\ ~Hit(2) /\ Hit(3)
      BY <3>2, <3>5
    <3>6. CASE ~Hit(1) /\ ~Hit(2) /\ ~Hit(3) /\ Hit(4)
      BY <3>2, <3>6
    <3>. QED
      BY <3>1, <3>3, <3>4, <3>5, <3>6
  <2>. QED
    BY <1>2, <2>5, <2>6, <2>7
<1>. QED
  BY <1>1, <1>2

\* The last trade of c, if c has more than s, ended at EOD or inside the bar.
LastInside(c, s, b) ==
    /\ c \in Sides
    /\ \/ c.trades = s.trades
       \/ \E seq \in Seq(Trades), t \in Trades : c.trades = Append(seq, t) /\ GoodFill(t, b)

\* A further step of the backtest keeps that so.
LEMMA StoresAfter ==
    ASSUME NEW s \in Sides, NEW m \in Sides, NEW c, NEW b,
           LastInside(m, s, b), Stores(c, m, b)
    PROVE  LastInside(c, s, b) /\ c \in Sides
<1>1. m.trades \in Seq(Trades) /\ c \in Sides
  BY HasPosIs DEF Stores
<1>2. CASE c.trades = m.trades
  BY <1>1, <1>2 DEF LastInside
<1>3. CASE \E t \in Trades : c.trades = Append(m.trades, t) /\ GoodFill(t, b)
  BY <1>1, <1>3 DEF LastInside
<1>. QED
  BY <1>1, <1>2, <1>3 DEF Stores

\* One bar in the backtest.
LEMMA BacktestOnBarFills ==
    ASSUME NEW s \in Sides, NEW b \in Bars, NEW signal \in Signals(b), lastClose \in Int
    PROVE  LastInside(BacktestOnBar(s, b, signal), s, b)
<1>. DEFINE missed == CloseMissedEOD(s, b)
            walked == ProcessIntrabar(missed, b)
            settled == CheckEOD(walked, b.close, b.time + 1)
            c == BacktestOnBar(s, b, signal)
            n == NewPos(b, signal)
<1>0. b.close \in Int /\ "EOD" \in Reasons
  BY BarIs DEF Reasons
<1>1. \A t \in Trades : t.reason = "EOD" => GoodFill(t, b)
  BY DEF GoodFill
<1>2. \A p, x : TradeOf(p, "EOD", x, FALSE).reason = "EOD"
  BY DEF TradeOf
<1>3. Stores(missed, s, b)
  <2>1. CASE missed = s
    BY <2>1 DEF Stores
  <2>2. CASE HasPos(s) /\ missed = Closed(s, "EOD", lastClose)
    <3>1. Ended(missed, s, TradeOf(s.pos, "EOD", lastClose, FALSE))
      <4>. HIDE DEF missed
      <4>. QED
        BY <1>0, <2>2, ClosedTradeIs DEF Closed
    <3>. HIDE DEF missed
    <3>2. missed \in Sides
          /\ TradeOf(s.pos, "EOD", lastClose, FALSE) \in Trades
          /\ missed.trades = Append(s.trades, TradeOf(s.pos, "EOD", lastClose, FALSE))
      BY <3>1, EndedIs
    <3>. QED
      BY <1>1, <1>2, <3>2 DEF Stores
  <2>. QED
    BY <2>1, <2>2 DEF CloseMissedEOD
<1>4. s \in Sides /\ LastInside(s, s, b)
  BY DEF LastInside
<1>. HIDE DEF missed
<1>5. LastInside(missed, s, b) /\ missed \in Sides
  BY <1>3, <1>4, StoresAfter
<1>6. LastInside(walked, s, b) /\ walked \in Sides
  BY <1>5, WalkFills, StoresAfter
<1>. HIDE DEF walked
<1>7. Stores(settled, walked, b)
  <2>1. CASE HasPos(walked) /\ ShouldForceClose(b.time + 1)
    <3>1. Ended(settled, walked, TradeOf(walked.pos, "EOD", b.close, FALSE))
      BY <1>0, <1>6, <2>1, CheckEODIs
    <3>. HIDE DEF settled
    <3>2. settled \in Sides
          /\ TradeOf(walked.pos, "EOD", b.close, FALSE) \in Trades
          /\ settled.trades = Append(walked.trades, TradeOf(walked.pos, "EOD", b.close, FALSE))
      BY <3>1, EndedIs
    <3>. QED
      BY <1>1, <1>2, <3>2 DEF Stores
  <2>2. CASE ~(HasPos(walked) /\ ShouldForceClose(b.time + 1))
    <3>1. settled = walked
      BY <1>0, <1>6, <2>2, CheckEODIs
    <3>. QED
      BY <1>6, <3>1 DEF Stores
  <2>. QED
    BY <2>1, <2>2
<1>8. LastInside(settled, s, b) /\ settled \in Sides
  BY <1>6, <1>7, StoresAfter
<1>9. c = settled \/ (~HasPos(settled) /\ signal # NoSignal /\ c = EnterOn(settled, b, signal))
  BY DEF BacktestOnBar, missed, walked
<1>. HIDE DEF settled
<1>10. CASE c = settled
  BY <1>8, <1>10
<1>11. CASE ~HasPos(settled) /\ signal # NoSignal /\ c = EnterOn(settled, b, signal)
  <2>1. /\ SameBarExitAfterFill(n, b) = "" => Holds(c, settled, n)
        /\ SameBarExitAfterFill(n, b) # "" =>
              /\ Ended(c, settled, TradeOf(n, "STOP_LOSS", n.stop, TRUE))
              /\ ~Better(n.direction, n.stop, TrailPrice(b, n.direction))
    BY <1>8, <1>11, EnterOnIs
  <2>. HIDE DEF c, n
  <2>2. CASE SameBarExitAfterFill(n, b) = ""
    <3>1. c \in Sides /\ c.trades = settled.trades
      BY <2>1, <2>2 DEF Holds
    <3>2. Stores(c, settled, b)
      BY <3>1 DEF Stores
    <3>. QED
      BY <1>8, <3>2, StoresAfter DEF c
  <2>3. CASE SameBarExitAfterFill(n, b) # ""
    <3>. DEFINE t == TradeOf(n, "STOP_LOSS", n.stop, TRUE)
    <3>1. t.direction = n.direction /\ t.price = n.stop
      BY DEF TradeOf
    <3>2. c \in Sides /\ t \in Trades /\ c.trades = Append(settled.trades, t)
      <4>. HIDE DEF t
      <4>. QED
        BY <2>1, <2>3, EndedIs DEF t
    <3>. HIDE DEF t
    <3>3. GoodFill(t, b)
      BY <2>1, <2>3, <3>1 DEF GoodFill
    <3>4. Stores(c, settled, b)
      BY <3>2, <3>3 DEF Stores
    <3>. QED
      BY <1>8, <3>4, StoresAfter DEF c
  <2>. QED
    BY <2>2, <2>3
<1>. QED
  BY <1>9, <1>10, <1>11

-----------------------------------------------------------------------------
(* The two theorems that hold whatever waits                               *)

\* What the steps keep: bars, positions and trades have their type.
TypeInv ==
    /\ clock \in Nat /\ price \in Prices \cup {0}
    /\ forming \in Bars \cup {NoBar} /\ path \in Seq(Prices) /\ queue \in Seq(Bars)
    /\ live \in Sides /\ bt \in Sides
    /\ lastPrice \in Int /\ lastClose \in Int /\ parted \subseteq Int

\* The steps from one price to another stay between the two.
LEMMA StepsIs ==
    ASSUME NEW x \in Prices, NEW y \in Prices
    PROVE  Steps(x, y) \in Seq(Prices)
<1>1. MaxPrice \in Nat
  BY BarTradingAssumption
<1>2. CASE x <= y
  <2>1. y - x \in Nat /\ \A i \in 1..(y - x) : x + i \in Prices
    BY <1>1, <1>2 DEF Prices
  <2>. QED
    BY <1>2, <2>1 DEF Steps
<1>3. CASE ~(x <= y)
  <2>1. x - y \in Nat /\ \A i \in 1..(x - y) : x - i \in Prices
    BY <1>1, <1>3 DEF Prices
  <2>. QED
    BY <1>3, <2>1 DEF Steps
<1>. QED
  BY <1>2, <1>3

\* A bar that the market begins has whole prices, and so has its path.
LEMMA NewBarIs ==
    ASSUME TypeInv, NEW open \in Prices, NEW bar \in BarsFrom(open),
           bar.close \in bar.low..bar.high, NEW d
    PROVE  bar \in Bars /\ bar.time = clock /\ bar.open = open /\ TicksOf(bar, d) \in Seq(Prices)
<1>1. MaxPrice \in Nat /\ clock \in Nat
  BY BarTradingAssumption DEF TypeInv
<1>2. open \in Prices
  OBVIOUS
<1>3. PICK h \in open..MaxPrice : \E l \in 1..open : \E c \in Prices :
         bar = [time |-> clock, open |-> open, high |-> h, low |-> l, close |-> c]
  BY DEF BarsFrom
<1>4. PICK l \in 1..open : \E c \in Prices :
         bar = [time |-> clock, open |-> open, high |-> h, low |-> l, close |-> c]
  BY <1>3
<1>5. PICK c \in Prices :
         bar = [time |-> clock, open |-> open, high |-> h, low |-> l, close |-> c]
  BY <1>4
<1>6. h \in Prices /\ l \in Prices /\ l <= open /\ open <= h
  BY <1>1, <1>2 DEF Prices
<1>7. bar \in Bars /\ bar.time = clock /\ bar.open = open
  <2>1. l <= c /\ c <= h
    BY <1>1, <1>5, <1>6 DEF Prices
  <2>. QED
    BY <1>1, <1>2, <1>5, <1>6, <2>1 DEF Bars
<1>8. TicksOf(bar, d) \in Seq(Prices)
  <2>. DEFINE p == IntrabarPath(bar, d)
  <2>1. p = <<p[1], p[2], p[3], p[4]>> /\ p[1] \in Prices /\ p[2] \in Prices
        /\ p[3] \in Prices /\ p[4] \in Prices
    BY <1>7 DEF IntrabarPath, Bars
  <2>. HIDE DEF p
  <2>2. <<p[1]>> \in Seq(Prices) /\ Steps(p[1], p[2]) \in Seq(Prices)
        /\ Steps(p[2], p[3]) \in Seq(Prices) /\ Steps(p[3], p[4]) \in Seq(Prices)
    BY <2>1, StepsIs
  <2>3. <<p[1]>> \o Steps(p[1], p[2]) \o Steps(p[2], p[3]) \o Steps(p[3], p[4]) \in Seq(Prices)
    BY <2>2
  <2>. QED
    BY <2>3 DEF TicksOf, p
<1>. QED
  BY <1>7, <1>8

\* Nothing, the market or the clock can start out of type.
LEMMA InitTypeInv == Init => TypeInv
<1>. SUFFICES ASSUME Init PROVE TypeInv
  OBVIOUS
<1>1. [pos |-> NoPosition, trades |-> <<>>] \in Sides
  BY DEF Sides
<1>. QED
  BY <1>1 DEF Init, TypeInv

\* A tick of the market, and what the live strategy makes of it.
LEMMA TickIs ==
    ASSUME TypeInv, Tick
    PROVE  /\ Head(path) \in Prices /\ Head(path) \in Int /\ Tail(path) \in Seq(Prices)
           /\ live' \in Sides
           /\ HasPos(live) /\ HasPos(live)' => Same(live'.pos, live.pos)
<1>1. Head(path) \in Prices /\ Head(path) \in Int /\ Tail(path) \in Seq(Prices)
  <2>1. path \in Seq(Prices) /\ path # <<>>
    BY DEF TypeInv, Tick
  <2>2. Head(path) \in Prices /\ Tail(path) \in Seq(Prices)
    BY <2>1
  <2>3. \A x \in Prices : x \in Int
    BY DEF Prices
  <2>. QED
    BY <2>2, <2>3
<1>. DEFINE x == Head(path)
            c == CheckSLTP(live, x)
            reason == CheckExit(live.pos, x)
<1>2. live' = c /\ live \in Sides
  BY DEF TypeInv, Tick
<1>3. /\ c \in Sides
      /\ HasPos(live) /\ reason = "" => Holds(c, live, UpdateMFE(live.pos, x))
      /\ HasPos(live) /\ reason # "" =>
            Ended(c, live, TradeOf(live.pos, reason, ExitFillPriceAt(live.pos, reason, x), FALSE))
  BY <1>1, <1>2, CheckSLTPIs
<1>4. HasPos(live)' = HasPos(c)
  BY <1>2 DEF HasPos
<1>. HIDE DEF c, x
<1>5. ASSUME HasPos(live), HasPos(c) PROVE Same(c.pos, live.pos)
  <2>1. c.pos = UpdateMFE(live.pos, x)
    BY <1>3, <1>5, EndedIs DEF Holds
  <2>2. live.pos \in Positions
    BY <1>2, <1>5, HasPosIs
  <2>3. Same(UpdateMFE(live.pos, x), live.pos)
    BY <1>1, <2>2, UpdateMFEIs DEF x
  <2>. QED
    BY <2>1, <2>3
<1>. QED
  BY <1>1, <1>2, <1>3, <1>4, <1>5

\* The entries that have parted are bars.
LEMMA PartedIs ==
    ASSUME TypeInv, NEW x
    PROVE  PartedBy(x) \subseteq Int
<1>1. HasPos(bt) => bt.pos.entryBar \in Int
  BY HasPosIs DEF TypeInv, Positions
<1>. QED
  BY <1>1 DEF PartedBy, TypeInv

\* Every step keeps the type.
LEMMA NextTypeInv == TypeInv /\ [Next]_vars => TypeInv'
<1>. SUFFICES ASSUME TypeInv, [Next]_vars PROVE TypeInv'
  OBVIOUS
<1>1. CASE NewBar
  <2>1. PICK open \in Prices : \E bar \in BarsFrom(open) :
          /\ bar.close \in bar.low..bar.high
          /\ forming' = bar /\ parted' = PartedBy(open)
          /\ path' = TicksOf(bar, IF HasPos(live) THEN live.pos.direction ELSE "BUY")
    BY <1>1 DEF NewBar
  <2>2. PICK bar \in BarsFrom(open) :
          /\ bar.close \in bar.low..bar.high
          /\ forming' = bar /\ parted' = PartedBy(open)
          /\ path' = TicksOf(bar, IF HasPos(live) THEN live.pos.direction ELSE "BUY")
    BY <2>1
  <2>3. forming' \in Bars /\ path' \in Seq(Prices)
    BY <2>2, NewBarIs
  <2>4. parted' \subseteq Int
    BY <2>2, PartedIs
  <2>. QED
    BY <1>1, <2>3, <2>4 DEF NewBar, TypeInv
<1>2. CASE Tick
  BY <1>2, TickIs DEF Tick, TypeInv
<1>3. CASE CloseBar
  BY <1>3 DEF CloseBar, TypeInv
<1>4. CASE NoTrades
  <2>1. parted' \subseteq Int
    BY <1>4, PartedIs DEF NoTrades
  <2>. QED
    BY <1>4, <2>1 DEF NoTrades, TypeInv
<1>5. CASE Candle
  <2>. DEFINE b == Head(queue)
  <2>1. b \in Bars /\ b.close \in Int /\ Tail(queue) \in Seq(Bars)
    <3>1. b \in Bars /\ Tail(queue) \in Seq(Bars)
      BY <1>5 DEF Candle, TypeInv
    <3>. QED
      BY <3>1, BarIs
  <2>2. PICK signal \in Signals(b) : /\ live' = LiveOnBar(live, b, signal)
                                     /\ bt' = BacktestOnBar(bt, b, signal)
    BY <1>5 DEF Candle
  <2>3. live \in Sides /\ bt \in Sides /\ lastClose \in Int
    BY DEF TypeInv
  <2>. HIDE DEF b
  <2>4. live' \in Sides
    BY <2>1, <2>2, <2>3, LiveOnBarIs
  <2>5. bt' \in Sides
    BY <2>1, <2>2, <2>3, BacktestOnBarFills DEF LastInside
  <2>6. lastPrice' = b.close /\ lastClose' = b.close /\ queue' = Tail(queue)
        /\ UNCHANGED <<clock, price, forming, path, parted>>
    BY <1>5 DEF Candle, b
  <2>. QED
    BY <2>1, <2>4, <2>5, <2>6 DEF TypeInv
<1>6. CASE EodTimer
  <2>1. live' \in Sides
    BY <1>6, CheckEODIs DEF EodTimer, TypeInv
  <2>. QED
    BY <1>6, <2>1 DEF EodTimer, TypeInv
<1>7. CASE NextDay
  BY <1>7 DEF NextDay, TypeInv
<1>8. CASE Done
  BY <1>8 DEF Done, vars, TypeInv
<1>9. CASE UNCHANGED vars
  BY <1>9 DEF vars, TypeInv
<1>. QED
  BY <1>1, <1>2, <1>3, <1>4, <1>5, <1>6, <1>7, <1>8, <1>9 DEF Next

\* Bars, positions and trades keep their type, on both sides.
THEOREM TypeCorrect == Spec => []TypeInv
BY InitTypeInv, NextTypeInv, PTL DEF Spec

\* StopNeverLoosens, one step.
LEMMA NextKeepsStop ==
    ASSUME TypeInv, [Next]_vars, HasPos(live), HasPos(live)', live'.pos.entryBar = live.pos.entryBar
    PROVE  NotWorse(live.pos.direction, live'.pos.stop, live.pos.stop)
<1>1. live \in Sides /\ bt \in Sides /\ live.pos \in Positions /\ live.pos.stop \in Int
  BY HasPosIs DEF TypeInv, Positions
<1>2. CASE live' = live
  BY <1>1, <1>2 DEF NotWorse
<1>3. CASE Tick
  <2>1. live'.pos.stop = live.pos.stop
    BY <1>3, TickIs DEF Same
  <2>. QED
    BY <1>1, <2>1 DEF NotWorse
<1>4. CASE Candle
  <2>. DEFINE b == Head(queue)
  <2>1. b \in Bars
    BY <1>4 DEF Candle, TypeInv
  <2>2. PICK signal \in Signals(b) : live' = LiveOnBar(live, b, signal)
    BY <1>4 DEF Candle
  <2>. DEFINE c == LiveOnBar(live, b, signal)
  <2>3. HasPos(c)
    BY <2>2 DEF HasPos
  <2>. HIDE DEF b
  <2>4. HasPos(live) /\ HasPos(c) /\ c.pos.entryBar = live.pos.entryBar
          => NotWorse(live.pos.direction, c.pos.stop, live.pos.stop)
    BY <1>1, <2>1, LiveOnBarIs
  <2>. HIDE DEF c
  <2>. QED
    BY <2>2, <2>3, <2>4 DEF c
<1>5. CASE EodTimer
  <2>. DEFINE c == CheckEOD(live, lastPrice, clock)
  <2>1. live' = c /\ ShouldForceClose(clock) /\ lastPrice \in Int
    BY <1>5 DEF EodTimer, TypeInv
  <2>2. Ended(c, live, TradeOf(live.pos, "EOD", lastPrice, FALSE))
    BY <1>1, <2>1, CheckEODIs
  <2>. HIDE DEF c
  <2>3. ~HasPos(c)
    BY <2>2, EndedIs
  <2>. QED
    BY <2>1, <2>3 DEF HasPos
<1>. QED
  BY <1>2, <1>3, <1>4, <1>5 DEF Next, NewBar, CloseBar, NoTrades, NextDay, Done, vars

\* Whatever order ticks and closed bars come in, and however many bars wait:
\* the stop of an open position moves towards the gain or stays.
THEOREM StopsNeverLoosen == Spec => StopNeverLoosens
<1>1. TypeInv /\ [Next]_vars
        => [HasPos(live) /\ HasPos(live)' /\ live'.pos.entryBar = live.pos.entryBar
              => NotWorse(live.pos.direction, live'.pos.stop, live.pos.stop)]_vars
  BY NextKeepsStop
<1>. QED
  BY <1>1, TypeCorrect, PTL DEF Spec, StopNeverLoosens

\* BacktestFillsInsideBar, one step.
LEMMA NextFillsInside ==
    ASSUME TypeInv, [Next]_vars, Len(bt'.trades) > Len(bt.trades)
    PROVE  LET trade == bt'.trades[Len(bt'.trades)] IN
           trade.reason = "EOD"
             \/ ~Better(trade.direction, trade.price, TrailPrice(Head(queue), trade.direction))
<1>1. bt \in Sides /\ live \in Sides /\ lastClose \in Int /\ Len(bt.trades) \in Nat
  BY HasPosIs DEF TypeInv
<1>2. CASE Candle
  <2>. DEFINE b == Head(queue)
  <2>1. b \in Bars
    BY <1>2 DEF Candle, TypeInv
  <2>2. PICK signal \in Signals(b) : bt' = BacktestOnBar(bt, b, signal)
    BY <1>2 DEF Candle
  <2>. DEFINE c == BacktestOnBar(bt, b, signal)
  <2>. HIDE DEF b
  <2>3. LastInside(c, bt, b)
    BY <1>1, <2>1, BacktestOnBarFills
  <2>. HIDE DEF c
  <2>4. c.trades # bt.trades
    BY <1>1, <2>2 DEF c
  <2>5. PICK seq \in Seq(Trades) : \E t \in Trades : c.trades = Append(seq, t) /\ GoodFill(t, b)
    BY <2>3, <2>4 DEF LastInside
  <2>6. PICK t \in Trades : c.trades = Append(seq, t) /\ GoodFill(t, b)
    BY <2>5
  <2>7. c.trades[Len(c.trades)] = t
    BY <2>6
  <2>. QED
    BY <2>2, <2>6, <2>7 DEF GoodFill, b, c
<1>3. CASE bt' = bt
  BY <1>1, <1>3
<1>. QED
  BY <1>2, <1>3 DEF Next, NewBar, Tick, CloseBar, NoTrades, EodTimer, NextDay, Done, vars

\* However coarse the backtest's four prices of a bar are: it never fills a
\* stop or a target at a better price than the bar has traded at.
THEOREM FillsStayInsideBar == Spec => BacktestFillsInsideBar
<1>1. TypeInv /\ [Next]_vars
        => [Len(bt'.trades) > Len(bt.trades)
              => LET trade == bt'.trades[Len(bt'.trades)] IN
                 trade.reason = "EOD"
                   \/ ~Better(trade.direction, trade.price,
                              TrailPrice(Head(queue), trade.direction))]_vars
  BY NextFillsInside
<1>. QED
  BY <1>1, TypeCorrect, PTL DEF Spec, BacktestFillsInsideBar

-----------------------------------------------------------------------------
(* Days                                                                    *)

\* A quotient by its remainder.
LEMMA Quotient ==
    ASSUME NEW n \in Int, NEW m \in Nat \ {0}, NEW q \in Int, NEW r \in 0..(m - 1), n = m * q + r
    PROVE  n \div m = q /\ n % m = r
<1>. DEFINE q1 == n \div m
            r1 == n % m
<1>1. q1 \in Int /\ r1 \in 0..(m - 1) /\ n = m * q1 + r1
  OBVIOUS
<1>. HIDE DEF q1, r1
<1>2. m * (q - q1) = r1 - r
  <2>1. m * (q - q1) = m * q - m * q1
    BY <1>1
  <2>. QED
    BY <1>1, <2>1
<1>3. q - q1 = 0
  <2>1. CASE q - q1 >= 1
    <3>1. m * (q - q1) >= m
      BY <1>1, <2>1
    <3>. QED
      BY <1>1, <1>2, <3>1
  <2>2. CASE q - q1 <= -1
    <3>1. m * (q1 - q) >= m
      BY <1>1, <2>2
    <3>2. m * (q1 - q) = -(m * (q - q1))
      BY <1>1
    <3>. QED
      BY <1>1, <1>2, <3>1, <3>2
  <2>. QED
    BY <1>1, <2>1, <2>2
<1>. QED
  BY <1>1, <1>3 DEF q1, r1

\* The day changes behind EOD and nowhere else.
LEMMA NextInstant ==
    ASSUME NEW n \in Int
    PROVE  /\ Day(n) \in Int
           /\ ~ShouldForceClose(n) => Day(n + 1) = Day(n)
           /\ ShouldForceClose(n) => Day(n + 1) = Day(n) + 1 /\ ~ShouldForceClose(n + 1)
<1>. DEFINE m == BarsPerDay + 1
            q == n \div m
            r == n % m
<1>1. m \in Nat \ {0} /\ m > 1
  BY BarTradingAssumption
<1>. HIDE DEF m
<1>2. q \in Int /\ r \in 0..(m - 1) /\ n = m * q + r
  BY <1>1
<1>3. Day(n) = q /\ (ShouldForceClose(n) <=> r = m - 1)
  BY BarTradingAssumption DEF Day, ShouldForceClose, m
<1>. HIDE DEF q, r
<1>4. CASE r # m - 1
  <2>1. n + 1 \in Int /\ r + 1 \in 0..(m - 1) /\ n + 1 = m * q + (r + 1)
    BY <1>1, <1>2, <1>4
  <2>2. (n + 1) \div m = q
    BY <1>1, <1>2, <2>1, Quotient
  <2>. QED
    BY <1>2, <1>3, <1>4, <2>2 DEF Day, m
<1>5. CASE r = m - 1
  <2>1. m * (q + 1) = m * q + m
    BY <1>1, <1>2
  <2>2. n + 1 \in Int /\ 0 \in 0..(m - 1) /\ q + 1 \in Int /\ n + 1 = m * (q + 1) + 0
    BY <1>1, <1>2, <1>5, <2>1
  <2>3. (n + 1) \div m = q + 1 /\ (n + 1) % m = 0
    BY <1>1, <2>2, Quotient
  <2>4. ~ShouldForceClose(n + 1)
    BY <2>3, BarTradingAssumption DEF ShouldForceClose, m
  <2>. QED
    BY <1>2, <1>3, <1>5, <2>3, <2>4 DEF Day, m
<1>. QED
  BY <1>4, <1>5

\* Days follow each other in order.
LEMMA DaysAreOrdered ==
    ASSUME NEW k \in Int, NEW n \in Int, k <= n
    PROVE  Day(k) <= Day(n) /\ Day(k) \in Int /\ Day(n) \in Int
<1>. DEFINE m == BarsPerDay + 1
<1>1. m \in Nat \ {0}
  BY BarTradingAssumption
<1>. HIDE DEF m
<1>. DEFINE qk == k \div m
            rk == k % m
            qn == n \div m
            rn == n % m
<1>2. qk \in Int /\ rk \in 0..(m - 1) /\ k = m * qk + rk
  BY <1>1
<1>3. qn \in Int /\ rn \in 0..(m - 1) /\ n = m * qn + rn
  BY <1>1
<1>4. Day(k) = qk /\ Day(n) = qn
  BY DEF Day, m
<1>. HIDE DEF qk, rk, qn, rn
<1>5. CASE qk - qn >= 1
  <2>1. m * (qk - qn) >= m
    BY <1>1, <1>2, <1>3, <1>5
  <2>2. m * (qk - qn) = m * qk - m * qn
    BY <1>1, <1>2, <1>3
  <2>. QED
    BY <1>1, <1>2, <1>3, <2>1, <2>2
<1>. QED
  BY <1>2, <1>3, <1>4, <1>5

-----------------------------------------------------------------------------
(* A route of prices, and what it hits                                     *)

\* The first of the steps from x to y, and the rest.
LEMMA FirstStep ==
    ASSUME NEW x \in Int, NEW y \in Int
    PROVE  /\ Steps(x, x) = <<>>
           /\ Steps(x, y) \in Seq(Int)
           /\ x < y => Steps(x, y) = <<x + 1>> \o Steps(x + 1, y)
           /\ x > y => Steps(x, y) = <<x - 1>> \o Steps(x - 1, y)
<1>1. Steps(x, x) = <<>>
  BY DEF Steps
<1>2. Steps(x, y) \in Seq(Int)
  <2>1. CASE x <= y
    <3>1. y - x \in Nat /\ \A i \in 1..(y - x) : x + i \in Int
      BY <2>1
    <3>. QED
      BY <2>1, <3>1 DEF Steps
  <2>2. CASE ~(x <= y)
    <3>1. x - y \in Nat /\ \A i \in 1..(x - y) : x - i \in Int
      BY <2>2
    <3>. QED
      BY <2>2, <3>1 DEF Steps
  <2>. QED
    BY <2>1, <2>2
<1>3. ASSUME x < y PROVE Steps(x, y) = <<x + 1>> \o Steps(x + 1, y)
  <2>1. Steps(x, y) = [i \in 1..(y - x) |-> x + i]
    BY <1>3 DEF Steps
  <2>2. Steps(x + 1, y) = [i \in 1..(y - (x + 1)) |-> (x + 1) + i]
    BY <1>3 DEF Steps
  <2>3. y - (x + 1) \in Nat /\ y - x \in Nat
    BY <1>3
  <2>4. Steps(x + 1, y) \in Seq(Int) /\ Len(Steps(x + 1, y)) = y - (x + 1)
    <3>1. \A i \in 1..(y - (x + 1)) : (x + 1) + i \in Int
      OBVIOUS
    <3>. QED
      BY <2>2, <2>3, <3>1
  <2>5. /\ <<x + 1>> \o Steps(x + 1, y) \in Seq(Int)
        /\ Len(<<x + 1>> \o Steps(x + 1, y)) = y - x
        /\ \A i \in 1..(y - x) : (<<x + 1>> \o Steps(x + 1, y))[i]
               = IF i = 1 THEN x + 1 ELSE Steps(x + 1, y)[i - 1]
    BY <2>3, <2>4
  <2>6. \A i \in 1..(y - x) : i # 1 => i - 1 \in 1..(y - (x + 1)) /\ (x + 1) + (i - 1) = x + i
    OBVIOUS
  <2>7. \A i \in 1..(y - x) : (<<x + 1>> \o Steps(x + 1, y))[i] = x + i
    BY <2>2, <2>5, <2>6
  <2>8. Len(Steps(x, y)) = y - x /\ \A i \in 1..(y - x) : Steps(x, y)[i] = x + i
    BY <2>1, <2>3
  <2>9. \A i \in 1..Len(Steps(x, y)) : Steps(x, y)[i] = (<<x + 1>> \o Steps(x + 1, y))[i]
    BY <2>7, <2>8
  <2>. QED
    BY <1>2, <2>5, <2>8, <2>9, SeqEqual, ZenonT(40)
<1>4. ASSUME x > y PROVE Steps(x, y) = <<x - 1>> \o Steps(x - 1, y)
  <2>1. Steps(x, y) = [i \in 1..(x - y) |-> x - i]
    BY <1>4 DEF Steps
  <2>2. CASE x - 1 = y
    <3>1. Steps(x - 1, y) = <<>> /\ Steps(x, y) = [i \in 1..1 |-> x - i]
      BY <2>1, <2>2 DEF Steps
    <3>2. Steps(x, y) = <<x - 1>>
      BY <3>1
    <3>. QED
      BY <3>1, <3>2
  <2>3. CASE x - 1 > y
    <3>2. Steps(x - 1, y) = [i \in 1..((x - 1) - y) |-> (x - 1) - i]
      BY <2>3 DEF Steps
    <3>3. (x - 1) - y \in Nat /\ x - y \in Nat
      BY <1>4
    <3>4. Steps(x - 1, y) \in Seq(Int) /\ Len(Steps(x - 1, y)) = (x - 1) - y
      <4>1. \A i \in 1..((x - 1) - y) : (x - 1) - i \in Int
        OBVIOUS
      <4>. QED
        BY <3>2, <3>3, <4>1
    <3>5. /\ <<x - 1>> \o Steps(x - 1, y) \in Seq(Int)
          /\ Len(<<x - 1>> \o Steps(x - 1, y)) = x - y
          /\ \A i \in 1..(x - y) : (<<x - 1>> \o Steps(x - 1, y))[i]
                 = IF i = 1 THEN x - 1 ELSE Steps(x - 1, y)[i - 1]
      BY <3>3, <3>4
    <3>6. \A i \in 1..(x - y) : i # 1 => i - 1 \in 1..((x - 1) - y) /\ (x - 1) - (i - 1) = x - i
      OBVIOUS
    <3>7. \A i \in 1..(x - y) : (<<x - 1>> \o Steps(x - 1, y))[i] = x - i
      BY <3>2, <3>5, <3>6
    <3>8. Len(Steps(x, y)) = x - y /\ \A i \in 1..(x - y) : Steps(x, y)[i] = x - i
      BY <2>1, <3>3
    <3>9. \A i \in 1..Len(Steps(x, y)) : Steps(x, y)[i] = (<<x - 1>> \o Steps(x - 1, y))[i]
      BY <3>7, <3>8
    <3>. QED
      BY <1>2, <3>5, <3>8, <3>9, SeqEqual
  <2>. QED
    BY <1>4, <2>2, <2>3
<1>. QED
  BY <1>1, <1>2, <1>3, <1>4

\* On a leg of a bar's route: the prices still to come, price x the last.
Ahead(b, d, j, x) ==
    LET p == IntrabarPath(b, d) IN
    CASE j = 2 -> (Steps(x, p[2]) \o Steps(p[2], p[3])) \o Steps(p[3], p[4])
      [] j = 3 -> Steps(x, p[3]) \o Steps(p[3], p[4])
      [] j = 4 -> Steps(x, p[4])

Between(x, y, z) == (x <= y /\ y <= z) \/ (z <= y /\ y <= x)

\* Price x is the last, on leg j, and rest is to come.
OnLeg(b, d, j, x, rest) ==
    LET p == IntrabarPath(b, d) IN
    /\ x \in Int /\ Between(p[j - 1], x, p[j])
    /\ rest = Ahead(b, d, j, x)

\* The open is the first price, and the rest is the first leg.
LEMMA RouteBegins ==
    ASSUME NEW b \in Bars, NEW d \in Directions
    PROVE  /\ TicksOf(b, d) # <<>> /\ Head(TicksOf(b, d)) = b.open
           /\ OnLeg(b, d, 2, b.open, Tail(TicksOf(b, d)))
<1>. DEFINE p == IntrabarPath(b, d)
            A == Steps(p[1], p[2])
            B == Steps(p[2], p[3])
            C == Steps(p[3], p[4])
<1>1. p[1] = b.open /\ p[1] \in Int /\ p[2] \in Int /\ p[3] \in Int /\ p[4] \in Int
  BY PathIs
<1>2. b.low <= p[1] /\ p[1] <= b.high /\ (p[2] = b.low \/ p[2] = b.high)
  BY BarIs DEF IntrabarPath
<1>3. Between(p[1], p[1], p[2])
  BY <1>1, <1>2 DEF Between
<1>. HIDE DEF p
<1>4. A \in Seq(Int) /\ B \in Seq(Int) /\ C \in Seq(Int)
  BY <1>1, FirstStep
<1>5. TicksOf(b, d) = <<p[1]>> \o A \o B \o C
  BY DEF TicksOf, p
<1>6. Ahead(b, d, 2, p[1]) = A \o B \o C
  BY DEF Ahead, p
<1>. HIDE DEF A, B, C
<1>7. <<p[1]>> \o A \o B \o C = <<p[1]>> \o (A \o B \o C) /\ A \o B \o C \in Seq(Int)
  <2>1. <<p[1]>> \in Seq(Int) /\ A \o B \in Seq(Int)
    BY <1>1, <1>4
  <2>2. <<p[1]>> \o A \o B = <<p[1]>> \o (A \o B)
    BY <1>4, <2>1, ConcatAssociative
  <2>3. <<p[1]>> \o (A \o B) \o C = <<p[1]>> \o ((A \o B) \o C)
    BY <1>4, <2>1, ConcatAssociative
  <2>. QED
    BY <1>4, <2>1, <2>2, <2>3, SMTT(20)
<1>8. \A r \in Seq(Int) : /\ <<p[1]>> \o r # <<>> /\ Head(<<p[1]>> \o r) = p[1]
                          /\ Tail(<<p[1]>> \o r) = r
  BY <1>1, SMTT(20)
<1>9. 2 - 1 = 1
  OBVIOUS
<1>10. OnLeg(b, d, 2, b.open, Tail(TicksOf(b, d)))
  BY <1>1, <1>3, <1>5, <1>6, <1>7, <1>8, <1>9 DEF OnLeg, p
<1>. QED
  BY <1>1, <1>5, <1>7, <1>8, <1>10

\* What follows a leg.
Rest(b, d, j) ==
    LET p == IntrabarPath(b, d) IN
    CASE j = 2 -> Steps(p[2], p[3]) \o Steps(p[3], p[4])
      [] j = 3 -> Steps(p[3], p[4])
      [] j = 4 -> <<>>

\* What is ahead is the rest of the leg and what follows it.
LEMMA AheadIs ==
    ASSUME NEW b \in Bars, NEW d \in Directions, NEW j \in 2..4
    PROVE  LET p == IntrabarPath(b, d) IN
           /\ Rest(b, d, j) \in Seq(Int) /\ p[j] \in Int /\ p[j - 1] \in Int
           /\ \A x \in Int : Ahead(b, d, j, x) = Steps(x, p[j]) \o Rest(b, d, j)
           /\ j = 4 => Rest(b, d, j) = <<>>
           /\ j # 4 => Rest(b, d, j) = Ahead(b, d, j + 1, p[j])
<1>. DEFINE p == IntrabarPath(b, d)
            B == Steps(p[2], p[3])
            C == Steps(p[3], p[4])
            Is(i, k) == /\ Rest(b, d, i) \in Seq(Int) /\ p[i] \in Int /\ p[k] \in Int
                        /\ \A x \in Int : Ahead(b, d, i, x) = Steps(x, p[i]) \o Rest(b, d, i)
                        /\ i = 4 => Rest(b, d, i) = <<>>
                        /\ i # 4 => Rest(b, d, i) = Ahead(b, d, i + 1, p[i])
<1>1. p[1] \in Int /\ p[2] \in Int /\ p[3] \in Int /\ p[4] \in Int
  BY PathIs
<1>. HIDE DEF p
<1>2. B \in Seq(Int) /\ C \in Seq(Int)
  BY <1>1, FirstStep
<1>3. \A x \in Int : /\ Steps(x, p[2]) \in Seq(Int) /\ Steps(x, p[3]) \in Seq(Int)
                     /\ Steps(x, p[4]) \in Seq(Int)
  BY <1>1, FirstStep
<1>4. /\ Rest(b, d, 2) = B \o C /\ Rest(b, d, 3) = C /\ Rest(b, d, 4) = <<>>
  BY DEF Rest, p
<1>5. \A x : /\ Ahead(b, d, 2, x) = (Steps(x, p[2]) \o B) \o C
             /\ Ahead(b, d, 3, x) = Steps(x, p[3]) \o C
             /\ Ahead(b, d, 4, x) = Steps(x, p[4])
  BY DEF Ahead, p
<1>6. Is(2, 1)
  <2>1. Ahead(b, d, 2 + 1, p[2]) = B \o C
    BY <1>5
  <2>. HIDE DEF B, C
  <2>2. B \o C \in Seq(Int)
    BY <1>2, ConcatProperties
  <2>3. ASSUME NEW x \in Int PROVE Ahead(b, d, 2, x) = Steps(x, p[2]) \o (B \o C)
    <3>1. Steps(x, p[2]) \in Seq(Int)
      BY <1>3
    <3>2. (Steps(x, p[2]) \o B) \o C = Steps(x, p[2]) \o (B \o C)
      BY <1>2, <3>1, ConcatAssociative, SMTT(20)
    <3>. QED
      BY <1>5, <3>2
  <2>. QED
    BY <1>1, <1>4, <2>1, <2>2, <2>3
<1>7. Is(3, 2)
  <2>1. Ahead(b, d, 3 + 1, p[3]) = C
    BY <1>5
  <2>. HIDE DEF B, C
  <2>. QED
    BY <1>1, <1>2, <1>4, <1>5, <2>1
<1>8. Is(4, 3)
  <2>1. <<>> \in Seq(Int) /\ \A x \in Int : Steps(x, p[4]) \o <<>> = Steps(x, p[4])
    BY <1>3, ConcatEmptySeq
  <2>. QED
    BY <1>1, <1>4, <1>5, <2>1
<1>9. Is(j, j - 1)
  <2>1. (j = 2 /\ j - 1 = 1) \/ (j = 3 /\ j - 1 = 2) \/ (j = 4 /\ j - 1 = 3)
    OBVIOUS
  <2>. HIDE DEF Is
  <2>. QED
    BY <1>6, <1>7, <1>8, <2>1
<1>. QED
  BY <1>9 DEF p

\* The next price on the way from x to y.
Toward1(x, y) == IF x < y THEN x + 1 ELSE x - 1

\* It is the head of what is ahead.
LEMMA StepOn ==
    ASSUME NEW x \in Int, NEW y \in Int, x # y, NEW r \in Seq(Int)
    PROVE  LET s == Steps(x, y) \o r IN
           /\ s # <<>> /\ Head(s) = Toward1(x, y) /\ Tail(s) = Steps(Toward1(x, y), y) \o r
           /\ Toward1(x, y) \in Int
<1>. DEFINE z == Toward1(x, y)
<1>1. z \in Int /\ Steps(x, y) = <<z>> \o Steps(z, y)
  <2>1. CASE x < y
    <3>1. z = x + 1
      BY <2>1 DEF Toward1
    <3>2. Steps(x, y) = <<x + 1>> \o Steps(x + 1, y)
      BY <2>1, FirstStep
    <3>. QED
      BY <3>1, <3>2
  <2>2. CASE x > y
    <3>1. z = x - 1
      BY <2>2 DEF Toward1
    <3>2. Steps(x, y) = <<x - 1>> \o Steps(x - 1, y)
      BY <2>2, FirstStep
    <3>. QED
      BY <3>1, <3>2
  <2>. QED
    BY <2>1, <2>2
<1>. HIDE DEF z
<1>2. Steps(z, y) \in Seq(Int) /\ <<z>> \in Seq(Int) /\ Steps(z, y) \o r \in Seq(Int)
  <2>1. Steps(z, y) \in Seq(Int)
    BY <1>1, FirstStep
  <2>. QED
    BY <1>1, <2>1, ConcatProperties
<1>3. Steps(x, y) \o r = <<z>> \o (Steps(z, y) \o r)
  BY <1>1, <1>2, ConcatAssociative
<1>4. \A q \in Seq(Int) : /\ <<z>> \o q # <<>> /\ Head(<<z>> \o q) = z /\ Tail(<<z>> \o q) = q
  BY <1>1
<1>. QED
  BY <1>1, <1>2, <1>3, <1>4 DEF z

\* The leg that the next price is on: legs in between have no length.
NextLeg(b, d, j, x, rest, k) ==
    LET p == IntrabarPath(b, d) IN
    /\ k \in j..4 /\ \A m \in j..(k - 1) : p[m] = x
    /\ x # p[k] /\ Between(p[k - 1], x, p[k]) /\ Head(rest) = Toward1(x, p[k])
    /\ OnLeg(b, d, k, Head(rest), Tail(rest))

\* A route goes on step by step, or has come to the close.
LEMMA RouteGoesOn ==
    ASSUME NEW b \in Bars, NEW d \in Directions, NEW j \in 2..4,
           NEW x, NEW rest, OnLeg(b, d, j, x, rest)
    PROVE  /\ rest # <<>> => \E k \in 2..4 : NextLeg(b, d, j, x, rest, k)
           /\ rest = <<>> => \A m \in j..4 : IntrabarPath(b, d)[m] = x
<1>. DEFINE p == IntrabarPath(b, d)
            Goes(i) == \A r : OnLeg(b, d, i, x, r) =>
                 /\ r # <<>> => \E k \in 2..4 : NextLeg(b, d, i, x, r, k)
                 /\ r = <<>> => \A m \in i..4 : p[m] = x
<1>0. x \in Int
  BY DEF OnLeg
<1>1. ASSUME NEW i \in 2..4, NEW r, OnLeg(b, d, i, x, r), x # p[i]
      PROVE  r # <<>> /\ \E k \in 2..4 : NextLeg(b, d, i, x, r, k)
  <2>1. /\ Rest(b, d, i) \in Seq(Int) /\ p[i] \in Int /\ p[i - 1] \in Int
        /\ r = Steps(x, p[i]) \o Rest(b, d, i)
    BY <1>0, <1>1, AheadIs DEF OnLeg
  <2>. DEFINE z == Toward1(x, p[i])
  <2>2. Between(p[i - 1], x, p[i])
    BY <1>1 DEF OnLeg
  <2>9. (x < p[i] /\ z = x + 1) \/ (x > p[i] /\ z = x - 1)
    BY <1>0, <1>1, <2>1 DEF Toward1
  <2>. HIDE DEF p
  <2>3. r # <<>> /\ Head(r) = z /\ Tail(r) = Steps(z, p[i]) \o Rest(b, d, i) /\ z \in Int
    BY <1>0, <1>1, <2>1, StepOn
  <2>4. Between(p[i - 1], z, p[i])
    <3>. HIDE DEF z
    <3>. QED
      BY <1>0, <2>1, <2>2, <2>9 DEF Between
  <2>5. Steps(z, p[i]) \o Rest(b, d, i) = Ahead(b, d, i, z)
    BY <2>3, AheadIs DEF p
  <2>6. OnLeg(b, d, i, Head(r), Tail(r))
    BY <2>3, <2>4, <2>5 DEF OnLeg, p
  <2>7. i \in i..4 /\ i..(i - 1) = {}
    BY <1>1
  <2>8. NextLeg(b, d, i, x, r, i)
    BY <1>1, <2>2, <2>3, <2>6, <2>7 DEF NextLeg, p
  <2>. QED
    BY <2>3, <2>8
<1>2. ASSUME NEW i \in 2..3, Goes(i + 1) PROVE Goes(i)
  <2>. SUFFICES ASSUME NEW r, OnLeg(b, d, i, x, r), x = p[i]
                PROVE  /\ r # <<>> => \E k \in 2..4 : NextLeg(b, d, i, x, r, k)
                       /\ r = <<>> => \A m \in i..4 : p[m] = x
    BY <1>1
  <2>1. /\ Rest(b, d, i) \in Seq(Int) /\ p[i] \in Int
        /\ r = Steps(x, p[i]) \o Rest(b, d, i)
        /\ Rest(b, d, i) = Ahead(b, d, i + 1, p[i])
    <3>1. i \in 2..4 /\ i # 4
      OBVIOUS
    <3>. QED
      BY <1>0, <3>1, AheadIs DEF OnLeg
  <2>8. i + 1 \in 2..4 /\ (i + 1) - 1 = i
    OBVIOUS
  <2>2. r = Ahead(b, d, i + 1, x)
    BY <1>0, <2>1, FirstStep, ConcatEmptySeq
  <2>3. p[i + 1] \in Int
    BY <2>8, AheadIs
  <2>4. Between(p[i], x, p[i + 1])
    BY <1>0, <2>3 DEF Between
  <2>5. OnLeg(b, d, i + 1, x, r)
    BY <1>0, <2>2, <2>4, <2>8 DEF OnLeg
  <2>6. CASE r # <<>>
    <3>1. PICK k \in 2..4 : NextLeg(b, d, i + 1, x, r, k)
      BY <1>2, <2>5, <2>6
    <3>2. \A m \in i..(k - 1) : m = i \/ m \in (i + 1)..(k - 1)
      OBVIOUS
    <3>3. k \in i..4
      BY <3>1 DEF NextLeg
    <3>4. NextLeg(b, d, i, x, r, k)
      BY <3>1, <3>2, <3>3 DEF NextLeg
    <3>. QED
      BY <2>6, <3>4
  <2>7. CASE r = <<>>
    <3>1. \A m \in (i + 1)..4 : p[m] = x
      BY <1>2, <2>5, <2>7
    <3>2. \A m \in i..4 : m = i \/ m \in (i + 1)..4
      OBVIOUS
    <3>. QED
      BY <2>7, <3>1, <3>2
  <2>. QED
    BY <2>6, <2>7
<1>3. Goes(4)
  <2>. SUFFICES ASSUME NEW r, OnLeg(b, d, 4, x, r), x = p[4]
                PROVE  /\ r # <<>> => \E k \in 2..4 : NextLeg(b, d, 4, x, r, k)
                       /\ r = <<>> => \A m \in 4..4 : p[m] = x
    BY <1>1
  <2>1. r = Steps(x, p[4]) \o <<>>
    <3>1. 4 \in 2..4
      OBVIOUS
    <3>2. r = Ahead(b, d, 4, x)
      BY DEF OnLeg
    <3>3. Ahead(b, d, 4, x) = Steps(x, p[4]) \o Rest(b, d, 4) /\ Rest(b, d, 4) = <<>>
      BY <1>0, <3>1, AheadIs
    <3>. QED
      BY <3>2, <3>3
  <2>2. r = <<>>
    BY <1>0, <2>1, FirstStep, ConcatEmptySeq
  <2>3. \A m \in 4..4 : m = 4
    OBVIOUS
  <2>. QED
    BY <2>2, <2>3
<1>. HIDE DEF Goes
<1>4. Goes(3)
  BY <1>2, <1>3
<1>5. Goes(2)
  BY <1>2, <1>4
<1>6. Goes(j)
  <2>1. j = 2 \/ j = 3 \/ j = 4
    OBVIOUS
  <2>. QED
    BY <1>3, <1>4, <1>5, <2>1
<1>. QED
  BY <1>6 DEF Goes

\* On a leg the price stays in the bar.
LEMMA LegIsInBar ==
    ASSUME NEW b \in Bars, NEW d \in Directions, NEW j \in 2..4,
           NEW x, NEW rest, OnLeg(b, d, j, x, rest)
    PROVE  x \in Int /\ b.low <= x /\ x <= b.high /\ NotWorse(d, TrailPrice(b, d), x)
<1>. DEFINE p == IntrabarPath(b, d)
<1>1. \A i \in 1..4 : p[i] \in Int /\ b.low <= p[i] /\ p[i] <= b.high
  BY PathIs
<1>2. j \in 1..4 /\ j - 1 \in 1..4
  OBVIOUS
<1>3. x \in Int /\ Between(p[j - 1], x, p[j])
  BY DEF OnLeg
<1>. HIDE DEF p
<1>4. b.low <= x /\ x <= b.high
  BY <1>1, <1>2, <1>3, BarIs DEF Between
<1>. QED
  BY <1>3, <1>4, BarIs DEF NotWorse, Better, TrailPrice, Directions

\* A level that is reached at the step from x to z, on the way to y.
LEMMA LevelReached ==
    ASSUME NEW d \in Directions, NEW x \in Int, NEW y \in Int, NEW z \in Int,
           (x < y /\ z = x + 1) \/ (x > y /\ z = x - 1), NEW l \in Int, NEW t \in Int
    PROVE  /\ NotWorse(d, l, z) /\ ~NotWorse(d, l, x) => l = z /\ NotWorse(d, l, y)
           /\ NotWorse(d, z, t) /\ ~NotWorse(d, x, t) =>
                 /\ t = z /\ NotWorse(d, y, t)
                 /\ ~NotWorse(d, l, z) => ~NotWorse(d, l, y)
<1>1. CASE x < y /\ z = x + 1
  BY <1>1 DEF NotWorse, Better, Directions
<1>2. CASE x > y /\ z = x - 1
  BY <1>2 DEF NotWorse, Better, Directions
<1>. QED
  BY <1>1, <1>2

\* A price at which neither stop nor target is hit.
Missed(q, x) == CheckExit(q, x) = ""

\* What is missed, and what is hit.
LEMMA MissedIs ==
    ASSUME NEW q, NEW x
    PROVE  /\ Missed(q, x) <=> /\ ~NotWorse(q.direction, q.stop, x)
                               /\ ~(q.take > 0 /\ NotWorse(q.direction, x, q.take))
           /\ NotWorse(q.direction, q.stop, x) <=> CheckExit(q, x) = "STOP_LOSS"
           /\ ~Missed(q, x) /\ ~NotWorse(q.direction, q.stop, x)
                <=> CheckExit(q, x) = "TAKE_PROFIT"
BY DEF Missed, CheckExit

\* The first price that hits, on the way from x to y, hits at a level that y
\* hits too, and both are filled at it.
LEMMA HitOnTheWay ==
    ASSUME NEW q \in Positions, NEW x \in Int, NEW y \in Int, NEW z \in Int, z > 0,
           (x < y /\ z = x + 1) \/ (x > y /\ z = x - 1), Missed(q, x), ~Missed(q, z)
    PROVE  LET reason == CheckExit(q, z) IN
           /\ CheckExit(q, y) = reason /\ ~Missed(q, y)
           /\ ExitFillPriceAt(q, reason, z) = ExitFillPrice(q, reason, y)
<1>. DEFINE reason == CheckExit(q, z)
<1>1. q.stop \in Int /\ q.take \in Int /\ q.direction \in Directions
  BY DEF Positions
<1>2. ~NotWorse(q.direction, q.stop, x) /\ ~(q.take > 0 /\ NotWorse(q.direction, x, q.take))
  BY MissedIs
<1>3. CASE NotWorse(q.direction, q.stop, z)
  <2>1. q.stop = z /\ NotWorse(q.direction, q.stop, y)
    BY <1>1, <1>2, <1>3, LevelReached
  <2>2. reason = "STOP_LOSS" /\ CheckExit(q, y) = "STOP_LOSS" /\ ~Missed(q, y)
    BY <1>3, <2>1, MissedIs
  <2>3. \A w : ExitFillPrice(q, "STOP_LOSS", w) = q.stop
    BY <2>1 DEF ExitFillPrice
  <2>4. ExitFillPriceAt(q, "STOP_LOSS", z) = q.stop
    BY <2>1, <2>3 DEF ExitFillPriceAt, WorstOf
  <2>. HIDE DEF reason
  <2>. QED
    BY <2>2, <2>3, <2>4 DEF reason
<1>4. CASE ~NotWorse(q.direction, q.stop, z)
  <2>1. q.take > 0 /\ NotWorse(q.direction, z, q.take) /\ reason = "TAKE_PROFIT"
    BY <1>4, MissedIs
  <2>2. q.take = z /\ NotWorse(q.direction, y, q.take) /\ ~NotWorse(q.direction, q.stop, y)
    BY <1>1, <1>2, <1>4, <2>1, LevelReached
  <2>3. CheckExit(q, y) = "TAKE_PROFIT" /\ ~Missed(q, y)
    BY <2>1, <2>2, MissedIs
  <2>4. \A w : /\ ExitFillPrice(q, "TAKE_PROFIT", w) = q.take
               /\ ExitFillPriceAt(q, "TAKE_PROFIT", w) = q.take
    BY <2>1 DEF ExitFillPrice, ExitFillPriceAt
  <2>. HIDE DEF reason
  <2>. QED
    BY <2>1, <2>3, <2>4 DEF reason
<1>. QED
  BY <1>3, <1>4

-----------------------------------------------------------------------------
(* The live position that goes with a backtest's                           *)

\* Where the stop hangs that the close of the entry bar trails.
Hang(p) == Toward(p.direction, p.entryClose, -p.r)

\* It is the same position, its stop no worse.
LEMMA AsLiveIs ==
    ASSUME NEW p \in Positions
    PROVE  LET a == AsLive(p) IN
           /\ a \in Positions /\ SameOrigin(a, p) /\ a.stage = p.stage
           /\ a.mfe = BestOf(p.direction, p.entryClose, p.mfe)
           /\ a.stop = IF p.stage >= StageMax THEN BestOf(p.direction, Hang(p), p.stop) ELSE p.stop
           /\ NotWorse(p.direction, a.stop, p.stop)
<1>. DEFINE m == BestOf(p.direction, p.entryClose, p.mfe)
            s == IF p.stage >= StageMax THEN BestOf(p.direction, Hang(p), p.stop) ELSE p.stop
<1>1. p.mfe \in Int /\ p.entryClose \in Int /\ p.stop \in Int /\ p.r \in Int
  BY DEF Positions
<1>2. Hang(p) \in Int
  BY <1>1 DEF Hang, Toward
<1>3. m \in Int /\ s \in Int /\ NotWorse(p.direction, s, p.stop)
  BY <1>1, <1>2, BestIs, Order
<1>4. AsLive(p) = [p EXCEPT !.mfe = m, !.stop = s]
  BY DEF AsLive, Hang
<1>. HIDE DEF m, s
<1>5. AsLive(p) \in Positions /\ SameOrigin(AsLive(p), p) /\ AsLive(p).stage = p.stage
      /\ AsLive(p).mfe = m /\ AsLive(p).stop = s
  BY <1>3, <1>4 DEF Positions, SameOrigin
<1>. QED
  BY <1>3, <1>5 DEF m, s

\* The two best prices of three, in any order.
LEMMA BestTwice ==
    ASSUME NEW d, NEW x \in Int, NEW y \in Int, NEW z \in Int
    PROVE  BestOf(d, x, BestOf(d, y, z)) = BestOf(d, y, BestOf(d, x, z))
           /\ BestOf(d, x, BestOf(d, y, z)) = BestOf(d, BestOf(d, x, y), z)
BY DEF BestOf, Better

\* A better price hangs the stop better.
LEMMA BestHang ==
    ASSUME NEW d, NEW x \in Int, NEW y \in Int, NEW r \in Int
    PROVE  Toward(d, BestOf(d, x, y), -r) = BestOf(d, Toward(d, x, -r), Toward(d, y, -r))
BY DEF BestOf, Better, Toward

\* Positions of one origin, stop, stage and best price are the same.
LEMMA OriginValue ==
    ASSUME NEW p \in Positions, NEW q \in Positions, SameOrigin(q, p),
           q.stop = p.stop, q.stage = p.stage, q.mfe = p.mfe
    PROVE  q = p
BY SameValue DEF SameOrigin, Same

\* A price that both see counts on both sides.
LEMMA UpdateMFEAsLive ==
    ASSUME NEW p \in Positions, NEW x \in Int
    PROVE  UpdateMFE(AsLive(p), x) = AsLive(UpdateMFE(p, x))
<1>. DEFINE d == p.direction
            u == UpdateMFE(p, x)
            a == AsLive(p)
            v == UpdateMFE(a, x)
            w == AsLive(u)
<1>1. u \in Positions /\ Same(u, p) /\ u.mfe = BestOf(d, x, p.mfe)
  BY UpdateMFEIs
<1>2. /\ a \in Positions /\ SameOrigin(a, p) /\ a.stage = p.stage
      /\ a.mfe = BestOf(d, p.entryClose, p.mfe)
      /\ a.stop = IF p.stage >= StageMax THEN BestOf(d, Hang(p), p.stop) ELSE p.stop
  BY AsLiveIs
<1>. HIDE DEF u, a
<1>3. v \in Positions /\ Same(v, a) /\ v.mfe = BestOf(a.direction, x, a.mfe)
  BY <1>2, UpdateMFEIs
<1>4. /\ w \in Positions /\ SameOrigin(w, u) /\ w.stage = u.stage
      /\ w.mfe = BestOf(u.direction, u.entryClose, u.mfe)
      /\ w.stop = IF u.stage >= StageMax THEN BestOf(u.direction, Hang(u), u.stop) ELSE u.stop
  BY <1>1, AsLiveIs
<1>. HIDE DEF v, w
<1>5. p.mfe \in Int /\ p.entryClose \in Int
  BY DEF Positions
<1>6. /\ u.direction = d /\ a.direction = d /\ u.entryClose = p.entryClose /\ u.r = p.r
      /\ u.stage = p.stage /\ u.stop = p.stop
  BY <1>1, <1>2 DEF Same, SameOrigin
<1>7. Hang(u) = Hang(p)
  BY <1>6 DEF Hang
<1>8. BestOf(d, x, BestOf(d, p.entryClose, p.mfe)) = BestOf(d, p.entryClose, BestOf(d, x, p.mfe))
  BY <1>5, BestTwice
<1>9. w.mfe = v.mfe
  BY <1>1, <1>2, <1>3, <1>4, <1>6, <1>8
<1>10. v.stop = a.stop /\ v.stage = a.stage
  BY <1>3 DEF Same
<1>11. w.stop = v.stop /\ w.stage = v.stage
  BY <1>2, <1>4, <1>6, <1>7, <1>10
<1>12. SameOrigin(v, w)
  BY <1>1, <1>2, <1>3, <1>4 DEF SameOrigin, Same
<1>13. v = w
  BY <1>3, <1>4, <1>9, <1>11, <1>12, OriginValue
<1>. QED
  BY <1>13 DEF v, w, u, a

\* q is p seen with the close of the entry bar, while the stages are entered.
Leads(q, p) ==
    /\ q \in Positions /\ p \in Positions /\ SameOrigin(q, p) /\ q.stage = p.stage
    /\ q.mfe = BestOf(p.direction, p.entryClose, p.mfe)
    /\ \/ q.stop = p.stop
       \/ p.stage >= StageMax /\ q.stop = BestOf(p.direction, Hang(p), p.stop)

\* A stage is entered by both.
LEMMA EnterStageLeads ==
    ASSUME NEW q, NEW p, Leads(q, p), NEW n \in 1..StageMax, NEW x
    PROVE  Leads(EnterStage(q, n, x), EnterStage(p, n, x))
<1>0. n \in Int /\ StageMax \in Nat /\ n <= StageMax /\ q \in Positions /\ p \in Positions
  BY PositionAssumption DEF Leads
<1>. DEFINE R == ActivationR + (n - 1) * DiscreteStepR
            Waits(o) == o.stage >= n \/ ~TriggerReached(o, x, R)
            sl(o) == IF n = 1 THEN BreakevenSL(o) ELSE LockSL(o, ActivationR + (n - 2) * DiscreteStepR)
            on(o) == [MoveSL(o, sl(o)) EXCEPT !.stage = n]
<1>1. \A o : EnterStage(o, n, x) = IF Waits(o) THEN o ELSE on(o)
  BY DEF EnterStage
<1>2. /\ q.direction = p.direction /\ q.entry = p.entry /\ q.r = p.r /\ q.stage = p.stage
      /\ q.entryClose = p.entryClose
  BY DEF Leads, SameOrigin
<1>3. /\ \A m : TriggerReached(q, x, m) <=> TriggerReached(p, x, m)
      /\ BreakevenSL(q) = BreakevenSL(p) /\ \A m : LockSL(q, m) = LockSL(p, m)
  BY <1>2 DEF TriggerReached, BreakevenSL, LockSL, InPrice
<1>4. Waits(q) <=> Waits(p)
  BY <1>2, <1>3
<1>5. sl(q) = sl(p)
  BY <1>3
<1>6. p.stage >= StageMax => Waits(p)
  <2>1. p.stage \in Int
    BY <1>0 DEF Positions
  <2>. QED
    BY <1>0, <2>1
<1>7. Trailed(EnterStage(q, n, x), q) /\ Trailed(EnterStage(p, n, x), p)
  BY <1>0, EnterStageIs
<1>. HIDE DEF Waits, sl
<1>8. CASE Waits(p)
  BY <1>1, <1>4, <1>8
<1>9. CASE ~Waits(p)
  <2>1. q.stop = p.stop
    BY <1>6, <1>9 DEF Leads
  <2>2. EnterStage(q, n, x) = on(q) /\ EnterStage(p, n, x) = on(p)
    BY <1>1, <1>4, <1>9
  <2>3. \A o \in Positions :
           /\ on(o).stop = BestOf(o.direction, sl(o), o.stop) /\ on(o).stage = n
    BY DEF MoveSL, Positions
  <2>. HIDE DEF on
  <2>4. on(q).stop = on(p).stop /\ on(q).stage = on(p).stage
    BY <1>0, <1>2, <1>5, <2>1, <2>3
  <2>5. /\ on(q) \in Positions /\ SameOrigin(on(q), q) /\ on(q).mfe = q.mfe
        /\ on(p) \in Positions /\ SameOrigin(on(p), p) /\ on(p).mfe = p.mfe
    BY <1>7, <2>2 DEF Trailed
  <2>. DEFINE oq == on(q)
              op == on(p)
  <2>6. SameOrigin(oq, op) /\ op.direction = p.direction /\ op.entryClose = p.entryClose
    <3>1. SameOrigin(q, p)
      BY DEF Leads
    <3>. HIDE DEF oq, op
    <3>2. SameOrigin(oq, q) /\ SameOrigin(op, p)
      BY <2>5 DEF oq, op
    <3>. QED
      BY <3>1, <3>2 DEF SameOrigin
  <2>7. oq.mfe = BestOf(op.direction, op.entryClose, op.mfe)
    BY <2>5, <2>6 DEF Leads
  <2>8. Leads(oq, op)
    BY <2>4, <2>5, <2>6, <2>7 DEF Leads
  <2>. QED
    BY <2>2, <2>8
<1>. QED
  BY <1>8, <1>9

\* All stages are.
LEMMA EnterStagesLead ==
    ASSUME NEW q, NEW p, Leads(q, p), NEW x
    PROVE  Leads(EnterStages(q, x), EnterStages(p, x))
<1>0. q \in Positions /\ p \in Positions /\ StageMax \in Nat
  BY PositionAssumption DEF Leads
<1>1. PICK f : Stages(q, x, f) /\ EnterStages(q, x) = f[StageMax]
  <2>1. Stages(q, x, CHOOSE upTo : Stages(q, x, upTo))
    BY <1>0, StagesExist
  <2>. QED
    BY <2>1, EnterStagesIs
<1>2. PICK h : Stages(p, x, h) /\ EnterStages(p, x) = h[StageMax]
  <2>1. Stages(p, x, CHOOSE upTo : Stages(p, x, upTo))
    BY <1>0, StagesExist
  <2>. QED
    BY <2>1, EnterStagesIs
<1>3. \A n \in 0..StageMax :
         /\ f[n] = IF n = 0 THEN q ELSE EnterStage(f[n - 1], n, x)
         /\ h[n] = IF n = 0 THEN p ELSE EnterStage(h[n - 1], n, x)
  BY <1>1, <1>2 DEF Stages
<1>. DEFINE T == {n \in Nat : n <= StageMax => Leads(f[n], h[n])}
<1>4. 0 \in T
  <2>1. f[0] = q /\ h[0] = p
    BY <1>0, <1>3
  <2>. QED
    BY <2>1
<1>5. ASSUME NEW n \in T PROVE n + 1 \in T
  <2>. SUFFICES ASSUME n + 1 <= StageMax PROVE Leads(f[n + 1], h[n + 1])
    OBVIOUS
  <2>1. /\ n \in Nat /\ n <= StageMax /\ n + 1 \in 0..StageMax /\ n + 1 \in 1..StageMax
        /\ n + 1 # 0 /\ (n + 1) - 1 = n
    BY <1>0
  <2>2. f[n + 1] = EnterStage(f[n], n + 1, x) /\ h[n + 1] = EnterStage(h[n], n + 1, x)
    BY <1>3, <2>1
  <2>3. Leads(f[n], h[n])
    BY <2>1
  <2>. QED
    BY <2>1, <2>2, <2>3, EnterStageLeads
<1>6. T = Nat
  <2>. HIDE DEF T
  <2>1. T \in SUBSET Nat
    BY DEF T
  <2>. QED
    BY <1>4, <1>5, <2>1, NaturalInduction
<1>7. StageMax \in T
  BY <1>0, <1>6
<1>. QED
  BY <1>0, <1>1, <1>2, <1>7

\* The best of a hanging stop and what the best price trails is what the best of
\* both prices trails.
LEMMA BestTrails ==
    ASSUME NEW d, NEW c \in Int, NEW m \in Int, NEW s \in Int, NEW r \in Int
    PROVE  LET hang == Toward(d, c, -r)
               both == BestOf(d, hang, BestOf(d, Toward(d, m, -r), s))
           IN /\ BestOf(d, Toward(d, BestOf(d, c, m), -r), s) = both
              /\ BestOf(d, Toward(d, BestOf(d, c, m), -r), BestOf(d, hang, s)) = both
BY DEF BestOf, Better, Toward

\* The trail makes of a live position what goes with what it makes of the
\* backtest's.
LEMMA ApplyAsLive ==
    ASSUME NEW p \in Positions, NEW x
    PROVE  Apply(AsLive(p), x) = AsLive(Apply(p, x))
<1>. DEFINE a == AsLive(p)
            d == p.direction
            e == EnterStages(p, x)
            f == EnterStages(a, x)
<1>1. /\ a \in Positions /\ SameOrigin(a, p) /\ a.stage = p.stage
      /\ a.mfe = BestOf(d, p.entryClose, p.mfe)
      /\ a.stop = IF p.stage >= StageMax THEN BestOf(d, Hang(p), p.stop) ELSE p.stop
  BY AsLiveIs
<1>2. Leads(a, p)
  BY <1>1 DEF Leads
<1>3. a.r = p.r
  BY <1>1 DEF SameOrigin
<1>4. CASE p.r <= 0
  BY <1>3, <1>4 DEF Apply
<1>5. CASE ~(p.r <= 0)
  <2>1. Leads(f, e)
    BY <1>2, EnterStagesLead
  <2>2. /\ Apply(a, x) = IF f.stage >= StageMax THEN ContinuousSL(f) ELSE f
        /\ Apply(p, x) = IF e.stage >= StageMax THEN ContinuousSL(e) ELSE e
    BY <1>3, <1>5 DEF Apply
  <2>. HIDE DEF e, f, a
  <2>3. /\ f \in Positions /\ e \in Positions /\ SameOrigin(f, e) /\ f.stage = e.stage
        /\ f.mfe = BestOf(e.direction, e.entryClose, e.mfe)
        /\ f.stop = e.stop \/ (e.stage >= StageMax /\ f.stop = BestOf(e.direction, Hang(e), e.stop))
    BY <2>1 DEF Leads
  <2>4. CASE ~(e.stage >= StageMax)
    <3>. DEFINE w == AsLive(e)
    <3>1. /\ w \in Positions /\ SameOrigin(w, e) /\ w.stage = e.stage
          /\ w.mfe = BestOf(e.direction, e.entryClose, e.mfe) /\ w.stop = e.stop
      BY <2>3, <2>4, AsLiveIs
    <3>. HIDE DEF w
    <3>2. SameOrigin(f, w)
      BY <2>3, <3>1 DEF SameOrigin
    <3>3. f.stop = w.stop /\ f.stage = w.stage /\ f.mfe = w.mfe
      BY <2>3, <2>4, <3>1
    <3>4. f = w
      BY <2>3, <3>1, <3>2, <3>3, OriginValue
    <3>. QED
      BY <2>2, <2>3, <2>4, <3>4 DEF w, a
  <2>5. CASE e.stage >= StageMax
    <3>. DEFINE ce == ContinuousSL(e)
                cf == ContinuousSL(f)
                w == AsLive(ce)
    <3>1. e.mfe \in Int /\ e.r \in Int /\ e.entryClose \in Int /\ e.stop \in Int
      BY <2>3 DEF Positions
    <3>2. /\ f.mfe \in Int /\ f.r = e.r /\ f.direction = e.direction
      BY <2>3 DEF Positions, SameOrigin
    <3>3. Toward(e.direction, e.mfe, -e.r) \in Int /\ Toward(f.direction, f.mfe, -f.r) \in Int
      BY <3>1, <3>2 DEF Toward
    <3>4. /\ ce \in Positions /\ SameOrigin(ce, e) /\ ce.mfe = e.mfe
          /\ cf \in Positions /\ SameOrigin(cf, f) /\ cf.mfe = f.mfe
      BY <2>3, <3>3, MoveSLIs DEF ContinuousSL
    <3>5. /\ ce.stop = BestOf(e.direction, Toward(e.direction, e.mfe, -e.r), e.stop)
          /\ cf.stop = BestOf(f.direction, Toward(f.direction, f.mfe, -f.r), f.stop)
          /\ ce.stage = e.stage /\ cf.stage = f.stage
      BY <2>3 DEF ContinuousSL, MoveSL, Positions
    <3>. HIDE DEF ce, cf
    <3>6. /\ w \in Positions /\ SameOrigin(w, ce) /\ w.stage = ce.stage
          /\ w.mfe = BestOf(ce.direction, ce.entryClose, ce.mfe)
          /\ w.stop = IF ce.stage >= StageMax THEN BestOf(ce.direction, Hang(ce), ce.stop) ELSE ce.stop
      BY <3>4, AsLiveIs
    <3>. HIDE DEF w
    <3>7. ce.direction = e.direction /\ ce.entryClose = e.entryClose /\ ce.r = e.r /\ Hang(ce) = Hang(e)
      BY <3>4 DEF SameOrigin, Hang
    <3>8. w.stop = BestOf(e.direction, Hang(e), ce.stop)
      BY <2>5, <3>5, <3>6, <3>7
    <3>9. cf.stop = w.stop
      BY <2>3, <3>1, <3>2, <3>5, <3>8, BestTrails DEF Hang
    <3>10. cf.mfe = w.mfe /\ cf.stage = w.stage
      BY <2>3, <3>4, <3>5, <3>6, <3>7
    <3>11. SameOrigin(cf, w)
      BY <2>3, <3>4, <3>6 DEF SameOrigin
    <3>12. cf = w
      BY <3>4, <3>6, <3>9, <3>10, <3>11, OriginValue
    <3>. QED
      BY <2>2, <2>3, <2>5, <3>12 DEF w, cf, ce, a
  <2>. QED
    BY <2>4, <2>5
<1>. QED
  BY <1>4, <1>5

-----------------------------------------------------------------------------
(* The two sides beside each other                                         *)

\* A trade without what becomes of its stop.
Unmarked(a) == [a EXCEPT !.stop = 0, !.stage = 0]

\* A trade that SameExit asks nothing of.
Exempt(a) == a.reason = "STOP_LOSS" /\ EntryBarTrails(a)

\* What it asks of two trades of one entry.
Alike(a, b) ==
    /\ Unmarked(a) = Unmarked(b)
    /\ a.reason # "EOD" /\ ~EntryBarTrails(a) => a = b

\* What a price x at which it can trade makes of a position that it ends.
EndOf(p, x) == TradeOf(p, CheckExit(p, x), ExitFillPriceAt(p, CheckExit(p, x), x), FALSE)

\* The path of a bar hits nothing.
MissesAll(q, bar) == \A m \in 1..4 : Missed(q, IntrabarPath(bar, q.direction)[m])

\* What is stored of p, its stop at s and at stage g.
Stored(p, reason, x, s, g, u) ==
    [entryBar |-> p.entryBar, entryClose |-> p.entryClose, direction |-> p.direction, r |-> p.r,
     reason |-> reason, price |-> x, stop |-> s, stage |-> g, audit |-> u]

\* Unmarked it does not say where the stop was.
LEMMA StoredUnmarked ==
    ASSUME NEW a, NEW p, NEW reason, NEW x, NEW s, NEW g, NEW u, a = Stored(p, reason, x, s, g, u)
    PROVE  Unmarked(a) = Stored(p, reason, x, 0, 0, u) /\ a.reason = reason
<1>1. PICK b : b = [a EXCEPT !.stop = 0]
  OBVIOUS
<1>2. b = Stored(p, reason, x, 0, g, u)
  BY <1>1 DEF Stored
<1>3. [b EXCEPT !.stage = 0] = Stored(p, reason, x, 0, 0, u)
  BY <1>2 DEF Stored
<1>4. [a EXCEPT !.stop = 0, !.stage = 0] = [b EXCEPT !.stage = 0]
  BY <1>1
<1>5. a.reason = reason
  BY DEF Stored
<1>. QED
  BY <1>3, <1>4, <1>5 DEF Unmarked

\* Positions that were opened alike and are closed at EOD are stored alike.
LEMMA EodAlike ==
    ASSUME NEW p \in Positions, NEW q \in Positions, SameOrigin(p, q), NEW x
    PROVE  Alike(TradeOf(p, "EOD", x, FALSE), TradeOf(q, "EOD", x, FALSE))
<1>. DEFINE a == TradeOf(p, "EOD", x, FALSE)
            b == TradeOf(q, "EOD", x, FALSE)
            u == AnnotateTrade(p, "EOD", x, FALSE)
            w == AnnotateTrade(q, "EOD", x, FALSE)
<1>1. /\ ValidateClose(p, "EOD", x, FALSE) = {} /\ ValidateClose(q, "EOD", x, FALSE) = {}
  BY DEF ValidateClose
<1>2. /\ p.r = q.r /\ p.openCodes = q.openCodes
      /\ p.entryBar = q.entryBar /\ p.entryClose = q.entryClose /\ p.direction = q.direction
  BY DEF SameOrigin
<1>3. u = w
  BY <1>1, <1>2 DEF AnnotateTrade
<1>4. a = Stored(p, "EOD", x, p.stop, p.stage, u) /\ b = Stored(q, "EOD", x, q.stop, q.stage, w)
  BY DEF TradeOf, Stored
<1>. HIDE DEF a, b, u, w
<1>5. /\ Unmarked(a) = Stored(p, "EOD", x, 0, 0, u) /\ Unmarked(b) = Stored(q, "EOD", x, 0, 0, w)
      /\ a.reason = "EOD"
  BY <1>4, StoredUnmarked
<1>6. Stored(p, "EOD", x, 0, 0, u) = Stored(q, "EOD", x, 0, 0, w)
  BY <1>2, <1>3 DEF Stored
<1>7. Alike(a, b)
  BY <1>5, <1>6 DEF Alike
<1>. QED
  BY <1>7 DEF a, b

\* What is alike to the same trade in turn is alike.
LEMMA AlikeTwice ==
    ASSUME NEW a, NEW b, NEW c, Alike(a, b), Alike(b, c)
    PROVE  Alike(a, c) /\ Alike(a, a)
BY DEF Alike

\* Positions that are the same but for their best price miss the same prices.
LEMMA MissesSame ==
    ASSUME NEW p \in Positions, NEW q \in Positions, Same(p, q)
    PROVE  /\ \A x : Missed(p, x) <=> Missed(q, x)
           /\ \A bar : MissesAll(p, bar) <=> MissesAll(q, bar)
<1>1. p.direction = q.direction
  BY DEF Same
<1>2. \A x : CheckExit(p, x) = CheckExit(q, x)
  BY DEF Same, CheckExit
<1>3. \A x : Missed(p, x) <=> Missed(q, x)
  BY <1>2 DEF Missed
<1>. QED
  BY <1>1, <1>3 DEF MissesAll

\* A live position with the backtest's it goes with: the stop is the same, or it
\* hangs at the close of the entry bar.
LEMMA TwinStops ==
    ASSUME NEW p \in Positions, NEW q \in Positions, Same(q, AsLive(p))
    PROVE  /\ SameOrigin(q, p) /\ q.stage = p.stage /\ NotWorse(p.direction, q.stop, p.stop)
           /\ Same(q, p) \/ (q.stage >= StageMax /\ q.stop = Hang(q))
<1>1. /\ AsLive(p) \in Positions /\ SameOrigin(AsLive(p), p) /\ AsLive(p).stage = p.stage
      /\ AsLive(p).stop = IF p.stage >= StageMax THEN BestOf(p.direction, Hang(p), p.stop) ELSE p.stop
      /\ NotWorse(p.direction, AsLive(p).stop, p.stop)
  BY AsLiveIs
<1>2. SameOrigin(q, p) /\ q.stage = p.stage /\ q.stop = AsLive(p).stop
  BY <1>1 DEF Same, SameOrigin
<1>3. Hang(q) = Hang(p)
  BY <1>2 DEF SameOrigin, Hang
<1>4. BestOf(p.direction, Hang(p), p.stop) \in {Hang(p), p.stop}
  BY DEF BestOf
<1>5. q.stop = p.stop \/ (q.stage >= StageMax /\ q.stop = Hang(q))
  BY <1>1, <1>2, <1>3, <1>4
<1>6. q.stop = p.stop => Same(q, p)
  BY <1>2 DEF SameOrigin, Same
<1>. QED
  BY <1>1, <1>2, <1>5, <1>6

\* What the live position misses, the other misses.
LEMMA TwinMisses ==
    ASSUME NEW p \in Positions, NEW q \in Positions, Same(q, AsLive(p))
    PROVE  /\ \A x \in Int : Missed(q, x) => Missed(p, x)
           /\ \A bar \in Bars : MissesAll(q, bar) => MissesAll(p, bar)
<1>1. SameOrigin(q, p) /\ NotWorse(p.direction, q.stop, p.stop)
  BY TwinStops
<1>2. q.direction = p.direction /\ q.take = p.take /\ q.stop \in Int /\ p.stop \in Int
      /\ p.direction \in Directions
  BY <1>1 DEF SameOrigin, Positions
<1>3. ASSUME NEW x \in Int, Missed(q, x) PROVE Missed(p, x)
  <2>1. ~NotWorse(p.direction, q.stop, x) /\ ~(p.take > 0 /\ NotWorse(p.direction, x, p.take))
    BY <1>2, <1>3, MissedIs
  <2>2. NotWorse(p.direction, p.stop, x) => NotWorse(p.direction, q.stop, x)
    BY <1>1, <1>2, Order
  <2>. QED
    BY <2>1, <2>2, MissedIs
<1>4. ASSUME NEW bar \in Bars, MissesAll(q, bar) PROVE MissesAll(p, bar)
  <2>1. \A m \in 1..4 : IntrabarPath(bar, p.direction)[m] \in Int
    BY <1>2, PathIs
  <2>2. \A m \in 1..4 : Missed(q, IntrabarPath(bar, p.direction)[m])
    BY <1>2, <1>4 DEF MissesAll
  <2>. QED
    BY <1>3, <2>1, <2>2 DEF MissesAll
<1>. QED
  BY <1>3, <1>4

\* A target that the live position hits, the other hits.
LEMMA TwinTakes ==
    ASSUME NEW p \in Positions, NEW q \in Positions, Same(q, AsLive(p)),
           NEW x \in Int, CheckExit(q, x) = "TAKE_PROFIT"
    PROVE  /\ CheckExit(p, x) = "TAKE_PROFIT" /\ ~Missed(p, x)
           /\ q.take = p.take
           /\ \A y : /\ ExitFillPrice(p, "TAKE_PROFIT", y) = p.take
                     /\ ExitFillPriceAt(p, "TAKE_PROFIT", y) = p.take
                     /\ ExitFillPriceAt(q, "TAKE_PROFIT", y) = p.take
<1>1. SameOrigin(q, p) /\ NotWorse(p.direction, q.stop, p.stop)
  BY TwinStops
<1>2. q.direction = p.direction /\ q.take = p.take /\ q.stop \in Int /\ p.stop \in Int
  BY <1>1 DEF SameOrigin, Positions
<1>3. ~Missed(q, x) /\ ~NotWorse(p.direction, q.stop, x)
  BY <1>2, MissedIs
<1>4. p.take > 0 /\ NotWorse(p.direction, x, p.take)
  BY <1>2, <1>3, MissedIs
<1>5. ~NotWorse(p.direction, p.stop, x)
  BY <1>1, <1>2, <1>3, Order
<1>6. ~Missed(p, x)
  BY <1>4, MissedIs
<1>7. CheckExit(p, x) = "TAKE_PROFIT"
  BY <1>5, <1>6, MissedIs
<1>8. \A y : /\ ExitFillPrice(p, "TAKE_PROFIT", y) = p.take
             /\ ExitFillPriceAt(p, "TAKE_PROFIT", y) = p.take
             /\ ExitFillPriceAt(q, "TAKE_PROFIT", y) = p.take
  BY <1>2, <1>4 DEF ExitFillPrice, ExitFillPriceAt
<1>. QED
  BY <1>2, <1>6, <1>7, <1>8

\* The target stores a position and the one that goes with it alike.
LEMMA TakeAlike ==
    ASSUME NEW p \in Positions, NEW q \in Positions, Same(q, AsLive(p)), NEW x
    PROVE  Alike(TradeOf(q, "TAKE_PROFIT", x, FALSE), TradeOf(p, "TAKE_PROFIT", x, FALSE))
<1>. DEFINE a == TradeOf(q, "TAKE_PROFIT", x, FALSE)
            b == TradeOf(p, "TAKE_PROFIT", x, FALSE)
            u == AnnotateTrade(q, "TAKE_PROFIT", x, FALSE)
            w == AnnotateTrade(p, "TAKE_PROFIT", x, FALSE)
<1>1. /\ SameOrigin(q, p) /\ q.stage = p.stage
      /\ Same(q, p) \/ (q.stage >= StageMax /\ q.stop = Hang(q))
  BY TwinStops
<1>2. CASE Same(q, p)
  BY <1>2, TradeSame DEF Alike
<1>3. CASE q.stage >= StageMax /\ q.stop = Hang(q)
  <2>1. /\ q.r = p.r /\ q.openCodes = p.openCodes /\ q.take = p.take /\ q.entry = p.entry
        /\ q.entryBar = p.entryBar /\ q.direction = p.direction /\ q.entryClose = p.entryClose
    BY <1>1 DEF SameOrigin
  <2>2. ValidateClose(q, "TAKE_PROFIT", x, FALSE) = ValidateClose(p, "TAKE_PROFIT", x, FALSE)
    BY <1>1, <2>1 DEF ValidateClose, FillDrifts, TrailDead
  <2>3. u = w
    BY <2>1, <2>2 DEF AnnotateTrade
  <2>4. /\ a = Stored(q, "TAKE_PROFIT", x, q.stop, q.stage, u)
        /\ b = Stored(p, "TAKE_PROFIT", x, p.stop, p.stage, w)
    BY DEF TradeOf, Stored
  <2>5. EntryBarTrails(a)
    BY <1>3 DEF EntryBarTrails, TradeOf, Hang
  <2>. HIDE DEF a, b, u, w
  <2>6. Unmarked(a) = Stored(q, "TAKE_PROFIT", x, 0, 0, u) /\ Unmarked(b) = Stored(p, "TAKE_PROFIT", x, 0, 0, w)
    BY <2>4, StoredUnmarked
  <2>7. Stored(q, "TAKE_PROFIT", x, 0, 0, u) = Stored(p, "TAKE_PROFIT", x, 0, 0, w)
    BY <2>1, <2>3 DEF Stored
  <2>. QED
    BY <2>5, <2>6, <2>7 DEF Alike, a, b
<1>. QED
  BY <1>1, <1>2, <1>3

\* What ends the live position at a price ends the other there alike, or its
\* stop hung at the close of the entry bar.
LEMMA TwinTrades ==
    ASSUME NEW p \in Positions, NEW q \in Positions, Same(q, AsLive(p)),
           NEW x \in Int, ~Missed(q, x)
    PROVE  \/ Exempt(EndOf(q, x))
           \/ ~Missed(p, x) /\ Alike(EndOf(q, x), EndOf(p, x))
<1>1. /\ Same(q, p) \/ (q.stage >= StageMax /\ q.stop = Hang(q))
  BY TwinStops
<1>2. CASE Same(q, p)
  <2>1. ~Missed(p, x)
    BY <1>2, MissesSame
  <2>. DEFINE r == CheckExit(q, x)
  <2>2. r = CheckExit(p, x)
    BY <1>2, ExitSame
  <2>3. ExitFillPriceAt(q, r, x) = ExitFillPriceAt(p, r, x)
    BY <1>2, ExitSame
  <2>4. \A y : TradeOf(q, r, y, FALSE) = TradeOf(p, r, y, FALSE)
    BY <1>2, TradeSame
  <2>. HIDE DEF r
  <2>5. EndOf(q, x) = EndOf(p, x)
    BY <2>2, <2>3, <2>4 DEF EndOf, r
  <2>. QED
    BY <2>1, <2>5 DEF Alike
<1>3. CASE CheckExit(q, x) = "TAKE_PROFIT"
  <2>1. /\ CheckExit(p, x) = "TAKE_PROFIT" /\ ~Missed(p, x)
        /\ ExitFillPriceAt(p, "TAKE_PROFIT", x) = p.take
        /\ ExitFillPriceAt(q, "TAKE_PROFIT", x) = p.take
    BY <1>3, TwinTakes
  <2>2. /\ EndOf(q, x) = TradeOf(q, "TAKE_PROFIT", p.take, FALSE)
        /\ EndOf(p, x) = TradeOf(p, "TAKE_PROFIT", p.take, FALSE)
    BY <1>3, <2>1 DEF EndOf
  <2>. QED
    BY <2>1, <2>2, TakeAlike
<1>4. CASE CheckExit(q, x) = "STOP_LOSS" /\ q.stage >= StageMax /\ q.stop = Hang(q)
  BY <1>4 DEF EndOf, Exempt, EntryBarTrails, TradeOf, Hang
<1>5. CheckExit(q, x) = "STOP_LOSS" \/ CheckExit(q, x) = "TAKE_PROFIT"
  BY MissedIs
<1>. QED
  BY <1>1, <1>2, <1>3, <1>4, <1>5

\* All of a side was entered before bar T.
EntriesBefore(s, T) ==
    /\ HasPos(s) => s.pos.entryBar < T
    /\ \A i \in DOMAIN s.trades : s.trades[i].entryBar < T

\* Nothing that the side has ended was entered on bar e.
NoTradeOf(s, e) == \A i \in DOMAIN s.trades : s.trades[i].entryBar # e

\* What both sides have ended, but for entries of g, is alike.
AlikeTrades(l, b, g) ==
    \A i \in DOMAIN l.trades, j \in DOMAIN b.trades :
        l.trades[i].entryBar = b.trades[j].entryBar /\ l.trades[i].entryBar \notin g
          => Exempt(l.trades[i]) \/ Alike(l.trades[i], b.trades[j])

\* A live side and a backtest before bar T, at instant n: a live position is
\* of the day, neither side has ended it, and what both have ended is alike,
\* but for the entries g.
Pair(l, b, T, n, g) ==
    /\ l \in Sides /\ b \in Sides
    /\ EntriesBefore(l, T) /\ EntriesBefore(b, T)
    /\ HasPos(l) => /\ Day(l.pos.entryBar) = Day(n)
                    /\ NoTradeOf(l, l.pos.entryBar) /\ NoTradeOf(b, l.pos.entryBar)
    /\ AlikeTrades(l, b, g)

Twins(l, b) == HasPos(l) /\ HasPos(b) /\ l.pos.entryBar = b.pos.entryBar

\* Twins go together.
Matched(l, b) == Twins(l, b) => l.pos = AsLive(b.pos)

\* They do, but for a best price that x will make up for.
TwinsAt(l, b, x) ==
    Twins(l, b) => /\ Same(l.pos, AsLive(b.pos))
                   /\ BestOf(l.pos.direction, x, l.pos.mfe)
                        = BestOf(l.pos.direction, x, AsLive(b.pos).mfe)

\* The live strategy has stored t, and the backtest is still in the position and
\* has to end it alike.
Pending(l, b, t, g) ==
    /\ HasPos(b) /\ t.entryBar = b.pos.entryBar /\ \E i \in DOMAIN l.trades : l.trades[i] = t
    /\ t.entryBar \notin g /\ ~Exempt(t)

\* The trades of a side after one more.
LEMMA TradesAfter ==
    ASSUME NEW s \in Sides, NEW c, NEW t, Ended(c, s, t)
    PROVE  /\ c \in Sides /\ ~HasPos(c) /\ t \in Trades
           /\ \A i \in DOMAIN c.trades :
                 c.trades[i] = t \/ (i \in DOMAIN s.trades /\ c.trades[i] = s.trades[i])
           /\ \A x : (\E i \in DOMAIN c.trades : c.trades[i] = x)
                        => x = t \/ \E i \in DOMAIN s.trades : s.trades[i] = x
<1>1. c \in Sides /\ ~HasPos(c) /\ t \in Trades /\ c.trades = Append(s.trades, t)
  BY EndedIs
<1>2. s.trades \in Seq(Trades)
  BY HasPosIs
<1>. DEFINE q == s.trades
<1>3. \A i \in DOMAIN Append(q, t) : Append(q, t)[i] = t \/ (i \in DOMAIN q /\ Append(q, t)[i] = q[i])
  <2>. HIDE DEF q
  <2>1. q \in Seq(Trades)
    BY <1>2 DEF q
  <2>. QED
    BY <1>1, <2>1
<1>. QED
  BY <1>1, <1>3

\* The live side ends its position.
LEMMA LiveEnds ==
    ASSUME NEW g, NEW l, NEW b, NEW T, NEW n, Pair(l, b, T, n, g), HasPos(l),
           NEW c, NEW t, Ended(c, l, t), t.entryBar = l.pos.entryBar
    PROVE  /\ Pair(c, b, T, n, g) /\ ~HasPos(c)
           /\ \A x : Pending(c, b, x, g) => Pending(l, b, x, g) \/ (x = t /\ Twins(l, b) /\ ~Exempt(t))
<1>1. /\ c \in Sides /\ ~HasPos(c)
      /\ \A i \in DOMAIN c.trades :
            c.trades[i] = t \/ (i \in DOMAIN l.trades /\ c.trades[i] = l.trades[i])
      /\ \A x : (\E i \in DOMAIN c.trades : c.trades[i] = x)
                   => x = t \/ \E i \in DOMAIN l.trades : l.trades[i] = x
  BY TradesAfter DEF Pair
<1>2. EntriesBefore(c, T)
  BY <1>1 DEF Pair, EntriesBefore
<1>3. AlikeTrades(c, b, g)
  BY <1>1 DEF Pair, AlikeTrades, NoTradeOf
<1>4. \A x : Pending(c, b, x, g) => Pending(l, b, x, g) \/ (x = t /\ Twins(l, b) /\ ~Exempt(t))
  BY <1>1 DEF Pending, Twins
<1>. QED
  BY <1>1, <1>2, <1>3, <1>4 DEF Pair

\* A side goes on with its position.
LEMMA LiveGoesOn ==
    ASSUME NEW g, NEW l, NEW b, NEW T, NEW n, Pair(l, b, T, n, g), HasPos(l),
           NEW c, NEW p, Holds(c, l, p), p.entryBar = l.pos.entryBar
    PROVE  Pair(c, b, T, n, g) /\ \A x : Pending(c, b, x, g) => Pending(l, b, x, g)
<1>1. c \in Sides /\ HasPos(c) /\ c.trades = l.trades /\ c.pos.entryBar = l.pos.entryBar
  BY DEF Holds
<1>2. EntriesBefore(c, T) /\ AlikeTrades(c, b, g) /\ NoTradeOf(c, c.pos.entryBar)
  BY <1>1 DEF Pair, EntriesBefore, AlikeTrades, NoTradeOf
<1>3. \A x : Pending(c, b, x, g) => Pending(l, b, x, g)
  BY <1>1 DEF Pending
<1>. QED
  BY <1>1, <1>2, <1>3 DEF Pair

\* The backtest goes on with its position: it owes nothing new.
LEMMA BacktestGoesOn ==
    ASSUME NEW g, NEW l, NEW b, NEW T, NEW n, Pair(l, b, T, n, g), HasPos(b),
           NEW c, NEW p, Holds(c, b, p), p.entryBar = b.pos.entryBar
    PROVE  Pair(l, c, T, n, g) /\ \A x : Pending(l, c, x, g) => Pending(l, b, x, g)
<1>1. c \in Sides /\ HasPos(c) /\ c.trades = b.trades /\ c.pos.entryBar = b.pos.entryBar
  BY DEF Holds
<1>2. /\ EntriesBefore(c, T) /\ AlikeTrades(l, c, g)
      /\ HasPos(l) => NoTradeOf(c, l.pos.entryBar)
  BY <1>1 DEF Pair, EntriesBefore, AlikeTrades, NoTradeOf
<1>3. \A x : Pending(l, c, x, g) => Pending(l, b, x, g)
  BY <1>1 DEF Pending
<1>. QED
  BY <1>1, <1>2, <1>3 DEF Pair

\* The backtest ends a position that the live side has ended alike, or never
\* had.
LEMMA BacktestEnds ==
    ASSUME NEW g, NEW l, NEW b, NEW T, NEW n, Pair(l, b, T, n, g), HasPos(b), ~Twins(l, b),
           NEW c, NEW t, Ended(c, b, t), t.entryBar = b.pos.entryBar,
           \A x : Pending(l, b, x, g) => Alike(x, t)
    PROVE  Pair(l, c, T, n, g) /\ ~HasPos(c)
<1>1. /\ c \in Sides /\ ~HasPos(c)
      /\ \A i \in DOMAIN c.trades :
            c.trades[i] = t \/ (i \in DOMAIN b.trades /\ c.trades[i] = b.trades[i])
  BY TradesAfter DEF Pair
<1>2. EntriesBefore(c, T)
  BY <1>1 DEF Pair, EntriesBefore
<1>3. AlikeTrades(l, c, g)
  BY <1>1 DEF Pair, AlikeTrades, Pending
<1>4. HasPos(l) => NoTradeOf(c, l.pos.entryBar)
  BY <1>1 DEF Pair, NoTradeOf, Twins
<1>. QED
  BY <1>1, <1>2, <1>3, <1>4 DEF Pair

\* The live side opens a position on the bar before T.
LEMMA LiveOpens ==
    ASSUME NEW g, NEW l, NEW b, NEW T, NEW n, Pair(l, b, T, n, g), ~HasPos(l),
           NEW c, NEW p, Holds(c, l, p), p.entryBar < T, Day(p.entryBar) = Day(n),
           NoTradeOf(l, p.entryBar), NoTradeOf(b, p.entryBar)
    PROVE  Pair(c, b, T, n, g) /\ \A x : Pending(c, b, x, g) => Pending(l, b, x, g)
<1>1. c \in Sides /\ HasPos(c) /\ c.trades = l.trades /\ c.pos = p
  BY DEF Holds
<1>2. EntriesBefore(c, T) /\ AlikeTrades(c, b, g) /\ NoTradeOf(c, c.pos.entryBar)
  BY <1>1 DEF Pair, EntriesBefore, AlikeTrades, NoTradeOf
<1>3. \A x : Pending(c, b, x, g) => Pending(l, b, x, g)
  BY <1>1 DEF Pending
<1>. QED
  BY <1>1, <1>2, <1>3 DEF Pair

\* So does the backtest.
LEMMA BacktestOpens ==
    ASSUME NEW g, NEW l, NEW b, NEW T, NEW n, Pair(l, b, T, n, g), ~HasPos(b),
           NEW c, NEW p, Holds(c, b, p), p.entryBar < T
    PROVE  Pair(l, c, T, n, g) /\ \A x : Pending(l, c, x, g) => ~NoTradeOf(l, p.entryBar)
<1>1. c \in Sides /\ HasPos(c) /\ c.trades = b.trades /\ c.pos = p
  BY DEF Holds
<1>2. /\ EntriesBefore(c, T) /\ AlikeTrades(l, c, g)
      /\ HasPos(l) => NoTradeOf(c, l.pos.entryBar)
  BY <1>1 DEF Pair, EntriesBefore, AlikeTrades, NoTradeOf
<1>3. \A x : Pending(l, c, x, g) => ~NoTradeOf(l, p.entryBar)
  BY <1>1 DEF Pending, NoTradeOf
<1>. QED
  BY <1>1, <1>2, <1>3 DEF Pair

\* Time goes on.
LEMMA PairLater ==
    ASSUME NEW g, NEW l, NEW b, NEW T \in Int, NEW n, Pair(l, b, T, n, g),
           NEW U \in Int, T <= U, NEW m, HasPos(l) => Day(m) = Day(n)
    PROVE  Pair(l, b, U, m, g)
<1>1. \A s \in Sides : EntriesBefore(s, T) => EntriesBefore(s, U)
  <2>. SUFFICES ASSUME NEW s \in Sides, EntriesBefore(s, T) PROVE EntriesBefore(s, U)
    OBVIOUS
  <2>0. (HasPos(s) => s.pos \in Positions) /\ s.trades \in Seq(Trades)
    BY HasPosIs
  <2>1. HasPos(s) => s.pos.entryBar \in Int
    BY <2>0 DEF Positions
  <2>2. \A i \in DOMAIN s.trades : s.trades[i].entryBar \in Int
    <3>1. \A i \in DOMAIN s.trades : s.trades[i] \in Trades
      BY <2>0
    <3>. QED
      BY <3>1 DEF Trades
  <2>. QED
    BY <2>1, <2>2 DEF EntriesBefore
<1>. QED
  BY <1>1 DEF Pair

-----------------------------------------------------------------------------
(* What the backtest owes a trade the live strategy has stored             *)

\* Between bars, at instant n and price x: the next open will end the position
\* likewise, or EOD has.
DueIdle(b, t, x, n) ==
    \/ /\ ~ShouldForceClose(n) /\ Day(n) = Day(b.pos.entryBar) /\ ~Missed(b.pos, x)
       /\ Alike(t, EndOf(b.pos, x))
    \/ /\ ShouldForceClose(n) \/ Day(n) > Day(b.pos.entryBar)
       /\ Alike(t, TradeOf(b.pos, "EOD", x, FALSE))

\* In a bar: its walk will, or the day has ended before it, at price z.
DueOn(b, t, bar, z) ==
    \/ /\ Day(bar.time) = Day(b.pos.entryBar)
       /\ \E u : Ended(ProcessIntrabar(b, bar), b, u) /\ Alike(t, u)
    \/ Day(bar.time) > Day(b.pos.entryBar) /\ Alike(t, TradeOf(b.pos, "EOD", z, FALSE))

\* Behind a bar: the walk of it will, or the day has ended with it.
DueClosed(b, t, bar, z) ==
    \/ DueOn(b, t, bar, z)
    \/ /\ ShouldForceClose(bar.time + 1) /\ Day(bar.time) = Day(b.pos.entryBar)
       /\ MissesAll(b.pos, bar) /\ Alike(t, TradeOf(b.pos, "EOD", bar.close, FALSE))

\* The sides between two bars.
Idle(l, b, x, n, g) ==
    /\ Pair(l, b, n, n, g) /\ Matched(l, b)
    /\ \A t : Pending(l, b, t, g) => DueIdle(b, t, x, n)

\* Twins have not been hit so far on the route of the bar.
OnRoute(l, b, bar, d, x, rest) ==
    \/ rest = TicksOf(bar, d)
    \/ \E j \in 2..4 :
          /\ OnLeg(bar, d, j, x, rest)
          /\ Twins(l, b) => /\ Missed(l.pos, x)
                            /\ \A m \in 1..(j - 1) : Missed(l.pos, IntrabarPath(bar, d)[m])

\* The sides in a bar, on its route for direction d, at price x.
On(l, b, bar, d, x, rest, z, g) ==
    /\ Pair(l, b, bar.time, bar.time, g)
    /\ HasPos(l) => d = l.pos.direction
    /\ TwinsAt(l, b, TrailPrice(bar, d))
    /\ \A t : Pending(l, b, t, g) => DueOn(b, t, bar, z)
    /\ OnRoute(l, b, bar, d, x, rest)

\* The sides behind a bar that neither has handled.
Shut(l, b, bar, z, g) ==
    /\ Pair(l, b, bar.time, bar.time + 1, g)
    /\ HasPos(l) => TwinsAt(l, b, TrailPrice(bar, l.pos.direction))
    /\ Twins(l, b) => MissesAll(l.pos, bar)
    /\ \A t : Pending(l, b, t, g) => DueClosed(b, t, bar, z)

\* The open ends a position of the backtest as it would a live one.
LEMMA WalkEnds ==
    ASSUME NEW s \in Sides, HasPos(s), NEW b \in Bars, NEW x,
           x = IntrabarPath(b, s.pos.direction)[1], ~Missed(s.pos, x)
    PROVE  Ended(ProcessIntrabar(s, b), s,
                 TradeOf(s.pos, CheckExit(s.pos, x),
                         ExitFillPriceAt(s.pos, CheckExit(s.pos, x), x), FALSE))
<1>1. 1 \in 1..4 /\ 1..(1 - 1) = {}
  OBVIOUS
<1>. QED
  BY <1>1, Walk DEF Missed

\* A later price of the path ends it at the level.
LEMMA WalkEndsLater ==
    ASSUME NEW s \in Sides, HasPos(s), NEW b \in Bars, NEW k \in 2..4,
           ~Missed(s.pos, IntrabarPath(b, s.pos.direction)[k]),
           \A m \in 1..(k - 1) : Missed(s.pos, IntrabarPath(b, s.pos.direction)[m])
    PROVE  LET x == IntrabarPath(b, s.pos.direction)[k] IN
           Ended(ProcessIntrabar(s, b), s,
                 TradeOf(s.pos, CheckExit(s.pos, x),
                         ExitFillPrice(s.pos, CheckExit(s.pos, x), x), FALSE))
<1>1. k \in 1..4 /\ k # 1
  OBVIOUS
<1>. QED
  BY <1>1, Walk DEF Missed

\* The backtest is in no position, or live is in it too, or it has parted.
Together(l, b, h) ==
    ~HasPos(b) \/ l.pos.entryBar = b.pos.entryBar \/ b.pos.entryBar \in h

\* Then nothing is owed.
LEMMA NothingPending ==
    ASSUME NEW g, NEW l, NEW b, NEW T, NEW n, Pair(l, b, T, n, g), NEW h, Together(l, b, h)
    PROVE  \A t : ~Pending(l, b, t, h)
<1>. SUFFICES ASSUME NEW t, Pending(l, b, t, h) PROVE FALSE
  OBVIOUS
<1>1. HasPos(b) /\ b.pos \in Positions
  BY HasPosIs DEF Pending, Pair
<1>2. l.pos.entryBar = b.pos.entryBar
  BY <1>1 DEF Pending, Together
<1>3. HasPos(l)
  <2>1. b.pos.entryBar \in Nat /\ -1 \notin Nat
    BY <1>1 DEF Positions
  <2>. QED
    BY <1>2, <2>1 DEF HasPos, NoPosition
<1>. QED
  BY <1>2, <1>3 DEF Pair, Pending, NoTradeOf

\* More entries may part.
LEMMA PairParts ==
    ASSUME NEW g, NEW l, NEW b, NEW T, NEW n, Pair(l, b, T, n, g), NEW h, g \subseteq h
    PROVE  Pair(l, b, T, n, h) /\ \A t : Pending(l, b, t, h) => Pending(l, b, t, g)
BY DEF Pair, AlikeTrades, Pending

\* Twins are alike when EOD ends them.
LEMMA TwinsEnd ==
    ASSUME NEW l \in Sides, NEW b \in Sides, Twins(l, b), Same(l.pos, AsLive(b.pos)), NEW x
    PROVE  Alike(TradeOf(l.pos, "EOD", x, FALSE), TradeOf(b.pos, "EOD", x, FALSE))
<1>1. l.pos \in Positions /\ b.pos \in Positions
  BY HasPosIs DEF Twins
<1>2. SameOrigin(l.pos, b.pos)
  BY <1>1, TwinStops
<1>. QED
  BY <1>1, <1>2, EodAlike

\* A bar begins: the backtest's position that is not live has parted, unless the
\* bar opens where the market was.
LEMMA IdleToOn ==
    ASSUME NEW g, NEW l, NEW b, NEW x \in Int, NEW n \in Nat, Idle(l, b, x, n, g),
           ~ShouldForceClose(n), NEW bar \in Bars, bar.time = n, NEW d \in Directions,
           HasPos(l) => d = l.pos.direction,
           NEW h, g \subseteq h, Together(l, b, h) \/ bar.open = x
    PROVE  On(l, b, bar, d, x, TicksOf(bar, d), x, h)
<1>1. Pair(l, b, n, n, g) /\ Matched(l, b) /\ l \in Sides /\ b \in Sides
  BY DEF Idle, Pair
<1>2. TwinsAt(l, b, TrailPrice(bar, d))
  <2>. SUFFICES ASSUME Twins(l, b) PROVE Same(l.pos, AsLive(b.pos)) /\ l.pos = AsLive(b.pos)
    BY DEF TwinsAt
  <2>. QED
    BY <1>1 DEF Matched, Same
<1>3. Pair(l, b, n, n, h) /\ \A t : Pending(l, b, t, h) => Pending(l, b, t, g)
  BY <1>1, PairParts
<1>4. ASSUME NEW t, Pending(l, b, t, h) PROVE DueOn(b, t, bar, x)
  <2>1. HasPos(b) /\ bar.open = x /\ b.pos \in Positions
    BY <1>1, <1>4, NothingPending, HasPosIs DEF Pending
  <2>2. DueIdle(b, t, x, n)
    BY <1>3, <1>4 DEF Idle
  <2>3. CASE ShouldForceClose(n) \/ Day(n) > Day(b.pos.entryBar)
    <3>1. Alike(t, TradeOf(b.pos, "EOD", x, FALSE)) \/ Day(n) = Day(b.pos.entryBar)
      BY <2>2 DEF DueIdle
    <3>2. Day(n) > Day(b.pos.entryBar) /\ Day(n) \in Int
      BY <2>3, NextInstant
    <3>3. Day(b.pos.entryBar) \in Int
      BY <2>1, NextInstant DEF Positions
    <3>4. Day(n) # Day(b.pos.entryBar)
      BY <3>2, <3>3
    <3>5. bar.time = n
      OBVIOUS
    <3>. QED
      BY <3>1, <3>2, <3>4, <3>5 DEF DueOn
  <2>4. CASE ~(ShouldForceClose(n) \/ Day(n) > Day(b.pos.entryBar))
    <3>. DEFINE p == IntrabarPath(bar, b.pos.direction)
    <3>1. Day(n) = Day(b.pos.entryBar) /\ ~Missed(b.pos, x) /\ Alike(t, EndOf(b.pos, x))
      BY <2>2, <2>4 DEF DueIdle
    <3>2. p[1] = x
      BY <2>1 DEF IntrabarPath
    <3>3. Ended(ProcessIntrabar(b, bar), b, EndOf(b.pos, x))
      BY <1>1, <2>1, <3>1, <3>2, WalkEnds DEF EndOf
    <3>. QED
      BY <3>1, <3>3 DEF DueOn
  <2>. QED
    BY <2>3, <2>4
<1>. QED
  BY <1>2, <1>3, <1>4 DEF On, OnRoute

\* Time goes on between bars.
LEMMA IdleLater ==
    ASSUME NEW g, NEW l, NEW b, NEW x, NEW n \in Nat, Idle(l, b, x, n, g),
           NEW h, g \subseteq h,
           \/ ~ShouldForceClose(n) /\ Together(l, b, h)
           \/ ShouldForceClose(n) /\ ~HasPos(l)
    PROVE  Idle(l, b, x, n + 1, h)
<1>1. Pair(l, b, n, n, g) /\ Matched(l, b) /\ b \in Sides
  BY DEF Idle, Pair
<1>2. HasPos(l) => Day(n + 1) = Day(n)
  BY NextInstant
<1>3. Pair(l, b, n, n, h) /\ \A t : Pending(l, b, t, h) => Pending(l, b, t, g)
  BY <1>1, PairParts
<1>4. Pair(l, b, n + 1, n + 1, h)
  BY <1>2, <1>3, PairLater
<1>5. ASSUME NEW t, Pending(l, b, t, h) PROVE DueIdle(b, t, x, n + 1)
  <2>1. ShouldForceClose(n) /\ HasPos(b)
    BY <1>1, <1>5, NothingPending DEF Pending
  <2>2. DueIdle(b, t, x, n)
    BY <1>3, <1>5 DEF Idle
  <2>3. Alike(t, TradeOf(b.pos, "EOD", x, FALSE))
    BY <2>1, <2>2 DEF DueIdle
  <2>4. b.pos.entryBar \in Int /\ b.pos.entryBar < n
    <3>1. b.pos \in Positions
      BY <1>1, <2>1, HasPosIs
    <3>. QED
      BY <1>1, <2>1, <3>1 DEF Pair, EntriesBefore, Positions
  <2>5. Day(b.pos.entryBar) <= Day(n) /\ Day(b.pos.entryBar) \in Int /\ Day(n) \in Int
    BY <2>4, DaysAreOrdered
  <2>6. Day(n + 1) = Day(n) + 1
    BY <2>1, NextInstant
  <2>7. Day(n + 1) > Day(b.pos.entryBar)
    BY <2>5, <2>6
  <2>. QED
    BY <2>3, <2>7 DEF DueIdle
<1>. QED
  BY <1>1, <1>4, <1>5 DEF Idle

\* EOD between bars.
LEMMA IdleEod ==
    ASSUME NEW g, NEW l, NEW b, NEW x \in Int, NEW n, Idle(l, b, x, n, g), ShouldForceClose(n), HasPos(l)
    PROVE  Idle(CheckEOD(l, x, n), b, x, n, g)
<1>. DEFINE c == CheckEOD(l, x, n)
            t == TradeOf(l.pos, "EOD", x, FALSE)
<1>1. Pair(l, b, n, n, g) /\ Matched(l, b) /\ l \in Sides /\ b \in Sides
  BY DEF Idle, Pair
<1>2. Ended(c, l, t) /\ t.entryBar = l.pos.entryBar
  <2>1. t.entryBar = l.pos.entryBar
    BY DEF TradeOf
  <2>2. Ended(c, l, t)
    BY <1>1, CheckEODIs
  <2>. QED
    BY <2>1, <2>2
<1>3. Twins(l, b) => Alike(t, TradeOf(b.pos, "EOD", x, FALSE))
  <2>1. ASSUME Twins(l, b) PROVE Same(l.pos, AsLive(b.pos))
    BY <1>1, <2>1 DEF Matched, Same
  <2>. QED
    BY <1>1, <2>1, TwinsEnd
<1>. HIDE DEF c, t
<1>4. /\ Pair(c, b, n, n, g) /\ ~HasPos(c)
      /\ \A y : Pending(c, b, y, g) => Pending(l, b, y, g) \/ (y = t /\ Twins(l, b) /\ ~Exempt(t))
  BY <1>1, <1>2, LiveEnds
<1>5. \A y : Pending(c, b, y, g) => DueIdle(b, y, x, n)
  BY <1>3, <1>4 DEF Idle, DueIdle
<1>6. Idle(c, b, x, n, g)
  BY <1>4, <1>5 DEF Idle, Matched, Twins
<1>. QED
  BY <1>6 DEF c

\* EOD behind the last bar of the day.
LEMMA ShutEod ==
    ASSUME NEW g, NEW l, NEW b, NEW bar \in Bars, NEW z, Shut(l, b, bar, z, g),
           ShouldForceClose(bar.time + 1), ~ShouldForceClose(bar.time), HasPos(l)
    PROVE  Shut(CheckEOD(l, bar.close, bar.time + 1), b, bar, z, g)
<1>. DEFINE x == bar.close
            c == CheckEOD(l, x, bar.time + 1)
            t == TradeOf(l.pos, "EOD", x, FALSE)
<1>0. x \in Int /\ bar.time \in Int
  BY BarIs
<1>1. Pair(l, b, bar.time, bar.time + 1, g) /\ l \in Sides /\ b \in Sides
  BY DEF Shut, Pair
<1>2. Ended(c, l, t) /\ t.entryBar = l.pos.entryBar
  <2>1. t.entryBar = l.pos.entryBar
    BY DEF TradeOf
  <2>2. Ended(c, l, t)
    BY <1>0, <1>1, CheckEODIs
  <2>. QED
    BY <2>1, <2>2
<1>3. ASSUME Twins(l, b) PROVE DueClosed(b, t, bar, z)
  <2>1. Same(l.pos, AsLive(b.pos)) /\ MissesAll(l.pos, bar)
    BY <1>3 DEF Shut, TwinsAt
  <2>2. Alike(t, TradeOf(b.pos, "EOD", x, FALSE))
    BY <1>1, <1>3, <2>1, TwinsEnd
  <2>3. Day(bar.time) = Day(b.pos.entryBar)
    <3>1. Day(l.pos.entryBar) = Day(bar.time + 1) /\ Day(bar.time + 1) = Day(bar.time)
      BY <1>0, <1>1, NextInstant DEF Pair
    <3>. QED
      BY <1>3, <3>1 DEF Twins
  <2>4. MissesAll(b.pos, bar)
    <3>1. l.pos \in Positions /\ b.pos \in Positions
      BY <1>1, <1>3, HasPosIs DEF Twins
    <3>. QED
      BY <2>1, <3>1, TwinMisses
  <2>. HIDE DEF t
  <2>. QED
    BY <2>2, <2>3, <2>4 DEF DueClosed
<1>. HIDE DEF c, t
<1>4. /\ Pair(c, b, bar.time, bar.time + 1, g) /\ ~HasPos(c)
      /\ \A y : Pending(c, b, y, g) => Pending(l, b, y, g) \/ (y = t /\ Twins(l, b) /\ ~Exempt(t))
  BY <1>1, <1>2, LiveEnds
<1>5. \A y : Pending(c, b, y, g) => DueClosed(b, y, bar, z)
  BY <1>3, <1>4 DEF Shut
<1>6. Shut(c, b, bar, z, g)
  BY <1>4, <1>5 DEF Shut, Twins
<1>. QED
  BY <1>6 DEF c

-----------------------------------------------------------------------------
(* A tick                                                                  *)

\* The next price is the open, or one step on the way to price k of the path,
\* with the prices of the path before it behind it.
Comes(l, b, bar, d, x, y, k) ==
    LET p == IntrabarPath(bar, d) IN
    /\ Twins(l, b) => \A m \in 1..(k - 1) : Missed(l.pos, p[m])
    /\ k = 1 => y = p[1]
    /\ k # 1 => /\ x \in Int
                /\ (x < p[k] /\ y = x + 1) \/ (x > p[k] /\ y = x - 1)
                /\ Twins(l, b) => Missed(l.pos, x)

\* While a route is left, its head is such a price and its tail leads on.
LEMMA RouteSteps ==
    ASSUME NEW l, NEW b, NEW bar \in Bars, NEW d \in Directions, NEW x, NEW rest,
           OnRoute(l, b, bar, d, x, rest), rest # <<>>
    PROVE  \E k \in 1..4, j \in 2..4 :
              /\ (k = 1 /\ j = 2) \/ (k # 1 /\ j = k)
              /\ OnLeg(bar, d, j, Head(rest), Tail(rest))
              /\ Comes(l, b, bar, d, x, Head(rest), k)
<1>. DEFINE p == IntrabarPath(bar, d)
            y == Head(rest)
<1>0. \A i \in 1..4 : p[i] \in Int
  BY PathIs
<1>1. CASE rest = TicksOf(bar, d)
  <2>1. y = bar.open /\ OnLeg(bar, d, 2, y, Tail(rest))
    BY <1>1, RouteBegins
  <2>2. p[1] = bar.open
    BY DEF IntrabarPath
  <2>3. 1..(1 - 1) = {} /\ 1 \in 1..4 /\ 2 \in 2..4
    OBVIOUS
  <2>. HIDE DEF y, p
  <2>4. Comes(l, b, bar, d, x, y, 1)
    BY <2>1, <2>2, <2>3 DEF Comes, p
  <2>. QED
    BY <2>1, <2>3, <2>4 DEF y
<1>2. CASE rest # TicksOf(bar, d)
  <2>1. PICK i \in 2..4 : /\ OnLeg(bar, d, i, x, rest)
                          /\ Twins(l, b) => /\ Missed(l.pos, x)
                                            /\ \A m \in 1..(i - 1) : Missed(l.pos, p[m])
    BY <1>2 DEF OnRoute
  <2>2. PICK k \in 2..4 : NextLeg(bar, d, i, x, rest, k)
    BY <2>1, RouteGoesOn
  <2>3. /\ k \in i..4 /\ \A m \in i..(k - 1) : p[m] = x
        /\ x # p[k] /\ y = Toward1(x, p[k]) /\ OnLeg(bar, d, k, y, Tail(rest))
    BY <2>2 DEF NextLeg
  <2>4. x \in Int
    BY <2>1 DEF OnLeg
  <2>5. k \in 1..4 /\ k # 1 /\ \A m \in 1..(k - 1) : m \in 1..(i - 1) \/ m \in i..(k - 1)
    OBVIOUS
  <2>. HIDE DEF y, p
  <2>6. Twins(l, b) => \A m \in 1..(k - 1) : Missed(l.pos, p[m])
    BY <2>1, <2>3, <2>5
  <2>7. (x < p[k] /\ y = x + 1) \/ (x > p[k] /\ y = x - 1)
    BY <1>0, <2>3, <2>4, <2>5 DEF Toward1
  <2>8. Comes(l, b, bar, d, x, y, k)
    BY <2>1, <2>4, <2>5, <2>6, <2>7 DEF Comes, p
  <2>. QED
    BY <2>3, <2>5, <2>8 DEF y
<1>. QED
  BY <1>1, <1>2

\* What ends a live position on a tick ends its twin in the walk of the bar:
\* for the same reason, at the same price, unless its stop hangs at the close of
\* the entry bar.
LEMMA HitEnds ==
    ASSUME NEW l \in Sides, NEW b \in Sides, Twins(l, b), Same(l.pos, AsLive(b.pos)),
           NEW bar \in Bars, NEW x, NEW y \in Int, y > 0, NEW k \in 1..4,
           Comes(l, b, bar, l.pos.direction, x, y, k), ~Missed(l.pos, y),
           ~Exempt(EndOf(l.pos, y))
    PROVE  \E u : Ended(ProcessIntrabar(b, bar), b, u) /\ Alike(EndOf(l.pos, y), u)
<1>. DEFINE d == l.pos.direction
            p == IntrabarPath(bar, d)
            c == ProcessIntrabar(b, bar)
<1>1. /\ l.pos \in Positions /\ b.pos \in Positions /\ HasPos(b)
      /\ b.pos.direction = d /\ d \in Directions
      /\ Same(l.pos, b.pos) \/ (l.pos.stage >= StageMax /\ l.pos.stop = Hang(l.pos))
  <2>1. l.pos \in Positions /\ b.pos \in Positions /\ HasPos(b)
    BY HasPosIs DEF Twins
  <2>2. /\ SameOrigin(l.pos, b.pos)
        /\ Same(l.pos, b.pos) \/ (l.pos.stage >= StageMax /\ l.pos.stop = Hang(l.pos))
    BY <2>1, TwinStops
  <2>. QED
    BY <2>1, <2>2 DEF SameOrigin, Positions
<1>2. \A w \in Int : Missed(l.pos, w) => Missed(b.pos, w)
  BY <1>1, TwinMisses
<1>3. \A i \in 1..4 : p[i] \in Int
  BY <1>1, PathIs
<1>4. CASE k = 1
  <2>1. y = IntrabarPath(bar, b.pos.direction)[1]
    BY <1>1, <1>4 DEF Comes
  <2>2. ~Missed(b.pos, y) /\ Alike(EndOf(l.pos, y), EndOf(b.pos, y))
    BY <1>1, TwinTrades
  <2>3. Ended(c, b, EndOf(b.pos, y))
    BY <1>1, <2>1, <2>2, WalkEnds DEF EndOf
  <2>. QED
    BY <2>2, <2>3
<1>5. CASE k # 1
  <2>. DEFINE w == p[k]
              r == CheckExit(l.pos, y)
  <2>1. k \in 2..4
    BY <1>5
  <2>2. /\ x \in Int
        /\ (x < w /\ y = x + 1) \/ (x > w /\ y = x - 1)
        /\ Missed(l.pos, x) /\ \A m \in 1..(k - 1) : Missed(l.pos, p[m])
    BY <1>5 DEF Comes
  <2>3. w \in Int
    BY <1>3
  <2>4. \A m \in 1..(k - 1) : Missed(b.pos, p[m])
    <3>1. \A m \in 1..(k - 1) : m \in 1..4
      OBVIOUS
    <3>. HIDE DEF p
    <3>. QED
      BY <1>2, <1>3, <2>2, <3>1
  <2>. HIDE DEF w
  <2>5. /\ CheckExit(l.pos, w) = r /\ ~Missed(l.pos, w)
        /\ ExitFillPriceAt(l.pos, r, y) = ExitFillPrice(l.pos, r, w)
    BY <1>1, <2>2, <2>3, HitOnTheWay
  <2>6. ASSUME ~Missed(b.pos, w)
        PROVE  Ended(c, b, TradeOf(b.pos, CheckExit(b.pos, w),
                                   ExitFillPrice(b.pos, CheckExit(b.pos, w), w), FALSE))
    <3>1. /\ ~Missed(b.pos, IntrabarPath(bar, b.pos.direction)[k])
          /\ \A m \in 1..(k - 1) : Missed(b.pos, IntrabarPath(bar, b.pos.direction)[m])
          /\ IntrabarPath(bar, b.pos.direction)[k] = w
      BY <1>1, <2>4, <2>6 DEF w
    <3>. QED
      BY <1>1, <2>1, <3>1, WalkEndsLater
  <2>7. CASE Same(l.pos, b.pos)
    <3>1. ~Missed(b.pos, w)
      BY <1>1, <2>5, <2>7, MissesSame
    <3>2. CheckExit(b.pos, w) = CheckExit(l.pos, w)
      BY <1>1, <2>7, ExitSame
    <3>4. ExitFillPrice(b.pos, r, w) = ExitFillPrice(l.pos, r, w)
      BY <1>1, <2>7, ExitSame
    <3>5. CheckExit(b.pos, w) = r /\ ExitFillPrice(b.pos, r, w) = ExitFillPriceAt(l.pos, r, y)
      BY <2>5, <3>2, <3>4
    <3>6. \A v : TradeOf(l.pos, r, v, FALSE) = TradeOf(b.pos, r, v, FALSE)
      BY <1>1, <2>7, TradeSame
    <3>3. EndOf(l.pos, y) = TradeOf(b.pos, r, ExitFillPriceAt(l.pos, r, y), FALSE)
      BY <3>6 DEF EndOf
    <3>. QED
      BY <2>6, <3>1, <3>5, <3>3 DEF Alike
  <2>8. CASE r = "TAKE_PROFIT"
    <3>1. /\ CheckExit(b.pos, w) = "TAKE_PROFIT" /\ ~Missed(b.pos, w)
          /\ ExitFillPrice(b.pos, "TAKE_PROFIT", w) = b.pos.take
          /\ ExitFillPriceAt(l.pos, "TAKE_PROFIT", y) = b.pos.take
      BY <1>1, <2>3, <2>5, <2>8, TwinTakes
    <3>2. Ended(c, b, TradeOf(b.pos, "TAKE_PROFIT", b.pos.take, FALSE))
      BY <2>6, <3>1
    <3>3. EndOf(l.pos, y) = TradeOf(l.pos, "TAKE_PROFIT", b.pos.take, FALSE)
      BY <2>8, <3>1 DEF EndOf
    <3>4. Alike(EndOf(l.pos, y), TradeOf(b.pos, "TAKE_PROFIT", b.pos.take, FALSE))
      BY <1>1, <3>3, TakeAlike
    <3>. QED
      BY <3>2, <3>4
  <2>9. CASE r = "STOP_LOSS" /\ l.pos.stage >= StageMax /\ l.pos.stop = Hang(l.pos)
    BY <2>9 DEF EndOf, Exempt, EntryBarTrails, TradeOf, Hang
  <2>10. r = "STOP_LOSS" \/ r = "TAKE_PROFIT"
    BY MissedIs
  <2>. QED
    BY <1>1, <2>7, <2>8, <2>9, <2>10
<1>. QED
  BY <1>4, <1>5

\* A tick of the market reaches the live strategy.
LEMMA OnTick ==
    ASSUME NEW g, NEW l, NEW b, NEW bar \in Bars, NEW d \in Directions, NEW x, NEW rest, NEW z,
           On(l, b, bar, d, x, rest, z, g), rest # <<>>, Head(rest) \in Int, Head(rest) > 0
    PROVE  On(CheckSLTP(l, Head(rest)), b, bar, d, Head(rest), Tail(rest), z, g)
<1>. DEFINE y == Head(rest)
            r == Tail(rest)
            c == CheckSLTP(l, y)
            reason == CheckExit(l.pos, y)
            t == TradeOf(l.pos, reason, ExitFillPriceAt(l.pos, reason, y), FALSE)
            u == UpdateMFE(l.pos, y)
            p == IntrabarPath(bar, d)
            best == TrailPrice(bar, d)
<1>1. /\ Pair(l, b, bar.time, bar.time, g) /\ l \in Sides /\ b \in Sides
      /\ TwinsAt(l, b, best) /\ OnRoute(l, b, bar, d, x, rest)
  BY DEF On, Pair
<1>2. PICK k \in 1..4 : \E j \in 2..4 :
              /\ (k = 1 /\ j = 2) \/ (k # 1 /\ j = k)
              /\ OnLeg(bar, d, j, y, r)
              /\ Comes(l, b, bar, d, x, y, k)
  BY <1>1, RouteSteps
<1>3. PICK j \in 2..4 :
              /\ (k = 1 /\ j = 2) \/ (k # 1 /\ j = k)
              /\ OnLeg(bar, d, j, y, r)
              /\ Comes(l, b, bar, d, x, y, k)
  BY <1>2
<1>4. y \in Int /\ y > 0 /\ NotWorse(d, best, y) /\ best \in Int
  <2>1. NotWorse(d, best, y)
    BY <1>3, LegIsInBar
  <2>2. best \in Int
    BY PathIs
  <2>. QED
    BY <2>1, <2>2
<1>5. /\ ~HasPos(l) => c = l
      /\ HasPos(l) /\ Missed(l.pos, y) => Holds(c, l, u)
      /\ HasPos(l) /\ ~Missed(l.pos, y) => Ended(c, l, t)
  BY <1>1, <1>4, CheckSLTPIs DEF Missed
<1>6. t.entryBar = l.pos.entryBar
  BY DEF TradeOf
<1>. HIDE DEF c, t, u, y, r, best, reason
<1>7. CASE ~HasPos(l)
  <2>1. OnRoute(l, b, bar, d, y, r)
    BY <1>3, <1>7 DEF OnRoute, Twins
  <2>2. On(l, b, bar, d, y, r, z, g)
    BY <2>1 DEF On
  <2>. QED
    BY <1>5, <1>7, <2>2 DEF c, y, r
<1>8. CASE HasPos(l) /\ Missed(l.pos, y)
  <2>1. l.pos \in Positions /\ l.pos.direction = d
    BY <1>1, <1>8, HasPosIs DEF On
  <2>2. u \in Positions /\ Same(u, l.pos) /\ u.mfe = BestOf(d, y, l.pos.mfe)
    BY <1>4, <2>1, UpdateMFEIs DEF u
  <2>3. u.entryBar = l.pos.entryBar /\ u.direction = d
    BY <2>1, <2>2 DEF Same
  <2>4. c.pos = u /\ HasPos(c)
    BY <1>5, <1>8 DEF Holds
  <2>5. Pair(c, b, bar.time, bar.time, g) /\ \A s : Pending(c, b, s, g) => Pending(l, b, s, g)
    BY <1>1, <1>5, <1>8, <2>3, LiveGoesOn
  <2>6. ASSUME Twins(c, b)
        PROVE  /\ Twins(l, b) /\ Same(c.pos, AsLive(b.pos))
               /\ BestOf(c.pos.direction, best, c.pos.mfe)
                    = BestOf(c.pos.direction, best, AsLive(b.pos).mfe)
    <3>1. Twins(l, b)
      BY <1>8, <2>3, <2>4, <2>6 DEF Twins
    <3>2. Same(l.pos, AsLive(b.pos)) /\ BestOf(d, best, l.pos.mfe) = BestOf(d, best, AsLive(b.pos).mfe)
      BY <1>1, <2>1, <3>1 DEF TwinsAt
    <3>3. Same(u, AsLive(b.pos))
      BY <2>2, <3>2 DEF Same
    <3>4. BestOf(d, best, BestOf(d, y, l.pos.mfe)) = BestOf(d, best, l.pos.mfe)
      <4>1. l.pos.mfe \in Int
        BY <2>1 DEF Positions
      <4>. QED
        BY <1>4, <4>1, BestOfThree
    <3>. QED
      BY <2>2, <2>3, <2>4, <3>1, <3>2, <3>3, <3>4
  <2>7. OnRoute(c, b, bar, d, y, r)
    <3>1. \A w : Missed(u, w) <=> Missed(l.pos, w)
      BY <2>1, <2>2, MissesSame
    <3>2. \A m \in 1..(j - 1) : (k = 1 /\ m = 1) \/ m \in 1..(k - 1)
      BY <1>3
    <3>3. ASSUME Twins(c, b), NEW m \in 1..(j - 1) PROVE Missed(l.pos, p[m])
      <4>1. Twins(l, b)
        BY <2>6, <3>3
      <4>2. CASE k = 1 /\ m = 1
        BY <1>3, <1>8, <4>2 DEF Comes
      <4>3. CASE m \in 1..(k - 1)
        BY <1>3, <4>1, <4>3 DEF Comes
      <4>. QED
        BY <3>2, <4>2, <4>3
    <3>. QED
      BY <1>3, <1>8, <2>4, <3>1, <3>3 DEF OnRoute
  <2>8. TwinsAt(c, b, best)
    BY <2>6 DEF TwinsAt
  <2>9. On(c, b, bar, d, y, r, z, g)
    BY <2>3, <2>4, <2>5, <2>7, <2>8 DEF On, best
  <2>. QED
    BY <2>9 DEF c, y, r
<1>9. CASE HasPos(l) /\ ~Missed(l.pos, y)
  <2>1. /\ Pair(c, b, bar.time, bar.time, g) /\ ~HasPos(c)
        /\ \A s : Pending(c, b, s, g) => Pending(l, b, s, g) \/ (s = t /\ Twins(l, b) /\ ~Exempt(t))
    BY <1>1, <1>5, <1>6, <1>9, LiveEnds
  <2>2. ASSUME Twins(l, b), ~Exempt(t) PROVE DueOn(b, t, bar, z)
    <3>1. Same(l.pos, AsLive(b.pos)) /\ l.pos.direction = d
      BY <1>1, <1>9, <2>2 DEF TwinsAt, On
    <3>2. \E v : Ended(ProcessIntrabar(b, bar), b, v) /\ Alike(t, v)
      BY <1>1, <1>3, <1>4, <1>9, <2>2, <3>1, HitEnds DEF t, reason, EndOf
    <3>3. Day(bar.time) = Day(b.pos.entryBar)
      BY <1>1, <1>9, <2>2 DEF Pair, Twins
    <3>. QED
      BY <3>2, <3>3 DEF DueOn
  <2>3. \A s : Pending(c, b, s, g) => DueOn(b, s, bar, z)
    BY <2>1, <2>2 DEF On
  <2>4. ~Twins(c, b)
    BY <2>1 DEF Twins
  <2>5. OnRoute(c, b, bar, d, y, r)
    BY <1>3, <2>4 DEF OnRoute
  <2>6. On(c, b, bar, d, y, r, z, g)
    BY <2>1, <2>3, <2>4, <2>5 DEF On, TwinsAt
  <2>. QED
    BY <2>6 DEF c, y, r
<1>. QED
  BY <1>7, <1>8, <1>9

\* The route has come to its end, and the bar closes.
LEMMA OnToShut ==
    ASSUME NEW g, NEW l, NEW b, NEW bar \in Bars, NEW d \in Directions, NEW x, NEW z,
           On(l, b, bar, d, x, <<>>, z, g), ~ShouldForceClose(bar.time)
    PROVE  Shut(l, b, bar, z, g) /\ x = bar.close
<1>. DEFINE p == IntrabarPath(bar, d)
<1>1. Pair(l, b, bar.time, bar.time, g) /\ OnRoute(l, b, bar, d, x, <<>>)
  BY DEF On
<1>2. TicksOf(bar, d) # <<>> /\ bar.time \in Int /\ p[4] = bar.close
  <2>1. TicksOf(bar, d) # <<>>
    BY RouteBegins
  <2>2. p[4] = bar.close
    BY PathIs
  <2>. QED
    BY <2>1, <2>2, BarIs
<1>3. PICK j \in 2..4 :
          /\ OnLeg(bar, d, j, x, <<>>)
          /\ Twins(l, b) => /\ Missed(l.pos, x)
                            /\ \A m \in 1..(j - 1) : Missed(l.pos, p[m])
  BY <1>1, <1>2 DEF OnRoute
<1>4. \A m \in j..4 : p[m] = x
  BY <1>3, RouteGoesOn
<1>5. x = bar.close
  BY <1>2, <1>4
<1>6. ASSUME Twins(l, b) PROVE MissesAll(l.pos, bar)
  <2>1. l.pos.direction = d
    BY <1>6 DEF On, Twins
  <2>2. \A m \in 1..4 : m \in 1..(j - 1) \/ m \in j..4
    OBVIOUS
  <2>. HIDE DEF p
  <2>3. \A m \in 1..4 : Missed(l.pos, p[m])
    BY <1>3, <1>4, <1>6, <2>2
  <2>. QED
    BY <2>1, <2>3 DEF MissesAll, p
<1>7. Pair(l, b, bar.time, bar.time + 1, g)
  BY <1>1, <1>2, NextInstant DEF Pair
<1>8. \A t : Pending(l, b, t, g) => DueClosed(b, t, bar, z)
  BY DEF On, DueClosed
<1>9. HasPos(l) => TwinsAt(l, b, TrailPrice(bar, l.pos.direction))
  BY DEF On
<1>. QED
  BY <1>5, <1>6, <1>7, <1>8, <1>9 DEF Shut

-----------------------------------------------------------------------------
(* A closed bar, before the entries                                        *)

\* A side has ended its position with one trade only.
LEMMA EndedOnce ==
    ASSUME NEW s \in Sides, NEW c, NEW t, NEW u, Ended(c, s, t), Ended(c, s, u)
    PROVE  t = u
<1>. DEFINE q == s.trades
<1>1. Append(q, t) = Append(q, u)
  BY DEF Ended
<1>2. q \in Seq(Trades) /\ t \in Trades /\ u \in Trades
  BY HasPosIs, EndedIs
<1>. HIDE DEF q
<1>3. Append(q, t)[Len(q) + 1] = t /\ Append(q, u)[Len(q) + 1] = u
  BY <1>2
<1>. QED
  BY <1>1, <1>3

\* The bars of the position's day ended before EOD.
LEMMA ShutMissed ==
    ASSUME NEW g, NEW l, NEW b, NEW bar \in Bars, lastClose \in Int, Shut(l, b, bar, lastClose, g),
           ~ShouldForceClose(bar.time), HasPos(b) => lastClose > 0
    PROVE  LET c == CloseMissedEOD(b, bar) IN
           /\ Shut(l, c, bar, lastClose, g)
           /\ HasPos(c) => Day(bar.time) = Day(c.pos.entryBar)
<1>. DEFINE c == CloseMissedEOD(b, bar)
            t == TradeOf(b.pos, "EOD", lastClose, FALSE)
<1>1. /\ Pair(l, b, bar.time, bar.time + 1, g) /\ l \in Sides /\ b \in Sides
      /\ bar.time \in Int
  BY BarIs DEF Shut, Pair
<1>2. CASE HasPos(b) /\ Day(bar.time) # Day(b.pos.entryBar)
  <2>1. Ended(c, b, t)
    <3>1. c = Closed(b, "EOD", lastClose) /\ "EOD" \in Reasons
      BY <1>2 DEF CloseMissedEOD, Reasons
    <3>. HIDE DEF c
    <3>. QED
      BY <1>1, <1>2, <3>1, ClosedTradeIs DEF Closed
  <2>2. t.entryBar = b.pos.entryBar
    BY DEF TradeOf
  <2>3. ~Twins(l, b)
    <3>1. Day(bar.time + 1) = Day(bar.time)
      BY <1>1, NextInstant
    <3>. QED
      BY <1>1, <1>2, <3>1 DEF Pair, Twins
  <2>4. \A x : Pending(l, b, x, g) => Alike(x, t)
    BY <1>2 DEF Shut, DueClosed, DueOn
  <2>. HIDE DEF c, t
  <2>5. Pair(l, c, bar.time, bar.time + 1, g) /\ ~HasPos(c)
    BY <1>1, <1>2, <2>1, <2>2, <2>3, <2>4, BacktestEnds
  <2>6. Shut(l, c, bar, lastClose, g)
    BY <2>5 DEF Shut, TwinsAt, Twins, Pending
  <2>. QED
    BY <2>5, <2>6 DEF c
<1>3. CASE ~(HasPos(b) /\ Day(bar.time) # Day(b.pos.entryBar))
  <2>1. c = b
    BY <1>3 DEF CloseMissedEOD
  <2>. QED
    BY <1>3, <2>1
<1>. QED
  BY <1>2, <1>3

\* What the live strategy's trail makes of a twin.
LiveTrail(q, bar) ==
    LET best == TrailPrice(bar, q.direction) IN Apply(UpdateMFE(q, best), best)

\* The backtest's walk of the bar.
LEMMA ShutWalked ==
    ASSUME NEW g, NEW l, NEW b, NEW bar \in Bars, NEW z, Shut(l, b, bar, z, g),
           HasPos(b) => Day(bar.time) = Day(b.pos.entryBar)
    PROVE  LET c == ProcessIntrabar(b, bar) IN
           /\ Pair(l, c, bar.time, bar.time + 1, g)
           /\ Twins(l, c) => LiveTrail(l.pos, bar) = AsLive(c.pos)
           /\ HasPos(c) => Day(bar.time) = Day(c.pos.entryBar)
           /\ \A t : Pending(l, c, t, g) =>
                 /\ ShouldForceClose(bar.time + 1)
                 /\ Alike(t, TradeOf(c.pos, "EOD", bar.close, FALSE))
<1>. DEFINE c == ProcessIntrabar(b, bar)
            d == b.pos.direction
            best == TrailPrice(bar, d)
            p == IntrabarPath(bar, d)
            Hit(i) == ~Missed(b.pos, p[i])
<1>1. /\ Pair(l, b, bar.time, bar.time + 1, g) /\ l \in Sides /\ b \in Sides
      /\ \A t : Pending(l, b, t, g) => DueClosed(b, t, bar, z)
  BY DEF Shut, Pair
<1>2. CASE ~HasPos(b)
  <2>1. c = b
    BY <1>2 DEF ProcessIntrabar
  <2>2. ~HasPos(c) /\ Pair(l, c, bar.time, bar.time + 1, g)
    BY <1>1, <1>2, <2>1
  <2>. HIDE DEF c
  <2>. QED
    BY <2>2 DEF Twins, Pending, c
<1>3. CASE HasPos(b) /\ \A i \in 1..4 : ~Hit(i)
  <2>1. PICK q \in Positions : /\ Same(q, b.pos) /\ q.mfe = BestOf(d, best, b.pos.mfe)
                               /\ Holds(c, b, Apply(q, best))
    BY <1>1, <1>3, Walk DEF Missed
  <2>. DEFINE r == Apply(q, best)
  <2>2. Trailed(r, q)
    BY ApplyTrails
  <2>3. b.pos \in Positions
    BY <1>1, <1>3, HasPosIs
  <2>. HIDE DEF r
  <2>4. r \in Positions /\ SameOrigin(b.pos, r) /\ r.entryBar = b.pos.entryBar
    BY <2>1, <2>2 DEF Same, SameOrigin, Trailed
  <2>5. Holds(c, b, r) /\ c.pos = r /\ HasPos(c)
    BY <2>1 DEF Holds, r
  <2>. HIDE DEF c
  <2>6. /\ Pair(l, c, bar.time, bar.time + 1, g)
        /\ \A x : Pending(l, c, x, g) => Pending(l, b, x, g)
    BY <1>1, <1>3, <2>4, <2>5, BacktestGoesOn
  <2>7. ASSUME Twins(l, c) PROVE LiveTrail(l.pos, bar) = AsLive(c.pos)
    <3>1. Twins(l, b) /\ l.pos \in Positions
      BY <1>1, <1>3, <2>4, <2>5, <2>7, HasPosIs DEF Twins
    <3>2. TwinsAt(l, b, TrailPrice(bar, l.pos.direction))
      BY <3>1 DEF Shut, Twins
    <3>3. Same(l.pos, AsLive(b.pos)) /\ b.pos.direction = d
      BY <3>1, <3>2 DEF TwinsAt
    <3>. DEFINE a == AsLive(b.pos)
                u == UpdateMFE(l.pos, best)
                v == UpdateMFE(a, best)
    <3>4. best \in Int
      BY BarIs DEF TrailPrice
    <3>5. a \in Positions /\ a.direction = d /\ l.pos.direction = d
      <4>1. AsLive(b.pos) \in Positions /\ SameOrigin(AsLive(b.pos), b.pos)
        BY <2>3, AsLiveIs
      <4>. QED
        BY <3>3, <4>1 DEF SameOrigin, Same
    <3>. HIDE DEF best, a
    <3>6. u \in Positions /\ Same(u, l.pos) /\ u.mfe = BestOf(d, best, l.pos.mfe)
      BY <3>1, <3>4, <3>5, UpdateMFEIs
    <3>7. v \in Positions /\ Same(v, a) /\ v.mfe = BestOf(d, best, a.mfe)
      BY <3>4, <3>5, UpdateMFEIs
    <3>8. u.mfe = v.mfe
      BY <3>1, <3>2, <3>5, <3>6, <3>7 DEF TwinsAt, best, a
    <3>9. Same(u, v)
      BY <3>3, <3>6, <3>7 DEF Same, a
    <3>10. u = v
      BY <3>6, <3>7, <3>8, <3>9, SameValue
    <3>. DEFINE o == UpdateMFE(b.pos, best)
    <3>11. o \in Positions /\ Same(o, b.pos) /\ o.mfe = BestOf(d, best, b.pos.mfe)
      BY <2>3, <3>4, UpdateMFEIs
    <3>12. o = q
      <4>1. Same(o, q)
        BY <2>1, <3>11 DEF Same
      <4>. QED
        BY <2>1, <3>11, <4>1, SameValue DEF best
    <3>13. v = AsLive(o)
      BY <2>3, <3>4, UpdateMFEAsLive DEF a
    <3>. HIDE DEF u, v, o
    <3>14. Apply(AsLive(q), best) = AsLive(r)
      BY ApplyAsLive DEF r, best
    <3>15. LiveTrail(l.pos, bar) = Apply(u, best)
      BY <3>5 DEF LiveTrail, u, best
    <3>. QED
      BY <2>5, <3>10, <3>12, <3>13, <3>14, <3>15
  <2>8. ASSUME NEW t, Pending(l, c, t, g)
        PROVE  /\ ShouldForceClose(bar.time + 1)
               /\ Alike(t, TradeOf(c.pos, "EOD", bar.close, FALSE))
    <3>1. DueClosed(b, t, bar, z)
      BY <1>1, <2>6, <2>8
    <3>2. \A v : ~Ended(c, b, v)
      BY <2>5, EndedIs
    <3>3. Day(bar.time) \in Int /\ ~(Day(bar.time) > Day(b.pos.entryBar))
      BY <1>3, BarIs, NextInstant
    <3>4. /\ ShouldForceClose(bar.time + 1)
          /\ Alike(t, TradeOf(b.pos, "EOD", bar.close, FALSE))
      BY <3>1, <3>2, <3>3 DEF DueClosed, DueOn, c
    <3>5. Alike(TradeOf(b.pos, "EOD", bar.close, FALSE), TradeOf(r, "EOD", bar.close, FALSE))
      BY <2>3, <2>4, EodAlike
    <3>. DEFINE bb == TradeOf(b.pos, "EOD", bar.close, FALSE)
                rr == TradeOf(r, "EOD", bar.close, FALSE)
    <3>6. Alike(t, rr)
      <4>1. Alike(t, bb) /\ Alike(bb, rr)
        BY <3>4, <3>5
      <4>. HIDE DEF bb, rr
      <4>. QED
        BY <4>1, AlikeTwice
    <3>. QED
      BY <2>5, <3>4, <3>6
  <2>9. HasPos(c) => Day(bar.time) = Day(c.pos.entryBar)
    BY <1>3, <2>4, <2>5
  <2>. QED
    BY <2>6, <2>7, <2>8, <2>9 DEF c
<1>4. CASE HasPos(b) /\ \E i \in 1..4 : Hit(i)
  <2>1. PICK k \in 1..4 : Hit(k) /\ \A j \in 1..(k - 1) : ~Hit(j)
    <3>. HIDE DEF Hit
    <3>1. 1..(1 - 1) = {} /\ 1..(2 - 1) = {1} /\ 1..(3 - 1) = {1, 2} /\ 1..(4 - 1) = {1, 2, 3}
      OBVIOUS
    <3>2. Hit(1) \/ Hit(2) \/ Hit(3) \/ Hit(4)
      <4>1. \A i \in 1..4 : i = 1 \/ i = 2 \/ i = 3 \/ i = 4
        OBVIOUS
      <4>. QED
        BY <1>4, <4>1
    <3>3. 1 \in 1..4 /\ 2 \in 1..4 /\ 3 \in 1..4 /\ 4 \in 1..4
      OBVIOUS
    <3>. QED
      BY <3>1, <3>2, <3>3
  <2>. DEFINE reason == CheckExit(b.pos, p[k])
              exit == IF k = 1 THEN ExitFillPriceAt(b.pos, reason, p[k])
                               ELSE ExitFillPrice(b.pos, reason, p[k])
              t == TradeOf(b.pos, reason, exit, FALSE)
  <2>2. Ended(c, b, t)
    BY <1>1, <1>4, <2>1, Walk DEF Missed
  <2>3. t.entryBar = b.pos.entryBar
    BY DEF TradeOf
  <2>4. ~MissesAll(b.pos, bar)
    BY <2>1 DEF MissesAll
  <2>. HIDE DEF c, t
  <2>5. ~Twins(l, b)
    <3>. SUFFICES ASSUME Twins(l, b) PROVE FALSE
      OBVIOUS
    <3>1. l.pos \in Positions /\ b.pos \in Positions /\ MissesAll(l.pos, bar) /\ HasPos(l)
      BY <1>1, HasPosIs DEF Twins, Shut
    <3>2. Same(l.pos, AsLive(b.pos))
      BY <3>1 DEF Shut, TwinsAt
    <3>. QED
      BY <2>4, <3>1, <3>2, TwinMisses
  <2>6. ASSUME NEW x, Pending(l, b, x, g) PROVE Alike(x, t)
    <3>1. DueClosed(b, x, bar, z)
      BY <1>1, <2>6
    <3>2. Day(bar.time) \in Int /\ ~(Day(bar.time) > Day(b.pos.entryBar))
      BY <1>4, BarIs, NextInstant
    <3>3. PICK v : Ended(c, b, v) /\ Alike(x, v)
      BY <2>4, <3>1, <3>2 DEF DueClosed, DueOn, c
    <3>4. v = t
      BY <1>1, <2>2, <3>3, EndedOnce
    <3>. QED
      BY <3>3, <3>4
  <2>7. Pair(l, c, bar.time, bar.time + 1, g) /\ ~HasPos(c)
    BY <1>1, <1>4, <2>2, <2>3, <2>5, <2>6, BacktestEnds
  <2>. QED
    BY <2>7 DEF Twins, Pending, c
<1>. QED
  BY <1>2, <1>3, <1>4

\* EOD behind the last bar of the day, in the backtest.
LEMMA ShutEvening ==
    ASSUME NEW g, NEW l, NEW b, NEW bar \in Bars, Pair(l, b, bar.time, bar.time + 1, g), ~HasPos(l),
           ShouldForceClose(bar.time + 1),
           \A t : Pending(l, b, t, g) => Alike(t, TradeOf(b.pos, "EOD", bar.close, FALSE))
    PROVE  Idle(l, CheckEOD(b, bar.close, bar.time + 1), bar.close, bar.time + 1, g)
           /\ ~HasPos(CheckEOD(b, bar.close, bar.time + 1))
<1>. DEFINE n == bar.time + 1
            x == bar.close
            c == CheckEOD(b, x, n)
            t == TradeOf(b.pos, "EOD", x, FALSE)
<1>1. l \in Sides /\ b \in Sides /\ x \in Int /\ bar.time \in Int /\ n \in Int /\ bar.time <= n
  BY BarIs DEF Pair
<1>2. t.entryBar = b.pos.entryBar
  BY DEF TradeOf
<1>3. Pair(l, c, bar.time, n, g) /\ ~HasPos(c)
  <2>1. CASE HasPos(b)
    <3>1. Ended(c, b, t)
      BY <1>1, <2>1, CheckEODIs
    <3>. HIDE DEF c, t
    <3>2. ~Twins(l, b) /\ Pair(l, b, bar.time, n, g)
      BY DEF Twins
    <3>3. \A y : Pending(l, b, y, g) => Alike(y, t)
      BY DEF t
    <3>. HIDE DEF n
    <3>. QED
      BY <1>2, <2>1, <3>1, <3>2, <3>3, BacktestEnds
  <2>2. CASE ~HasPos(b)
    BY <2>2 DEF CheckEOD
  <2>. QED
    BY <2>1, <2>2
<1>. HIDE DEF c, n
<1>4. Pair(l, c, n, n, g)
  BY <1>1, <1>3, PairLater
<1>5. Idle(l, c, x, n, g)
  BY <1>3, <1>4 DEF Idle, Matched, Twins, Pending
<1>. QED
  BY <1>3, <1>5 DEF c, n

\* The live strategy's trail behind a bar makes of a twin what the walk has
\* made of the other; a stop it moves past the close ends one of them at once
\* and the other with the next open.
LEMMA ShutTrailed ==
    ASSUME NEW g, NEW l, NEW b, NEW bar \in Bars, Pair(l, b, bar.time, bar.time + 1, g),
           ~ShouldForceClose(bar.time), ~ShouldForceClose(bar.time + 1),
           Twins(l, b) => LiveTrail(l.pos, bar) = AsLive(b.pos),
           HasPos(b) => Day(bar.time) = Day(b.pos.entryBar),
           \A t : ~Pending(l, b, t, g)
    PROVE  LET c == TrailOnBar(l, bar) IN
           /\ Pair(c, b, bar.time, bar.time + 1, g) /\ Matched(c, b)
           /\ \A t : Pending(c, b, t, g) => DueIdle(b, t, bar.close, bar.time + 1)
<1>. DEFINE n == bar.time + 1
            x == bar.close
            c == TrailOnBar(l, bar)
            q == LiveTrail(l.pos, bar)
            u == UpdateMFE(q, x)
            reason == CheckExit(q, x)
            t == TradeOf(q, reason, ExitFillPriceAt(q, reason, x), FALSE)
<1>1. l \in Sides /\ b \in Sides /\ x \in Int /\ bar.time \in Int /\ Day(n) = Day(bar.time)
  BY BarIs, NextInstant DEF Pair
<1>2. CASE ~HasPos(l)
  <2>1. c = l
    BY <1>2 DEF TrailOnBar
  <2>2. ~Twins(l, b)
    BY <1>2 DEF Twins
  <2>. QED
    BY <2>1, <2>2 DEF Matched
<1>3. CASE HasPos(l)
  <2>1. bar.time > l.pos.entryBar
    <3>1. l.pos.entryBar \in Int
      BY <1>1, <1>3, HasPosIs DEF Positions
    <3>2. l.pos.entryBar < bar.time
      BY <1>3 DEF Pair, EntriesBefore
    <3>. QED
      BY <1>1, <3>1, <3>2
  <2>2. /\ q \in Positions /\ SameOrigin(q, l.pos)
        /\ Missed(q, x) => Holds(c, l, u)
        /\ q.mfe = BestOf(l.pos.direction, TrailPrice(bar, l.pos.direction), l.pos.mfe)
        /\ ~Missed(q, x) => Ended(c, l, t)
    BY <1>1, <1>3, <2>1, TrailOnBarIs DEF LiveTrail, Missed
  <2>3. q.entryBar = l.pos.entryBar /\ q.direction = l.pos.direction
    BY <2>2 DEF SameOrigin
  <2>4. t.entryBar = l.pos.entryBar
    BY <2>3 DEF TradeOf
  <2>5. u \in Positions /\ Same(u, q) /\ u.mfe = BestOf(q.direction, x, q.mfe)
    <3>. HIDE DEF q
    <3>. QED
      BY <1>1, <2>2, UpdateMFEIs
  <2>6. CASE Missed(q, x)
    <3>. HIDE DEF c, q, u
    <3>1. u.entryBar = l.pos.entryBar /\ u.direction = q.direction
      BY <2>3, <2>5 DEF Same
    <3>2. c.pos = u /\ HasPos(c)
      BY <2>2, <2>6 DEF Holds
    <3>. HIDE DEF n
    <3>3. Pair(l, b, bar.time, n, g)
      BY DEF n
    <3>4. Pair(c, b, bar.time, n, g) /\ \A y : Pending(c, b, y, g) => Pending(l, b, y, g)
      BY <1>3, <2>2, <2>6, <3>1, <3>3, LiveGoesOn
    <3>5. u = q
      <4>1. l.pos \in Positions /\ l.pos.mfe \in Int /\ l.pos.direction \in Directions
        BY <1>1, <1>3, HasPosIs DEF Positions
      <4>2. /\ TrailPrice(bar, l.pos.direction) \in Int
            /\ NotWorse(l.pos.direction, TrailPrice(bar, l.pos.direction), x)
        BY <1>1, <4>1, BarIs DEF TrailPrice, NotWorse, Better, Directions
      <4>3. BestOf(q.direction, x, q.mfe) = q.mfe
        BY <1>1, <2>2, <2>3, <4>1, <4>2 DEF BestOf, Better, NotWorse
      <4>. QED
        BY <2>2, <2>5, <4>3, SameValue
    <3>6. ASSUME Twins(c, b) PROVE c.pos = AsLive(b.pos)
      <4>1. Twins(l, b)
        BY <1>3, <3>1, <3>2, <3>6 DEF Twins
      <4>. QED
        BY <3>2, <3>5, <4>1 DEF q
    <3>. QED
      BY <3>4, <3>6 DEF Matched, c, n
  <2>7. CASE ~Missed(q, x)
    <3>1. ASSUME Twins(l, b), ~Exempt(t) PROVE DueIdle(b, t, x, n)
      <4>1. Same(q, AsLive(b.pos)) /\ b.pos \in Positions /\ HasPos(b)
        BY <1>1, <3>1, HasPosIs DEF Same, Twins
      <4>2. Day(n) = Day(b.pos.entryBar)
        BY <1>1, <4>1
      <4>3. t = EndOf(q, x)
        BY DEF EndOf
      <4>. HIDE DEF q, t
      <4>4. ~Missed(b.pos, x) /\ Alike(t, EndOf(b.pos, x))
        BY <1>1, <2>2, <2>7, <3>1, <4>1, <4>3, TwinTrades
      <4>. QED
        BY <4>2, <4>4 DEF DueIdle
    <3>. HIDE DEF c, t
    <3>. HIDE DEF n
    <3>2. Pair(l, b, bar.time, n, g)
      BY DEF n
    <3>3. /\ Pair(c, b, bar.time, n, g) /\ ~HasPos(c)
          /\ \A y : Pending(c, b, y, g) => Pending(l, b, y, g) \/ (y = t /\ Twins(l, b) /\ ~Exempt(t))
      BY <1>3, <2>2, <2>4, <2>7, <3>2, LiveEnds
    <3>4. ~Twins(c, b)
      BY <3>3 DEF Twins
    <3>. QED
      BY <3>1, <3>3, <3>4 DEF Matched, c, n
  <2>. QED
    BY <2>6, <2>7
<1>. QED
  BY <1>2, <1>3

-----------------------------------------------------------------------------
(* A closed bar, the entries                                               *)

\* A limit fill whose stop the rest of its bar has hit.
Struck(n, bar) == SameBarExitAfterFill(n, bar) # ""
StruckTrade(n) == TradeOf(n, "STOP_LOSS", n.stop, TRUE)

\* What the live strategy stores when the close ends a position at once.
CloseTrade(n, x) ==
    TradeOf(n, CheckExit(n, x), ExitFillPriceAt(n, CheckExit(n, x), x), FALSE)

\* What an entry of position n at the close x of a bar makes of side s, live
\* and in the backtest.
LiveEnters(c, s, n, bar) ==
    \/ Struck(n, bar) /\ Ended(c, s, StruckTrade(n))
    \/ ~Struck(n, bar) /\ Missed(n, bar.close) /\ Holds(c, s, UpdateMFE(n, bar.close))
    \/ ~Struck(n, bar) /\ ~Missed(n, bar.close) /\ Ended(c, s, CloseTrade(n, bar.close))
BacktestEnters(c, s, n, bar) ==
    \/ Struck(n, bar) /\ Ended(c, s, StruckTrade(n))
    \/ ~Struck(n, bar) /\ Holds(c, s, n)

\* EnterOn enters as the backtest does.
LEMMA BacktestEntersIs ==
    ASSUME NEW s \in Sides, ~HasPos(s), NEW bar \in Bars,
           NEW signal \in Signals(bar), signal # NoSignal
    PROVE  BacktestEnters(EnterOn(s, bar, signal), s, NewPos(bar, signal), bar)
BY EnterOnIs DEF BacktestEnters, Struck, StruckTrade

\* EnterOn and the check that follows it enter as the live strategy does.
LEMMA LiveEntersIs ==
    ASSUME NEW s \in Sides, ~HasPos(s), NEW bar \in Bars,
           NEW signal \in Signals(bar), signal # NoSignal
    PROVE  LiveEnters(CheckSLTP(EnterOn(s, bar, signal), bar.close), s, NewPos(bar, signal), bar)
<1>. DEFINE e == EnterOn(s, bar, signal)
            n == NewPos(bar, signal)
            c == CheckSLTP(e, bar.close)
<1>1. BacktestEnters(e, s, n, bar)
  BY BacktestEntersIs
<1>2. n \in Positions /\ bar.close \in Int
  BY NewPosIs, BarIs
<1>. HIDE DEF e, n
<1>3. CASE Struck(n, bar)
  <2>1. Ended(e, s, StruckTrade(n))
    BY <1>1, <1>3 DEF BacktestEnters
  <2>2. e \in Sides /\ ~HasPos(e)
    BY <2>1, EndedIs
  <2>3. c = e
    BY <2>2 DEF CheckSLTP
  <2>. QED
    BY <1>3, <2>1, <2>3 DEF LiveEnters, e, n
<1>4. CASE ~Struck(n, bar)
  <2>1. e \in Sides /\ HasPos(e) /\ e.pos = n /\ e.trades = s.trades
    BY <1>1, <1>4 DEF BacktestEnters, Holds
  <2>2. /\ Missed(n, bar.close) => Holds(c, e, UpdateMFE(n, bar.close))
        /\ ~Missed(n, bar.close) => Ended(c, e, CloseTrade(n, bar.close))
    BY <1>2, <2>1, CheckSLTPIs DEF Missed, CloseTrade
  <2>3. /\ Missed(n, bar.close) => Holds(c, s, UpdateMFE(n, bar.close))
        /\ ~Missed(n, bar.close) => Ended(c, s, CloseTrade(n, bar.close))
    <3>. HIDE DEF c
    <3>. QED
      BY <2>1, <2>2 DEF Holds, Ended
  <2>. QED
    BY <1>4, <2>3 DEF LiveEnters, e, n
<1>. QED
  BY <1>3, <1>4

\* The backtest enters.
LEMMA PairBacktestEnters ==
    ASSUME NEW g, NEW l, NEW b, NEW T \in Int, NEW m, Pair(l, b, T, m, g), ~HasPos(b),
           NEW n \in Positions, n.entryBar = T, NEW bar, NEW c, BacktestEnters(c, b, n, bar)
    PROVE  /\ Pair(l, c, T + 1, m, g) /\ ~Twins(l, c)
           /\ \A t : ~Pending(l, c, t, g)
<1>1. Pair(l, b, T + 1, m, g) /\ EntriesBefore(l, T) /\ l \in Sides /\ b \in Sides /\ T < T + 1
  <2>1. Pair(l, b, T + 1, m, g)
    BY PairLater
  <2>. QED
    BY <2>1 DEF Pair
<1>2. NoTradeOf(l, T) /\ (HasPos(l) => l.pos.entryBar # T)
  BY <1>1 DEF EntriesBefore, NoTradeOf
<1>3. CASE Holds(c, b, n)
  <2>1. Pair(l, c, T + 1, m, g) /\ \A t : Pending(l, c, t, g) => ~NoTradeOf(l, n.entryBar)
    BY <1>1, <1>3, BacktestOpens
  <2>2. c.pos = n
    BY <1>3 DEF Holds
  <2>. QED
    BY <1>2, <2>1, <2>2 DEF Twins
<1>4. CASE Ended(c, b, StruckTrade(n))
  <2>. DEFINE t == StruckTrade(n)
  <2>1. t.entryBar = T
    BY DEF StruckTrade, TradeOf
  <2>2. /\ c \in Sides /\ ~HasPos(c)
        /\ \A i \in DOMAIN c.trades :
              c.trades[i] = t \/ (i \in DOMAIN b.trades /\ c.trades[i] = b.trades[i])
    BY <1>1, <1>4, TradesAfter
  <2>. HIDE DEF t
  <2>3. EntriesBefore(c, T + 1)
    BY <1>1, <2>1, <2>2 DEF Pair, EntriesBefore
  <2>4. AlikeTrades(l, c, g)
    BY <1>1, <1>2, <2>1, <2>2 DEF Pair, AlikeTrades, NoTradeOf
  <2>5. HasPos(l) => NoTradeOf(c, l.pos.entryBar)
    BY <1>1, <1>2, <2>1, <2>2 DEF Pair, NoTradeOf
  <2>6. Pair(l, c, T + 1, m, g)
    BY <1>1, <2>2, <2>3, <2>4, <2>5 DEF Pair
  <2>. QED
    BY <2>2, <2>6 DEF Twins, Pending
<1>. QED
  BY <1>3, <1>4 DEF BacktestEnters

\* The live strategy enters, the backtest likewise or not at all.
LEMMA PairLiveEnters ==
    ASSUME NEW g, NEW l, NEW b, NEW T \in Int, NEW m, Pair(l, b, T + 1, m, g), ~HasPos(l),
           EntriesBefore(l, T), ~ShouldForceClose(m),
           NEW n \in Positions, n.entryBar = T, Day(T) = Day(m), NEW bar, bar.close \in Int,
           n.entryClose = bar.close, n.stage = 0,
           \/ EntriesBefore(b, T)
           \/ \E a \in Sides : EntriesBefore(a, T) /\ BacktestEnters(b, a, n, bar),
           \A t : Pending(l, b, t, g) => DueIdle(b, t, bar.close, m),
           NEW c, LiveEnters(c, l, n, bar)
    PROVE  /\ Pair(c, b, T + 1, m, g) /\ Matched(c, b)
           /\ \A t : Pending(c, b, t, g) => DueIdle(b, t, bar.close, m)
<1>. DEFINE x == bar.close
            u == UpdateMFE(n, x)
            s == StruckTrade(n)
            e == CloseTrade(n, x)
            \* What the backtest may have of the entry.
            Idles == NoTradeOf(b, T) /\ (HasPos(b) => b.pos.entryBar # T)
            Fails == Struck(n, bar) /\ ~HasPos(b)
                     /\ \A i \in DOMAIN b.trades : b.trades[i].entryBar = T => b.trades[i] = s
            Enters == ~Struck(n, bar) /\ HasPos(b) /\ b.pos = n /\ NoTradeOf(b, T)
<1>1. l \in Sides /\ b \in Sides /\ T < T + 1 /\ NoTradeOf(l, T)
  BY DEF Pair, EntriesBefore, NoTradeOf
<1>2. s.entryBar = T /\ e.entryBar = T
  BY DEF StruckTrade, CloseTrade, TradeOf
<1>3. Idles \/ Fails \/ Enters
  <2>. HIDE DEF s
  <2>1. CASE EntriesBefore(b, T)
    BY <2>1 DEF EntriesBefore, NoTradeOf
  <2>2. CASE \E a \in Sides : EntriesBefore(a, T) /\ BacktestEnters(b, a, n, bar)
    <3>1. PICK a \in Sides : EntriesBefore(a, T) /\ BacktestEnters(b, a, n, bar)
      BY <2>2
    <3>2. NoTradeOf(a, T)
      BY <3>1 DEF EntriesBefore, NoTradeOf
    <3>3. CASE Struck(n, bar) /\ Ended(b, a, StruckTrade(n))
      <4>1. ~HasPos(b) /\ \A i \in DOMAIN b.trades :
               b.trades[i] = s \/ (i \in DOMAIN a.trades /\ b.trades[i] = a.trades[i])
        BY <3>3, TradesAfter DEF s
      <4>. QED
        BY <3>2, <3>3, <4>1 DEF NoTradeOf
    <3>4. CASE ~Struck(n, bar) /\ Holds(b, a, n)
      BY <3>2, <3>4 DEF Holds, NoTradeOf
    <3>. QED
      BY <3>1, <3>3, <3>4 DEF BacktestEnters
  <2>. QED
    BY <2>1, <2>2
<1>4. u \in Positions /\ Same(u, n) /\ u.mfe = BestOf(n.direction, x, n.mfe) /\ u.entryBar = T
  <2>1. u \in Positions /\ Same(u, n) /\ u.mfe = BestOf(n.direction, x, n.mfe)
    BY UpdateMFEIs
  <2>. HIDE DEF u
  <2>. QED
    BY <2>1 DEF Same
<1>. HIDE DEF s, e, u
<1>5. CASE ~Struck(n, bar) /\ Holds(c, l, u)
  <2>1. NoTradeOf(b, T) /\ (HasPos(b) => b.pos.entryBar # T \/ b.pos = n)
    BY <1>3, <1>5
  <2>2. Pair(c, b, T + 1, m, g) /\ \A t : Pending(c, b, t, g) => Pending(l, b, t, g)
    BY <1>1, <1>4, <1>5, <2>1, LiveOpens
  <2>3. c.pos = u
    BY <1>5 DEF Holds
  <2>4. ASSUME Twins(c, b) PROVE c.pos = AsLive(b.pos)
    <3>1. b.pos = n
      BY <1>4, <2>1, <2>3, <2>4 DEF Twins
    <3>. DEFINE a == AsLive(n)
    <3>2. a \in Positions /\ SameOrigin(a, n) /\ a.stage = 0 /\ a.stop = n.stop
          /\ a.mfe = BestOf(n.direction, x, n.mfe)
      <4>1. ~(0 >= StageMax)
        BY PositionAssumption
      <4>. QED
        BY <4>1, AsLiveIs
    <3>. HIDE DEF a
    <3>3. SameOrigin(u, a) /\ u.stop = a.stop /\ u.stage = a.stage
      BY <1>4, <3>2 DEF Same, SameOrigin
    <3>4. u = a
      BY <1>4, <3>2, <3>3, OriginValue
    <3>. QED
      BY <2>3, <3>1, <3>4 DEF a
  <2>. QED
    BY <2>2, <2>4 DEF Matched
<1>6. ASSUME NEW t, Ended(c, l, t), t.entryBar = T,
             \A i \in DOMAIN b.trades : b.trades[i].entryBar = T => b.trades[i] = t,
             HasPos(b) /\ b.pos.entryBar = T => DueIdle(b, t, x, m)
      PROVE  /\ Pair(c, b, T + 1, m, g) /\ Matched(c, b)
             /\ \A y : Pending(c, b, y, g) => DueIdle(b, y, x, m)
  <2>1. /\ c \in Sides /\ ~HasPos(c)
        /\ \A i \in DOMAIN c.trades :
              c.trades[i] = t \/ (i \in DOMAIN l.trades /\ c.trades[i] = l.trades[i])
        /\ \A y : (\E i \in DOMAIN c.trades : c.trades[i] = y)
                     => y = t \/ \E i \in DOMAIN l.trades : l.trades[i] = y
    BY <1>1, <1>6, TradesAfter
  <2>2. EntriesBefore(c, T + 1)
    BY <1>1, <1>6, <2>1 DEF Pair, EntriesBefore
  <2>3. AlikeTrades(c, b, g)
    <3>. SUFFICES ASSUME NEW i \in DOMAIN c.trades, NEW j \in DOMAIN b.trades,
                         c.trades[i].entryBar = b.trades[j].entryBar, c.trades[i].entryBar \notin g
                  PROVE  Exempt(c.trades[i]) \/ Alike(c.trades[i], b.trades[j])
      BY DEF AlikeTrades
    <3>1. CASE c.trades[i] = t
      <4>1. b.trades[j] = t
        BY <1>6, <3>1
      <4>. QED
        BY <3>1, <4>1 DEF Alike
    <3>2. CASE i \in DOMAIN l.trades /\ c.trades[i] = l.trades[i]
      BY <3>2 DEF Pair, AlikeTrades
    <3>. QED
      BY <2>1, <3>1, <3>2
  <2>4. Pair(c, b, T + 1, m, g)
    BY <1>1, <2>1, <2>2, <2>3 DEF Pair
  <2>5. \A y : Pending(c, b, y, g) => DueIdle(b, y, x, m)
    <3>. SUFFICES ASSUME NEW y, Pending(c, b, y, g) PROVE DueIdle(b, y, x, m)
      OBVIOUS
    <3>1. y = t \/ Pending(l, b, y, g)
      BY <2>1 DEF Pending
    <3>2. y = t => HasPos(b) /\ b.pos.entryBar = T
      BY <1>6 DEF Pending
    <3>. QED
      BY <1>6, <3>1, <3>2
  <2>. QED
    BY <2>1, <2>4, <2>5 DEF Matched, Twins
<1>7. CASE Struck(n, bar) /\ Ended(c, l, s)
  <2>1. /\ \A i \in DOMAIN b.trades : b.trades[i].entryBar = T => b.trades[i] = s
        /\ ~(HasPos(b) /\ b.pos.entryBar = T)
    BY <1>3, <1>7 DEF NoTradeOf
  <2>. QED
    BY <1>2, <1>6, <1>7, <2>1
<1>8. CASE ~Struck(n, bar) /\ ~Missed(n, x) /\ Ended(c, l, e)
  <2>1. /\ \A i \in DOMAIN b.trades : b.trades[i].entryBar # T
        /\ HasPos(b) /\ b.pos.entryBar = T => b.pos = n
    BY <1>3, <1>8 DEF NoTradeOf
  <2>2. ASSUME HasPos(b), b.pos.entryBar = T PROVE DueIdle(b, e, x, m)
    <3>1. b.pos = n
      BY <2>1, <2>2
    <3>. QED
      BY <1>8, <3>1 DEF DueIdle, e, CloseTrade, EndOf, Alike
  <2>. QED
    BY <1>2, <1>6, <1>8, <2>1, <2>2
<1>. QED
  BY <1>5, <1>7, <1>8 DEF LiveEnters, s, e, u

\* A closed bar on both sides, signal included.
LEMMA CandleIs ==
    ASSUME NEW g, TypeInv, NEW bar \in Bars, NEW signal \in Signals(bar),
           Shut(live, bt, bar, lastClose, g), clock = bar.time + 1, ~ShouldForceClose(bar.time),
           HasPos(bt) => lastClose > 0
    PROVE  Idle(LiveOnBar(live, bar, signal), BacktestOnBar(bt, bar, signal), bar.close, clock, g)
<1>. DEFINE T == bar.time
            x == bar.close
            e == CheckEOD(live, x, clock)
            l == TrailOnBar(e, bar)
            c == ProcessCandle(l, bar, signal)
            m == CloseMissedEOD(bt, bar)
            w == ProcessIntrabar(m, bar)
            s == CheckEOD(w, x, T + 1)
            d == BacktestOnBar(bt, bar, signal)
            n == NewPos(bar, signal)
<1>1. x \in Int /\ T \in Int /\ live \in Sides /\ bt \in Sides /\ lastClose \in Int
  BY BarIs DEF TypeInv
<1>2. Shut(live, m, bar, lastClose, g) /\ (HasPos(m) => Day(T) = Day(m.pos.entryBar))
  BY <1>1, ShutMissed
<1>3. LiveOnBar(live, bar, signal) = c
  BY DEF LiveOnBar
<1>4. d = s \/ (~HasPos(s) /\ signal # NoSignal /\ EntriesAllowed(T + 1) /\ d = EnterOn(s, bar, signal))
  BY DEF BacktestOnBar
<1>. HIDE DEF m, d
<1>5. CASE ShouldForceClose(clock)
  <2>1. Shut(e, m, bar, lastClose, g) /\ ~HasPos(e)
    <3>1. CASE HasPos(live)
      <4>1. Ended(e, live, TradeOf(live.pos, "EOD", x, FALSE))
        BY <1>1, <1>5, <3>1, CheckEODIs
      <4>2. Shut(e, m, bar, lastClose, g)
        BY <1>2, <1>5, <3>1, ShutEod
      <4>. HIDE DEF e
      <4>. QED
        BY <4>1, <4>2, EndedIs
    <3>2. CASE ~HasPos(live)
      <4>1. e = live
        BY <3>2 DEF CheckEOD
      <4>. QED
        BY <1>2, <3>2, <4>1
    <3>. QED
      BY <3>1, <3>2
  <2>2. l = e
    BY <2>1 DEF TrailOnBar
  <2>3. c = l
    BY <1>5 DEF ProcessCandle, EntriesAllowed
  <2>. HIDE DEF e, l, c
  <2>4. /\ Pair(e, w, T, T + 1, g)
        /\ \A t : Pending(e, w, t, g) => Alike(t, TradeOf(w.pos, "EOD", x, FALSE))
    BY <1>2, <2>1, ShutWalked
  <2>. HIDE DEF w
  <2>5. Idle(e, s, x, T + 1, g)
    BY <1>5, <2>1, <2>4, ShutEvening
  <2>6. d = s
    BY <1>4, <1>5 DEF EntriesAllowed
  <2>. HIDE DEF s
  <2>. QED
    BY <1>3, <2>2, <2>3, <2>5, <2>6 DEF d
<1>6. CASE ~ShouldForceClose(clock)
  <2>1. e = live /\ s = w
    BY <1>6 DEF CheckEOD
  <2>2. /\ Pair(live, w, T, T + 1, g)
        /\ Twins(live, w) => LiveTrail(live.pos, bar) = AsLive(w.pos)
        /\ HasPos(w) => Day(T) = Day(w.pos.entryBar)
        /\ \A t : ~Pending(live, w, t, g)
    BY <1>2, <1>6, ShutWalked
  <2>. HIDE DEF w
  <2>3. /\ Pair(l, w, T, T + 1, g) /\ Matched(l, w)
        /\ \A t : Pending(l, w, t, g) => DueIdle(w, t, x, T + 1)
    BY <1>6, <2>1, <2>2, ShutTrailed
  <2>4. c = l \/ (~HasPos(l) /\ signal # NoSignal /\ c = CheckSLTP(EnterOn(l, bar, signal), x))
    BY DEF ProcessCandle
  <2>5. d = w \/ (~HasPos(w) /\ signal # NoSignal /\ d = EnterOn(w, bar, signal))
    BY <1>4, <2>1
  <2>. HIDE DEF e, l, c, s
  <2>6. l \in Sides /\ w \in Sides /\ EntriesBefore(l, T) /\ EntriesBefore(w, T)
    BY <2>3 DEF Pair
  <2>7. signal # NoSignal => /\ n \in Positions /\ n.entryBar = T
                           /\ n.entryClose = x /\ n.stage = 0
    BY NewPosIs
  <2>. HIDE DEF n
  <2>8. /\ Pair(l, d, T + 1, T + 1, g) /\ Matched(l, d)
        /\ \A t : Pending(l, d, t, g) => DueIdle(d, t, x, T + 1)
        /\ \/ EntriesBefore(d, T)
           \/ \E a \in Sides : EntriesBefore(a, T) /\ BacktestEnters(d, a, n, bar)
    <3>1. CASE d = w
      <4>1. Pair(l, w, T + 1, T + 1, g)
        BY <1>1, <2>3, PairLater
      <4>. QED
        BY <2>3, <2>6, <3>1, <4>1
    <3>2. CASE ~HasPos(w) /\ signal # NoSignal /\ d = EnterOn(w, bar, signal)
      <4>1. BacktestEnters(d, w, n, bar)
        BY <2>6, <3>2, BacktestEntersIs DEF n
      <4>2. Pair(l, d, T + 1, T + 1, g) /\ ~Twins(l, d) /\ \A t : ~Pending(l, d, t, g)
        BY <1>1, <2>3, <2>7, <3>2, <4>1, PairBacktestEnters
      <4>. QED
        BY <2>6, <4>1, <4>2 DEF Matched
    <3>. QED
      BY <2>5, <3>1, <3>2
  <2>9. /\ Pair(c, d, T + 1, T + 1, g) /\ Matched(c, d)
        /\ \A t : Pending(c, d, t, g) => DueIdle(d, t, x, T + 1)
    <3>1. CASE c = l
      BY <2>8, <3>1
    <3>2. CASE ~HasPos(l) /\ signal # NoSignal /\ c = CheckSLTP(EnterOn(l, bar, signal), x)
      <4>1. LiveEnters(c, l, n, bar)
        BY <2>6, <3>2, LiveEntersIs DEF n
      <4>2. Day(T) = Day(T + 1) /\ ~ShouldForceClose(T + 1)
        BY <1>1, <1>6, NextInstant
      <4>. QED
        BY <1>1, <2>6, <2>7, <2>8, <3>2, <4>1, <4>2, PairLiveEnters
    <3>. QED
      BY <2>4, <3>1, <3>2
  <2>10. Idle(c, d, x, T + 1, g)
    BY <2>9 DEF Idle
  <2>. QED
    BY <1>3, <2>10 DEF c, d, l, e
<1>. QED
  BY <1>5, <1>6

-----------------------------------------------------------------------------
(* The two theorems that hold where no bar waits while the market moves on *)

\* Between bars: every closed bar has been handled.
Quiet ==
    /\ forming = NoBar /\ path = <<>> /\ queue = <<>> /\ lastClose = price
    /\ Idle(live, bt, price, clock, parted)

\* In a bar: the market is somewhere on its route through the four prices.
InBar ==
    /\ queue = <<>> /\ forming \in Bars /\ forming.time = clock /\ ~ShouldForceClose(clock)
    /\ \E d \in Directions : On(live, bt, forming, d, price, path, lastClose, parted)

\* Behind a bar: it is closed, and neither strategy has handled it.
Waiting ==
    /\ forming = NoBar /\ path = <<>>
    /\ \E bar \in Bars :
          /\ queue = <<bar>> /\ bar.time + 1 = clock /\ ~ShouldForceClose(bar.time)
          /\ price = bar.close /\ Shut(live, bt, bar, lastClose, parted)

\* What the steps keep: between bars, in a bar and behind it, the backtest owes
\* the live strategy no more than it will make up for.
StepInv ==
    /\ TypeInv
    /\ lastPrice = price /\ (HasPos(bt) => lastClose > 0)
    /\ Quiet \/ InBar \/ Waiting

\* It holds before the first bar: neither side holds or has ended anything.
LEMMA InitStepInv == Init => StepInv
<1>. SUFFICES ASSUME Init PROVE StepInv
  OBVIOUS
<1>1. TypeInv
  BY InitTypeInv
<1>2. ~HasPos(live) /\ ~HasPos(bt) /\ live.trades = <<>> /\ bt.trades = <<>>
  BY DEF Init, HasPos
<1>3. DOMAIN live.trades = {} /\ DOMAIN bt.trades = {}
  BY <1>2
<1>4. Pair(live, bt, clock, clock, parted)
  BY <1>1, <1>2, <1>3 DEF Pair, TypeInv, EntriesBefore, AlikeTrades
<1>5. Idle(live, bt, price, clock, parted)
  BY <1>2, <1>4 DEF Idle, Matched, Twins, Pending
<1>. QED
  BY <1>1, <1>2, <1>5 DEF Init, StepInv, Quiet

\* Every step keeps it where a closed bar is handled before the next tick.
LEMMA NextStepInv ==
    ASSUME MaxLag = 0, StepInv, [Next]_vars
    PROVE  StepInv'
<1>1. TypeInv /\ TypeInv'
  BY NextTypeInv DEF StepInv
<1>2. /\ clock \in Nat /\ price \in Int /\ live \in Sides /\ bt \in Sides /\ lastClose \in Int
      /\ NoBar \notin Bars
  <2>1. price \in Int
    BY <1>1 DEF TypeInv, Prices
  <2>2. NoBar \notin Bars
    BY BarIs DEF NoBar
  <2>. QED
    BY <1>1, <2>1, <2>2 DEF TypeInv
<1>0. /\ Waiting => queue # <<>> /\ ~(Len(queue) <= MaxLag)
      /\ InBar => forming # NoBar
  <2>1. \A bar \in Bars : <<bar>> # <<>> /\ ~(Len(<<bar>>) <= MaxLag)
    OBVIOUS
  <2>2. Waiting => \E bar \in Bars : queue = <<bar>>
    BY DEF Waiting
  <2>3. Waiting => queue # <<>> /\ ~(Len(queue) <= MaxLag)
    BY <2>1, <2>2
  <2>4. InBar => forming # NoBar
    BY <1>2 DEF InBar
  <2>. QED
    BY <2>3, <2>4
<1>3. CASE NewBar
  <2>1. Quiet
    BY <1>0, <1>3 DEF NewBar, StepInv
  <2>2. PICK open \in Prices : \E bar \in BarsFrom(open) :
          /\ bar.close \in bar.low..bar.high
          /\ forming' = bar /\ parted' = PartedBy(open)
          /\ path' = TicksOf(bar, IF HasPos(live) THEN live.pos.direction ELSE "BUY")
    BY <1>3 DEF NewBar
  <2>3. PICK bar \in BarsFrom(open) :
          /\ bar.close \in bar.low..bar.high
          /\ forming' = bar /\ parted' = PartedBy(open)
          /\ path' = TicksOf(bar, IF HasPos(live) THEN live.pos.direction ELSE "BUY")
    BY <2>2
  <2>. DEFINE d == IF HasPos(live) THEN live.pos.direction ELSE "BUY"
  <2>4. bar \in Bars /\ bar.time = clock /\ bar.open = open
    BY <1>1, <2>2, <2>3, NewBarIs
  <2>5. d \in Directions /\ (HasPos(live) => d = live.pos.direction)
    BY <1>2, HasPosIs DEF Positions, Directions
  <2>6. parted \subseteq parted' /\ (Together(live, bt, parted') \/ bar.open = price)
    BY <2>3, <2>4 DEF PartedBy, Together
  <2>7. ~ShouldForceClose(clock) /\ UNCHANGED <<clock, price, queue, live, bt, lastPrice, lastClose>>
    BY <1>3 DEF NewBar
  <2>8. path' = TicksOf(bar, d)
    BY <2>3
  <2>. HIDE DEF d
  <2>9. On(live, bt, bar, d, price, TicksOf(bar, d), price, parted')
    BY <1>2, <2>1, <2>4, <2>5, <2>6, <2>7, IdleToOn DEF Quiet
  <2>10. InBar'
    BY <2>1, <2>3, <2>4, <2>5, <2>7, <2>8, <2>9 DEF InBar, Quiet
  <2>. QED
    BY <1>1, <2>7, <2>10 DEF StepInv
<1>4. CASE Tick
  <2>1. InBar
    BY <1>4 DEF Tick, StepInv, Quiet, Waiting
  <2>2. PICK d \in Directions : On(live, bt, forming, d, price, path, lastClose, parted)
    BY <2>1 DEF InBar
  <2>3. path # <<>> /\ Head(path) \in Prices /\ Head(path) \in Int /\ Head(path) > 0
    <3>1. Head(path) \in Prices
      BY <1>1, <1>4, TickIs
    <3>. QED
      BY <1>4, <3>1 DEF Tick, Prices
  <2>4. /\ price' = Head(path) /\ lastPrice' = Head(path) /\ path' = Tail(path)
        /\ live' = CheckSLTP(live, Head(path))
        /\ UNCHANGED <<clock, forming, queue, bt, lastClose, parted>>
    BY <1>4 DEF Tick
  <2>5. On(CheckSLTP(live, Head(path)), bt, forming, d, Head(path), Tail(path), lastClose, parted)
    BY <2>1, <2>2, <2>3, OnTick DEF InBar
  <2>6. InBar'
    BY <2>1, <2>4, <2>5 DEF InBar
  <2>7. HasPos(bt)' => lastClose' > 0
    BY <2>4 DEF StepInv, HasPos
  <2>. QED
    BY <1>1, <2>4, <2>6, <2>7 DEF StepInv
<1>5. CASE CloseBar
  <2>1. InBar /\ path = <<>>
    BY <1>5 DEF CloseBar, StepInv, Quiet, Waiting
  <2>2. PICK d \in Directions : On(live, bt, forming, d, price, <<>>, lastClose, parted)
    BY <2>1 DEF InBar
  <2>3. Shut(live, bt, forming, lastClose, parted) /\ price = forming.close
    BY <2>1, <2>2, OnToShut DEF InBar
  <2>4. /\ queue' = <<forming>> /\ forming' = NoBar /\ clock' = clock + 1
        /\ UNCHANGED <<price, path, live, bt, lastPrice, lastClose, parted>>
    BY <1>5, <2>1 DEF CloseBar, InBar
  <2>5. Waiting'
    BY <2>1, <2>3, <2>4 DEF Waiting, InBar
  <2>. QED
    BY <1>1, <2>4, <2>5 DEF StepInv
<1>6. CASE NoTrades \/ NextDay
  <2>1. Quiet
    <3>2. ~InBar
      BY <1>0, <1>6 DEF NoTrades, NextDay, InBar
    <3>3. ~Waiting
      BY <1>0, <1>6 DEF NoTrades, NextDay
    <3>. QED
      BY <3>2, <3>3 DEF StepInv
  <2>2. /\ clock' = clock + 1 /\ parted \subseteq parted'
        /\ UNCHANGED <<price, forming, path, queue, live, bt, lastPrice, lastClose>>
    BY <1>6 DEF NoTrades, NextDay, PartedBy
  <2>3. \/ ~ShouldForceClose(clock) /\ Together(live, bt, parted')
        \/ ShouldForceClose(clock) /\ ~HasPos(live)
    <3>1. HasPos(bt) => price # 0
      BY <2>1 DEF StepInv, Quiet
    <3>2. CASE NoTrades
      BY <3>1, <3>2 DEF NoTrades, PartedBy, Together
    <3>3. CASE NextDay
      BY <3>3 DEF NextDay
    <3>. QED
      BY <1>6, <3>2, <3>3
  <2>5. Idle(live, bt, price, clock + 1, parted')
    BY <1>2, <2>1, <2>2, <2>3, IdleLater DEF Quiet
  <2>4. Quiet'
    BY <2>1, <2>2, <2>5 DEF Quiet
  <2>. QED
    BY <1>1, <2>2, <2>4 DEF StepInv
<1>7. CASE Candle
  <2>1. Waiting
    BY <1>7 DEF Candle, StepInv, Quiet, InBar
  <2>2. PICK bar \in Bars :
          /\ queue = <<bar>> /\ bar.time + 1 = clock /\ ~ShouldForceClose(bar.time)
          /\ price = bar.close /\ Shut(live, bt, bar, lastClose, parted)
    BY <2>1 DEF Waiting
  <2>3. Head(queue) = bar /\ Tail(queue) = <<>>
    BY <2>2
  <2>4. PICK signal \in Signals(bar) : /\ live' = LiveOnBar(live, bar, signal)
                                       /\ bt' = BacktestOnBar(bt, bar, signal)
    BY <1>7, <2>3 DEF Candle
  <2>5. /\ lastPrice' = bar.close /\ lastClose' = bar.close /\ queue' = <<>>
        /\ UNCHANGED <<clock, price, forming, path, parted>>
    BY <1>7, <2>3 DEF Candle
  <2>6. Idle(LiveOnBar(live, bar, signal), BacktestOnBar(bt, bar, signal), bar.close, clock, parted)
    BY <1>1, <2>2, CandleIs DEF StepInv
  <2>7. Quiet'
    BY <2>1, <2>2, <2>4, <2>5, <2>6 DEF Quiet, Waiting
  <2>8. bar.close > 0
    BY BarIs
  <2>. QED
    BY <1>1, <2>2, <2>5, <2>7, <2>8 DEF StepInv
<1>8. CASE EodTimer
  <2>1. /\ ShouldForceClose(clock) /\ HasPos(live) /\ live' = CheckEOD(live, price, clock)
        /\ UNCHANGED <<clock, price, forming, path, queue, bt, lastPrice, lastClose, parted>>
    BY <1>8 DEF EodTimer, StepInv
  <2>2. CASE Quiet
    <3>1. Idle(CheckEOD(live, price, clock), bt, price, clock, parted)
      BY <1>2, <2>1, <2>2, IdleEod DEF Quiet
    <3>2. Quiet'
      BY <2>1, <2>2, <3>1 DEF Quiet
    <3>. QED
      BY <1>1, <2>1, <3>2 DEF StepInv
  <2>3. CASE Waiting
    <3>1. PICK bar \in Bars :
            /\ queue = <<bar>> /\ bar.time + 1 = clock /\ ~ShouldForceClose(bar.time)
            /\ price = bar.close /\ Shut(live, bt, bar, lastClose, parted)
      BY <2>3 DEF Waiting
    <3>2. Shut(CheckEOD(live, price, clock), bt, bar, lastClose, parted)
      BY <2>1, <3>1, ShutEod
    <3>3. Waiting'
      BY <2>1, <2>3, <3>1, <3>2 DEF Waiting
    <3>. QED
      BY <1>1, <2>1, <3>3 DEF StepInv
  <2>. QED
    BY <2>1, <2>2, <2>3 DEF StepInv, InBar
<1>9. CASE Done \/ UNCHANGED vars
  <2>1. UNCHANGED vars
    BY <1>9 DEF Done
  <2>. QED
    BY <1>1, <2>1 DEF vars, StepInv, Quiet, InBar, Waiting
<1>. QED
  BY <1>3, <1>4, <1>5, <1>6, <1>7, <1>8, <1>9 DEF Next

\* Both properties say no more than a phase does.
LEMMA StepInvAgrees == StepInv => SameExit /\ SameStop
<1>. SUFFICES ASSUME StepInv PROVE SameExit /\ SameStop
  OBVIOUS
<1>1. AlikeTrades(live, bt, parted)
  <2>1. Quiet => AlikeTrades(live, bt, parted)
    BY DEF Quiet, Idle, Pair
  <2>2. InBar => AlikeTrades(live, bt, parted)
    BY DEF InBar, On, Pair
  <2>3. Waiting => AlikeTrades(live, bt, parted)
    BY SMTT(20) DEF Waiting, Shut, Pair
  <2>. QED
    BY <2>1, <2>2, <2>3 DEF StepInv
<1>2. SameExit
  BY <1>1 DEF SameExit, AlikeTrades, Alike, Unmarked, Exempt
<1>3. SameStop
  <2>. SUFFICES ASSUME queue = <<>>, forming = NoBar, Twins(live, bt)
                PROVE  live.pos = AsLive(bt.pos)
    BY DEF SameStop, Twins
  <2>1. Quiet
    <3>1. NoBar \notin Bars
      BY BarIs DEF NoBar
    <3>. QED
      BY <3>1 DEF StepInv, InBar, Waiting
  <2>. QED
    BY <2>1 DEF Quiet, Idle, Matched
<1>. QED
  BY <1>2, <1>3

\* Where a closed bar is handled before the next one begins (MaxLag = 0), and
\* wherever bars open and however many fail to come: what both sides end of one
\* entry they end for the same reason, at the same price, with the same marks,
\* and where its stop was is said alike, but for EOD.  An entry is left out whose
\* end the two had to decide at different prices (parted), and a stop that was
\* hit where the close of the entry bar had trailed it.
THEOREM BothEndAlike ==
    ASSUME MaxLag = 0
    PROVE  Spec => []SameExit
<1>1. StepInv /\ [Next]_vars => StepInv'
  BY NextStepInv
<1>2. StepInv => SameExit
  BY StepInvAgrees
<1>. QED
  BY <1>1, <1>2, InitStepInv, PTL DEF Spec

\* There, a position that both hold between bars has one stage, and live it has
\* the stop and the best price that the backtest's has, the close of the entry
\* bar counted as well: this and nothing else parts the two.
THEOREM BothTrailAlike ==
    ASSUME MaxLag = 0
    PROVE  Spec => []SameStop
<1>1. StepInv /\ [Next]_vars => StepInv'
  BY NextStepInv
<1>2. StepInv => SameStop
  BY StepInvAgrees
<1>. QED
  BY <1>1, <1>2, InitStepInv, PTL DEF Spec
=============================================================================
