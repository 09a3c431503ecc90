---- MODULE PriceEstimates ----
(* What a node paid for an update, in dollars (TrafficCostEstimateService): the price of
   Canton Coin on the day of the node's traffic purchase, or on the nearest day two venues
   know.  The venues' daily candles are fetched at the first estimate that needs them
   (CantonCoinPriceService and its two providers) and kept for five minutes, by the day
   they end before.  A day is still traded while it is today.

   Prices are kept as the sum of two closes, twice their median, so that no fraction is
   cut; decimals of amounts are left out. *)
EXTENDS Integers, FiniteSets

CONSTANTS
  Venue,        \* the two providers; both quote USDT
  Price,        \* closes a venue may report, positive
  MaxDay,       \* bound on the days
  MaxGap,       \* MAX_PRICE_GAP_DAYS, positive
  Costs         \* [paid, amulet, bought] of an update and a purchase; the last two positive

VARIABLES
  today,
  closes,       \* what each venue says of each day; 0 where it has no candle
  cache,        \* cachedHistories, by the day a history ends before
  estimate      \* the estimate just made, with the end of the history it was read from
vars == <<today, closes, cache, estimate>>

Day == 1..MaxDay
NoHistory == [v \in Venue |-> [d \in Day |-> 0]]
NotKept == [kept |-> FALSE, closes |-> NoHistory]
NoEstimate ==
  [day |-> 0, until |-> 0, price |-> 0, gap |-> 0, cents |-> 0,
   cost |-> CHOOSE c \in Costs : TRUE]

Init ==
  /\ today \in 2..MaxDay
  /\ closes \in [Venue -> [Day -> Price \cup {0}]]
  /\ \A v \in Venue, d \in Day : d > today => closes[v][d] = 0
  /\ cache = [d \in 1..MaxDay + 1 |-> NotKept]
  /\ estimate = NoEstimate

\* A trade moves today's close.
Trade(v) ==
  \E price \in Price \ {closes[v][today]} :
    /\ closes' = [closes EXCEPT ![v][today] = price]
    /\ estimate' = NoEstimate
    /\ UNCHANGED <<today, cache>>

\* Midnight; the minutes a history is kept go on.
DayEnds ==
  /\ today < MaxDay
  /\ today' = today + 1
  /\ estimate' = NoEstimate
  /\ UNCHANGED <<closes, cache>>

Expire(d) ==
  /\ cache[d].kept
  /\ cache' = [cache EXCEPT ![d] = NotKept]
  /\ estimate' = NoEstimate
  /\ UNCHANGED <<today, closes>>

------------------------------------------------------------------------------
\* Mutant of HistoryEnd: the history always ends before today.
EndOfPast(day) == today
\* historyNow: a purchase of today needs the candle that is still forming.
HistoryEnd(day) == IF day >= today THEN day + 1 ELSE today

\* A venue that fails twice is left out (fetchMarketJson).
Answering == SUBSET Venue

\* A provider reads all pages and drops the candles of the end and after.
Daily(v, end) == [d \in Day |-> IF d < end THEN closes[v][d] ELSE 0]

\* fetchHistory: the request itself never fails.
Fetched(end, answering) ==
  [v \in Venue |-> IF v \in answering THEN Daily(v, end) ELSE [d \in Day |-> 0]]

Gap(d, day) == IF d >= day THEN d - day ELSE day - d

\* The days with a close of both venues, near enough.
Candidates(history, day) ==
  {d \in Day : (\A v \in Venue : history[v][d] > 0) /\ Gap(d, day) < MaxGap}

\* Nearest first, then the earlier of two.
Closest(history, day) ==
  CHOOSE d \in Candidates(history, day) :
    \A e \in Candidates(history, day) :
      Gap(d, day) < Gap(e, day) \/ (Gap(d, day) = Gap(e, day) /\ d <= e)

TwiceMedian(history, d) ==
  LET v == CHOOSE v \in Venue : TRUE
      w == CHOOSE w \in Venue \ {v} : TRUE IN history[v][d] + history[w][d]

Numerator(c, price) == c.paid * c.amulet * price * 100
Denominator(c) == c.bought * 2
Cents(c, price) == (Numerator(c, price) + Denominator(c) \div 2) \div Denominator(c)

\* estimateDetails
Estimate(day, c) ==
  LET end == HistoryEnd(day) IN
  \E answering \in Answering :
    LET history == IF cache[end].kept THEN cache[end].closes ELSE Fetched(end, answering) IN
    /\ cache[end].kept => answering = {}
    /\ cache' = [cache EXCEPT ![end] = [kept |-> TRUE, closes |-> history]]
    /\ estimate' =
         IF Candidates(history, day) = {}
         THEN [NoEstimate EXCEPT !.day = day, !.until = end, !.cost = c]
         ELSE LET d == Closest(history, day)
                  price == TwiceMedian(history, d) IN
              [day |-> day, until |-> end, price |-> price, gap |-> Gap(d, day),
               cents |-> Cents(c, price), cost |-> c]
    /\ UNCHANGED <<today, closes>>

Next ==
  \/ \E v \in Venue : Trade(v)
  \/ DayEnds
  \/ \E d \in DOMAIN cache : Expire(d)
  \/ \E day \in 1..today, c \in Costs : Estimate(day, c)

Spec == Init /\ [][Next]_vars

------------------------------------------------------------------------------
(* An estimate is read from a history that reaches the purchase's day, kept or fetched:
   a close of that day by both venues is never passed over for a neighbour's, a
   neighbour is the nearest one, and the amount is off by half a cent at most, the half
   going up (getHistory, findDailyMedianPrice, estimateDetails).  No estimate means that
   no day near enough has two closes. *)
EstimatesAreOfNearestDay ==
  LET e == estimate
      history == cache[e.until].closes
      Known(d) == \A v \in Venue : history[v][d] \in Price
      off == e.cents * Denominator(e.cost) - Numerator(e.cost, e.price) IN
  e.day > 0 =>
    /\ e.until > e.day
    /\ \A d \in Day : Known(d) => Gap(d, e.day) >= (IF e.price > 0 THEN e.gap ELSE MaxGap)
    /\ e.price > 0 =>
         /\ \E d \in Day : Known(d) /\ Gap(d, e.day) = e.gap /\ e.price = TwiceMedian(history, d)
         /\ 2 * off <= Denominator(e.cost) /\ -2 * off < Denominator(e.cost)
====
