---------------------------- MODULE ChartsProofs ----------------------------
(***************************************************************************)
(* What ReplayCharts promises, for any bars, zones, timeframes and size of *)
(* the window and any number of changes of the view: the candles on the    *)
(* screen are those of the bars up to the clock, however they got there;   *)
(* the indicators know nothing later; the drawings stay on their candles;  *)
(* the clock stops where the buttons say.                                  *)
(***************************************************************************)
EXTENDS ReplayCharts, FiniteSetTheorems, FunctionTheorems, SequenceTheorems, WellFoundedInduction, TLAPS

-----------------------------------------------------------------------------
(* The invariant.                                                          *)

Bar == [t : Int, o : Int, h : Int, l : Int, c : Int]
Candle == [time : Int, open : Int, high : Int, low : Int, close : Int]
Pane == [tf : Timeframes, ds : Symbols]
View == [zone : Zones, layout : Panes, active : Panes, panes : [Panes -> Pane]]

\* Candle k is that of its bucket among the bars f to c: of the bars a to b.
IsCandle(k, B, f, c, tf, zone) ==
    \E a, b \in f..c :
        /\ a <= b
        /\ \A i \in f..c : Bucket(B, i, tf, zone) = k.time <=> a <= i /\ i <= b
        /\ k.open = B[a].o /\ k.close = B[b].c
        /\ (\E i \in a..b : k.high = B[i].h) /\ \A i \in a..b : B[i].h <= k.high
        /\ (\E i \in a..b : k.low = B[i].l) /\ \A i \in a..b : k.low <= B[i].l

\* The candles are those of the bars f to c, one for each bucket, in order.
AreCandles(cs, B, f, c, tf, zone) ==
    /\ cs \in Seq(Candle)
    /\ \A j \in DOMAIN cs : IsCandle(cs[j], B, f, c, tf, zone)
    /\ \A i, j \in DOMAIN cs : i < j => cs[i].time < cs[j].time
    /\ \A i \in f..c : \E j \in DOMAIN cs : cs[j].time = Bucket(B, i, tf, zone)

\* A chart that shows these candles, in their colours.
Draws(cs, ser, p, n, zone, lk) ==
    /\ \E f \in 1..WindowStart(n, p.tf) : AreCandles(cs, Bars[p.ds], f, n, p.tf, zone)
    /\ ser = Styled(cs, lk)

TypeOK ==
    /\ cur \in [Symbols -> Nat] /\ \A s \in Symbols : cur[s] <= Len(Bars[s])
    /\ view \in View /\ look \in Looks
    /\ snap \in [look : Looks, zone : Zones] \cup {None}
    /\ typed \in Timeframes \cup {None}
    /\ DOMAIN candles = Panes /\ DOMAIN series = Panes

ChartsInv ==
    /\ TypeOK
    /\ \A k \in Shown : Draws(candles[k], series[k], view.panes[k], cur[view.panes[k].ds], view.zone, look)

-----------------------------------------------------------------------------
(* Times.                                                                  *)

\* Rounding down to a multiple keeps the order.
LEMMA FloorKeepsOrder ==
    ASSUME NEW a \in Int, NEW b \in Int, a <= b, NEW n \in Nat \ {0}
    PROVE  (a \div n) * n \in Int /\ (a \div n) * n <= (b \div n) * n
<1> DEFINE p == a \div n
           q == b \div n
<1>1. /\ p \in Int /\ q \in Int
      /\ a = n * p + (a % n) /\ a % n \in 0..(n - 1)
      /\ b = n * q + (b % n) /\ b % n \in 0..(n - 1)
  OBVIOUS
<1>2. p <= q
  <2> SUFFICES ASSUME p >= q + 1 PROVE FALSE
    BY <1>1
  <2> HIDE DEF p, q
  <2>1. n * p >= n * (q + 1)
    BY <1>1
  <2>2. n * (q + 1) = n * q + n
    BY <1>1
  <2> QED BY <1>1, <2>1, <2>2
<1>3. p * n <= q * n /\ p * n \in Int
  <2> HIDE DEF p, q
  <2> QED BY <1>1, <1>2
<1> QED BY <1>3

\* A symbol has a sequence of bars.
LEMMA BarsOf ==
    ASSUME NEW s \in Symbols
    PROVE  /\ Bars[s] \in Seq(Bar) /\ Bars[s] # <<>>
           /\ DOMAIN Bars[s] = 1..Len(Bars[s]) /\ Len(Bars[s]) \in Nat \ {0}
           /\ \A i \in DOMAIN Bars[s] : Bars[s][i] \in Bar
<1>1. Bars[s] \in Seq(Bar) /\ Bars[s] # <<>>
  BY BarsAssumption, ChoicesAssumption DEF Bar
<1>2. DOMAIN Bars[s] = 1..Len(Bars[s]) /\ Len(Bars[s]) \in Nat \ {0}
  BY <1>1, LenProperties, EmptySeq
<1>3. \A i \in 1..Len(Bars[s]) : Bars[s][i] \in Bar
  BY <1>1, ElementOfSeq
<1> QED BY <1>1, <1>2, <1>3

\* A later time is in no earlier bucket.
LEMMA BucketKeepsOrder ==
    ASSUME NEW tf \in Timeframes, NEW zone, NEW x \in Int, NEW y \in Int, x <= y
    PROVE  BucketOf(x, tf, zone) \in Int /\ BucketOf(x, tf, zone) <= BucketOf(y, tf, zone)
<1>1. CASE tf >= Day
  <2>1. DayShift(tf, zone) \in Int
    BY DEF DayShift
  <2>2. /\ ((x + DayShift(tf, zone)) \div Day) * Day \in Int
        /\ ((x + DayShift(tf, zone)) \div Day) * Day <= ((y + DayShift(tf, zone)) \div Day) * Day
    BY <2>1 DEF Day
  <2>3. ~(tf = 4 /\ zone = "NY")
    BY <1>1 DEF Day
  <2> QED BY <1>1, <2>2, <2>3 DEF BucketOf
<1>2. CASE ~(tf >= Day) /\ tf = 4 /\ zone = "NY"
  <2>1. /\ ((x + 2) \div 4) * 4 - 2 \in Int
        /\ ((x + 2) \div 4) * 4 - 2 <= ((y + 2) \div 4) * 4 - 2
    OBVIOUS
  <2> QED BY <1>2, <2>1 DEF BucketOf
<1>3. CASE ~(tf >= Day) /\ ~(tf = 4 /\ zone = "NY")
  <2>1. (x \div tf) * tf \in Int /\ (x \div tf) * tf <= (y \div tf) * tf
    BY FloorKeepsOrder, ChoicesAssumption
  <2> QED BY <1>3, <2>1 DEF BucketOf
<1> QED BY <1>1, <1>2, <1>3

\* The buckets of a symbol's bars are times, and come one after the other.
LEMMA BucketsAscend ==
    ASSUME NEW s \in Symbols, NEW tf \in Timeframes, NEW zone \in Zones
    PROVE  \A i, j \in DOMAIN Bars[s] :
              /\ Bucket(Bars[s], i, tf, zone) \in Int
              /\ i <= j => Bucket(Bars[s], i, tf, zone) <= Bucket(Bars[s], j, tf, zone)
<1>1. \A t \in Int : ToLocal(t, zone) \in Int
  BY DEF ToLocal, ZoneOffset
<1>2. /\ DOMAIN Bars[s] = 1..Len(Bars[s]) /\ Len(Bars[s]) \in Nat
      /\ \A i \in DOMAIN Bars[s] : Bars[s][i] \in Bar
  BY BarsOf
<1>3. \A i \in DOMAIN Bars[s] : Bars[s][i].t \in Int
  BY <1>2 DEF Bar
<1>4. ASSUME NEW x \in Int, NEW y \in Int, x <= y
      PROVE  /\ BucketOf(x, tf, zone) \in Int
             /\ BucketOf(x, tf, zone) <= BucketOf(y, tf, zone)
  BY <1>4, BucketKeepsOrder
<1>5. ASSUME NEW i \in DOMAIN Bars[s], NEW j \in DOMAIN Bars[s], i <= j
      PROVE  ToLocal(Bars[s][i].t, zone) <= ToLocal(Bars[s][j].t, zone)
  <2>1. CASE i = j
    BY <2>1, <1>1, <1>3
  <2>2. CASE i # j
    <3>1. i \in Int /\ j \in Int
      BY <1>2
    <3>2. i < j
      BY <1>5, <2>2, <3>1
    <3> QED BY <1>1, <1>3, <3>2, BarsAscend
  <2> QED BY <2>1, <2>2
<1> QED BY <1>1, <1>3, <1>4, <1>5 DEF Bucket

-----------------------------------------------------------------------------
(* One bar more.                                                           *)

\* Of two numbers.
LEMMA OfTwo ==
    ASSUME NEW a \in Int, NEW b \in Int
    PROVE  /\ Max({a, b}) \in {a, b} /\ a <= Max({a, b}) /\ b <= Max({a, b})
           /\ Min({a, b}) \in {a, b} /\ Min({a, b}) <= a /\ Min({a, b}) <= b
<1>1. \E x \in {a, b} : \A y \in {a, b} : x >= y
  OBVIOUS
<1>2. \E x \in {a, b} : \A y \in {a, b} : x <= y
  OBVIOUS
<1> QED BY <1>1, <1>2 DEF Max, Min

\* What the next bar finds: its bucket is that of the last candle or a later one.
LEMMA NextBucket ==
    ASSUME NEW s \in Symbols, NEW tf \in Timeframes, NEW zone \in Zones, NEW cs,
           NEW f \in Nat \ {0}, NEW c \in Nat, f <= c + 1, c + 1 <= Len(Bars[s]),
           AreCandles(cs, Bars[s], f, c, tf, zone), Len(cs) > 0
    PROVE  /\ Len(cs) \in Nat /\ DOMAIN cs = 1..Len(cs)
           /\ \A j \in DOMAIN cs : cs[j].time \in Int /\ cs[j].time <= cs[Len(cs)].time
           /\ cs[Len(cs)].time <= Bucket(Bars[s], c + 1, tf, zone)
<1>1. cs \in Seq(Candle) /\ Len(cs) \in Nat /\ DOMAIN cs = 1..Len(cs)
  BY LenProperties DEF AreCandles
<1>2. \A j \in DOMAIN cs : cs[j].time \in Int
  <2>1. \A j \in 1..Len(cs) : cs[j] \in Candle
    BY <1>1, ElementOfSeq
  <2> QED BY <1>1, <2>1 DEF Candle
<1>3. \A j \in DOMAIN cs : cs[j].time <= cs[Len(cs)].time
  <2> TAKE j \in DOMAIN cs
  <2>1. CASE j = Len(cs)
    BY <2>1, <1>2
  <2>2. CASE j # Len(cs)
    <3>1. j < Len(cs) /\ Len(cs) \in DOMAIN cs
      BY <1>1, <2>2
    <3>2. cs[j].time < cs[Len(cs)].time
      BY <3>1 DEF AreCandles
    <3> QED BY <1>2, <3>1, <3>2
  <2> QED BY <2>1, <2>2
<1>4. cs[Len(cs)].time <= Bucket(Bars[s], c + 1, tf, zone)
  <2>1. IsCandle(cs[Len(cs)], Bars[s], f, c, tf, zone)
    BY <1>1 DEF AreCandles
  <2>2. PICK a \in f..c : Bucket(Bars[s], a, tf, zone) = cs[Len(cs)].time
    <3>1. PICK a \in f..c, b \in f..c :
             a <= b /\ \A i \in f..c : Bucket(Bars[s], i, tf, zone) = cs[Len(cs)].time <=> a <= i /\ i <= b
      BY <2>1 DEF IsCandle
    <3> QED BY <3>1
  <2>3. a \in DOMAIN Bars[s] /\ c + 1 \in DOMAIN Bars[s] /\ a <= c + 1
    BY BarsOf
  <2> QED BY <2>2, <2>3, BucketsAscend
<1> QED BY <1>1, <1>2, <1>3, <1>4

\* A candle of an earlier bucket is not touched.
LEMMA OtherCandle ==
    ASSUME NEW B, NEW f \in Nat, NEW c \in Nat, NEW tf, NEW zone, NEW k, f <= c + 1,
           IsCandle(k, B, f, c, tf, zone), Bucket(B, c + 1, tf, zone) # k.time
    PROVE  IsCandle(k, B, f, c + 1, tf, zone)
<1>1. PICK a \in f..c, b \in f..c :
        /\ a <= b
        /\ \A i \in f..c : Bucket(B, i, tf, zone) = k.time <=> a <= i /\ i <= b
        /\ k.open = B[a].o /\ k.close = B[b].c
        /\ (\E i \in a..b : k.high = B[i].h) /\ \A i \in a..b : B[i].h <= k.high
        /\ (\E i \in a..b : k.low = B[i].l) /\ \A i \in a..b : k.low <= B[i].l
  BY DEF IsCandle
<1>2. a \in f..(c + 1) /\ b \in f..(c + 1)
  OBVIOUS
<1>3. \A i \in f..(c + 1) : Bucket(B, i, tf, zone) = k.time <=> a <= i /\ i <= b
  <2> TAKE i \in f..(c + 1)
  <2>1. CASE i = c + 1
    BY <2>1
  <2>2. CASE i # c + 1
    <3>1. i \in f..c
      BY <2>2
    <3> QED BY <3>1, <1>1
  <2> QED BY <2>1, <2>2
<1> QED BY <1>1, <1>2, <1>3 DEF IsCandle

\* The last candle with one bar more.
LEMMA SameCandle ==
    ASSUME NEW s \in Symbols, NEW tf \in Timeframes, NEW zone \in Zones, NEW k \in Candle,
           NEW f \in Nat \ {0}, NEW c \in Nat, f <= c + 1, c + 1 <= Len(Bars[s]),
           IsCandle(k, Bars[s], f, c, tf, zone), Bucket(Bars[s], c + 1, tf, zone) = k.time,
           NEW m \in Candle, m.time = k.time, m.open = k.open,
           m.high = Max({k.high, Bars[s][c + 1].h}), m.low = Min({k.low, Bars[s][c + 1].l}), m.close = Bars[s][c + 1].c
    PROVE  IsCandle(m, Bars[s], f, c + 1, tf, zone)
<1> DEFINE B == Bars[s]
<1>1. PICK a \in f..c, b \in f..c :
        /\ a <= b
        /\ \A i \in f..c : Bucket(B, i, tf, zone) = k.time <=> a <= i /\ i <= b
        /\ k.open = B[a].o /\ k.close = B[b].c
        /\ (\E i \in a..b : k.high = B[i].h) /\ \A i \in a..b : B[i].h <= k.high
        /\ (\E i \in a..b : k.low = B[i].l) /\ \A i \in a..b : k.low <= B[i].l
  BY DEF IsCandle
<1>2. \A i \in f..(c + 1) : B[i].h \in Int /\ B[i].l \in Int /\ i \in DOMAIN B
  <2>1. \A i \in f..(c + 1) : i \in DOMAIN B
    BY BarsOf
  <2> QED BY <2>1, BarsOf DEF Bar
<1>3. b = c
  <2> SUFFICES ASSUME b # c PROVE FALSE
    OBVIOUS
  <2>1. b + 1 \in f..c /\ b \in DOMAIN B /\ b + 1 \in DOMAIN B /\ c + 1 \in DOMAIN B
    BY <1>2
  <2>2. Bucket(B, b, tf, zone) = k.time
    BY <1>1
  <2>3. /\ Bucket(B, b, tf, zone) <= Bucket(B, b + 1, tf, zone)
        /\ Bucket(B, b + 1, tf, zone) <= Bucket(B, c + 1, tf, zone)
        /\ Bucket(B, b, tf, zone) \in Int /\ Bucket(B, b + 1, tf, zone) \in Int
    BY <2>1, BucketsAscend
  <2>4. Bucket(B, b + 1, tf, zone) = k.time
    BY <2>2, <2>3
  <2> QED BY <1>1, <2>1, <2>4
<1>4. \A i \in f..(c + 1) : Bucket(B, i, tf, zone) = m.time <=> a <= i /\ i <= c + 1
  <2> TAKE i \in f..(c + 1)
  <2>1. CASE i = c + 1
    BY <2>1
  <2>2. CASE i # c + 1
    <3>1. i \in f..c
      BY <2>2
    <3> QED BY <3>1, <1>1, <1>3
  <2> QED BY <2>1, <2>2
<1>5. k.high \in Int /\ k.low \in Int
  BY DEF Candle
<1>6. (\E i \in a..(c + 1) : m.high = B[i].h) /\ \A i \in a..(c + 1) : B[i].h <= m.high
  <2>0. k.high \in Int /\ B[c + 1].h \in Int
    BY <1>2, <1>5
  <2>1. /\ m.high \in {k.high, B[c + 1].h}
        /\ k.high <= m.high /\ B[c + 1].h <= m.high
    <3>1. /\ Max({k.high, B[c + 1].h}) \in {k.high, B[c + 1].h}
          /\ k.high <= Max({k.high, B[c + 1].h}) /\ B[c + 1].h <= Max({k.high, B[c + 1].h})
      BY OfTwo, <2>0
    <3> QED BY <3>1
  <2>2. \A i \in a..(c + 1) : i = c + 1 \/ i \in a..b
    BY <1>3
  <2>3. \A i \in a..b : B[i].h <= m.high
    <3> SUFFICES ASSUME NEW i \in a..b PROVE B[i].h <= m.high
      OBVIOUS
    <3>1. i \in f..(c + 1) /\ B[i].h \in Int
      BY <1>1, <1>2, <1>3
    <3>2. B[i].h <= k.high
      BY <1>1
    <3>3. k.high <= m.high /\ k.high \in Int /\ m.high \in Int
      BY <2>0, <2>1
    <3> QED BY <3>1, <3>2, <3>3
  <2>4. \E i \in a..(c + 1) : m.high = B[i].h
    BY <1>1, <1>3, <2>1
  <2> QED BY <2>1, <2>2, <2>3, <2>4
<1>7. (\E i \in a..(c + 1) : m.low = B[i].l) /\ \A i \in a..(c + 1) : m.low <= B[i].l
  <2>0. k.low \in Int /\ B[c + 1].l \in Int
    BY <1>2, <1>5
  <2>1. /\ m.low \in {k.low, B[c + 1].l}
        /\ m.low <= k.low /\ m.low <= B[c + 1].l
    <3>1. /\ Min({k.low, B[c + 1].l}) \in {k.low, B[c + 1].l}
          /\ Min({k.low, B[c + 1].l}) <= k.low /\ Min({k.low, B[c + 1].l}) <= B[c + 1].l
      BY OfTwo, <2>0
    <3> QED BY <3>1
  <2>2. \A i \in a..(c + 1) : i = c + 1 \/ i \in a..b
    BY <1>3
  <2>3. \A i \in a..b : m.low <= B[i].l
    <3> SUFFICES ASSUME NEW i \in a..b PROVE m.low <= B[i].l
      OBVIOUS
    <3>1. i \in f..(c + 1) /\ B[i].l \in Int
      BY <1>1, <1>2, <1>3
    <3>2. k.low <= B[i].l
      BY <1>1
    <3>3. m.low <= k.low /\ k.low \in Int /\ m.low \in Int
      BY <2>0, <2>1
    <3> QED BY <3>1, <3>2, <3>3
  <2>4. \E i \in a..(c + 1) : m.low = B[i].l
    BY <1>1, <1>3, <2>1
  <2> QED BY <2>1, <2>2, <2>3, <2>4
<1>8. a \in f..(c + 1) /\ c + 1 \in f..(c + 1) /\ a <= c + 1
  OBVIOUS
<1> QED BY <1>1, <1>4, <1>6, <1>7, <1>8 DEF IsCandle

\* The candles with one bar more.
LEMMA PushBarIs ==
    ASSUME NEW s \in Symbols, NEW tf \in Timeframes, NEW zone \in Zones, NEW cs,
           NEW f \in Nat \ {0}, NEW c \in Nat, f <= c + 1, c + 1 <= Len(Bars[s]),
           AreCandles(cs, Bars[s], f, c, tf, zone)
    PROVE  AreCandles(PushBar(cs, Bars[s], c + 1, tf, zone), Bars[s], f, c + 1, tf, zone)
<1> DEFINE B == Bars[s]
           b == Bucket(B, c + 1, tf, zone)
           n == Len(cs)
           new == PushBar(cs, B, c + 1, tf, zone)
<1>1. cs \in Seq(Candle) /\ n \in Nat /\ DOMAIN cs = 1..n /\ \A j \in 1..n : cs[j] \in Candle
  BY LenProperties, ElementOfSeq DEF AreCandles
<1>0. n \in Nat
  BY <1>1
<1>2. c + 1 \in DOMAIN B /\ B[c + 1] \in Bar /\ b \in Int
  <2>1. c + 1 \in DOMAIN B
    BY BarsOf
  <2> QED BY <2>1, BarsOf, BucketsAscend
<1>3. B[c + 1].o \in Int /\ B[c + 1].h \in Int /\ B[c + 1].l \in Int /\ B[c + 1].c \in Int
  BY <1>2 DEF Bar
<1>4. \A i \in f..(c + 1) : i = c + 1 \/ i \in f..c
  OBVIOUS
<1>5. CASE n > 0 /\ cs[n].time = b
  <2> DEFINE k == cs[n]
             m == [k EXCEPT !.high = Max({@, B[c + 1].h}), !.low = Min({@, B[c + 1].l}), !.close = B[c + 1].c]
  <2>1. k \in Candle /\ k.high \in Int /\ k.low \in Int
    <3>1. k \in Candle
      BY <1>1, <1>5
    <3> QED BY <3>1 DEF Candle
  <2>2. Max({k.high, B[c + 1].h}) \in Int /\ Min({k.low, B[c + 1].l}) \in Int
    <3>1. Max({k.high, B[c + 1].h}) \in {k.high, B[c + 1].h} /\ Min({k.low, B[c + 1].l}) \in {k.low, B[c + 1].l}
      BY <1>3, <2>1, OfTwo
    <3> QED BY <3>1, <1>3, <2>1
  <2>3. /\ m \in Candle /\ m.time = k.time /\ m.open = k.open
        /\ m.high = Max({k.high, B[c + 1].h}) /\ m.low = Min({k.low, B[c + 1].l}) /\ m.close = B[c + 1].c
    <3> HIDE DEF k, B
    <3> QED BY <1>3, <2>1, <2>2 DEF Candle
  <2>4. new = [cs EXCEPT ![n] = m]
    BY <1>5 DEF PushBar
  <2> HIDE DEF m
  <2>5. new \in Seq(Candle) /\ DOMAIN new = 1..n /\ new[n] = m /\ \A j \in 1..(n - 1) : new[j] = cs[j]
    <3>1. n \in 1..n
      BY <1>1, <1>5
    <3> HIDE DEF new
    <3>2. DOMAIN new = 1..n /\ new[n] = m /\ \A j \in 1..(n - 1) : new[j] = cs[j]
      <4>1. DOMAIN new = DOMAIN cs /\ \A j \in DOMAIN cs : new[j] = IF j = n THEN m ELSE cs[j]
        BY <2>4
      <4>2. \A j \in 1..(n - 1) : j \in 1..n /\ j # n
        BY <1>0
      <4> QED BY <1>1, <3>1, <4>1, <4>2
    <3>3. \A j \in 1..n : new[j] \in Candle
      <4>1. \A j \in 1..n : j = n \/ j \in 1..(n - 1)
        BY <1>0
      <4>2. \A j \in 1..(n - 1) : j \in 1..n
        BY <1>0
      <4> QED BY <4>1, <4>2, <1>1, <2>3, <3>2
    <3>4. new = [j \in 1..n |-> new[j]]
      BY <2>4, <1>1
    <3>5. new \in [1..n -> Candle]
      BY <3>3, <3>4
    <3> QED BY <1>0, <3>2, <3>5, SeqDef
  <2> HIDE DEF new
  <2>6. IsCandle(m, B, f, c + 1, tf, zone)
    <3>1. IsCandle(k, B, f, c, tf, zone)
      BY <1>1, <1>5 DEF AreCandles
    <3> HIDE DEF k
    <3> QED BY <1>5, <2>1, <2>3, <3>1, SameCandle DEF k
  <2>7. \A j \in 1..n : new[j].time = cs[j].time
    <3>1. \A j \in 1..n : j = n \/ j \in 1..(n - 1)
      BY <1>0
    <3> QED BY <3>1, <2>3, <2>5
  <2>8. \A j \in DOMAIN new : IsCandle(new[j], B, f, c + 1, tf, zone)
    <3> TAKE j \in DOMAIN new
    <3>1. CASE j = n
      BY <3>1, <2>5, <2>6
    <3>2. CASE j # n
      <4>1. j \in 1..(n - 1) /\ j \in DOMAIN cs /\ n \in DOMAIN cs /\ j < n
        BY <3>2, <1>1, <1>5, <2>5
      <4>2. new[j] = cs[j] /\ IsCandle(cs[j], B, f, c, tf, zone) /\ cs[j].time < cs[n].time
        BY <4>1, <2>5 DEF AreCandles
      <4>3. cs[j].time \in Int
        BY <4>1, <1>1 DEF Candle
      <4>4. b # cs[j].time
        BY <4>2, <4>3, <1>2, <1>5
      <4> QED BY <4>2, <4>4, OtherCandle
    <3> QED BY <3>1, <3>2
  <2>9. \A i, j \in DOMAIN new : i < j => new[i].time < new[j].time
    BY <2>5, <2>7, <1>1 DEF AreCandles
  <2>10. \A i \in f..(c + 1) : \E j \in DOMAIN new : new[j].time = Bucket(B, i, tf, zone)
    <3> TAKE i \in f..(c + 1)
    <3>1. CASE i = c + 1
      BY <3>1, <1>1, <1>5, <2>5, <2>7
    <3>2. CASE i # c + 1
      <4>1. i \in f..c
        BY <3>2, <1>4
      <4>2. \E j \in DOMAIN cs : cs[j].time = Bucket(B, i, tf, zone)
        BY <4>1 DEF AreCandles
      <4> QED BY <4>2, <1>1, <2>5, <2>7
    <3> QED BY <3>1, <3>2
  <2> QED BY <2>5, <2>8, <2>9, <2>10 DEF AreCandles, new
<1>6. CASE ~(n > 0 /\ cs[n].time = b)
  <2> DEFINE m == [time |-> b, open |-> B[c + 1].o, high |-> B[c + 1].h, low |-> B[c + 1].l, close |-> B[c + 1].c]
  <2>1. m \in Candle
    <3> HIDE DEF B, b
    <3> QED BY <1>2, <1>3 DEF Candle
  <2>2. new = Append(cs, m)
    BY <1>6 DEF PushBar
  <2>3. /\ m.time = b /\ m.open = B[c + 1].o /\ m.close = B[c + 1].c
        /\ m.high = B[c + 1].h /\ m.low = B[c + 1].l
    OBVIOUS
  <2> HIDE DEF m
  <2>4. /\ new \in Seq(Candle) /\ DOMAIN new = 1..(n + 1) /\ new[n + 1] = m
        /\ \A j \in 1..n : new[j] = cs[j]
    <3>1. /\ Append(cs, m) \in Seq(Candle) /\ Len(Append(cs, m)) = Len(cs) + 1
          /\ Append(cs, m)[Len(cs) + 1] = m /\ \A j \in 1..Len(cs) : Append(cs, m)[j] = cs[j]
      BY <1>1, <2>1, AppendProperties
    <3> HIDE DEF new
    <3>2. /\ new \in Seq(Candle) /\ Len(new) = n + 1
          /\ new[n + 1] = m /\ \A j \in 1..n : new[j] = cs[j]
      BY <2>2, <3>1
    <3> QED BY <3>1, <3>2, LenProperties
  <2> HIDE DEF new
  <2>5. \A j \in 1..n : cs[j].time \in Int /\ cs[j].time < b
    <3> TAKE j \in 1..n
    <3>1. n > 0
      BY <1>1
    <3>2. cs[j].time \in Int /\ cs[j].time <= cs[n].time /\ cs[n].time <= b /\ cs[n].time \in Int
      <4>1. n \in DOMAIN cs /\ j \in DOMAIN cs
        BY <1>1, <3>1
      <4> QED BY <3>1, <4>1, NextBucket
    <3> QED BY <1>2, <1>6, <3>1, <3>2
  <2>6. \A i \in f..c : Bucket(B, i, tf, zone) # b
    <3> TAKE i \in f..c
    <3>1. \E j \in DOMAIN cs : cs[j].time = Bucket(B, i, tf, zone)
      BY DEF AreCandles
    <3> QED BY <3>1, <2>5, <1>1, <1>2
  <2>7. IsCandle(m, B, f, c + 1, tf, zone)
    <3>1. \A i \in f..(c + 1) : Bucket(B, i, tf, zone) = m.time <=> c + 1 <= i /\ i <= c + 1
      BY <1>4, <2>3, <2>6
    <3>2. c + 1 \in f..(c + 1) /\ c + 1 <= c + 1
      OBVIOUS
    <3>3. /\ \E i \in (c + 1)..(c + 1) : m.high = B[i].h
          /\ \A i \in (c + 1)..(c + 1) : B[i].h <= m.high
          /\ \E i \in (c + 1)..(c + 1) : m.low = B[i].l
          /\ \A i \in (c + 1)..(c + 1) : m.low <= B[i].l
      BY <1>3, <2>3
    <3> QED BY <2>3, <3>1, <3>2, <3>3 DEF IsCandle
  <2>8. \A j \in DOMAIN new : IsCandle(new[j], B, f, c + 1, tf, zone)
    <3> TAKE j \in DOMAIN new
    <3>1. CASE j = n + 1
      BY <3>1, <2>4, <2>7
    <3>2. CASE j # n + 1
      <4>1. j \in 1..n
        BY <3>2, <1>1, <2>4
      <4>2. new[j] = cs[j] /\ IsCandle(cs[j], B, f, c, tf, zone)
        BY <4>1, <1>1, <2>4 DEF AreCandles
      <4>3. b # cs[j].time
        BY <4>1, <2>5, <1>2
      <4> QED BY <4>2, <4>3, OtherCandle
    <3> QED BY <3>1, <3>2
  <2>9. \A i, j \in DOMAIN new : i < j => new[i].time < new[j].time
    <3> SUFFICES ASSUME NEW i \in DOMAIN new, NEW j \in DOMAIN new, i < j PROVE new[i].time < new[j].time
      OBVIOUS
    <3>1. i \in 1..n /\ new[i] = cs[i]
      BY <1>1, <2>4
    <3>2. CASE j = n + 1
      BY <3>1, <3>2, <2>3, <2>4, <2>5
    <3>3. CASE j # n + 1
      <4>1. j \in 1..n /\ new[j] = cs[j]
        BY <3>3, <1>1, <2>4
      <4> QED BY <3>1, <4>1, <1>1 DEF AreCandles
    <3> QED BY <3>2, <3>3
  <2>10. \A i \in f..(c + 1) : \E j \in DOMAIN new : new[j].time = Bucket(B, i, tf, zone)
    <3> TAKE i \in f..(c + 1)
    <3>1. CASE i = c + 1
      BY <3>1, <1>1, <2>3, <2>4
    <3>2. CASE i # c + 1
      <4>1. i \in f..c
        BY <3>2, <1>4
      <4>2. PICK j \in DOMAIN cs : cs[j].time = Bucket(B, i, tf, zone)
        BY <4>1 DEF AreCandles
      <4>3. j \in DOMAIN new /\ new[j] = cs[j]
        BY <1>1, <2>4
      <4> QED BY <4>2, <4>3
    <3> QED BY <3>1, <3>2
  <2> QED BY <2>4, <2>8, <2>9, <2>10 DEF AreCandles, new
<1> QED BY <1>5, <1>6

-----------------------------------------------------------------------------
(* Many bars: by induction over the bars that came.                        *)

\* A set of numbers that is not empty has a least one.
LEMMA MinIs ==
    ASSUME NEW S, S \subseteq Nat, S # {}
    PROVE  Min(S) \in S /\ \A x \in S : Min(S) <= x
<1>1. PICK x \in S : \A y \in S : ~(<<y, x>> \in OpToRel(<, Nat))
  BY NatLessThanWellFounded, WFMin
<1>2. \A y \in S : x <= y
  <2> TAKE y \in S
  <2>1. ~(y < x)
    BY <1>1 DEF OpToRel
  <2> QED BY <2>1
<1> QED BY <1>2 DEF Min

\* A set of numbers that has its first and with each its next has them all.
LEMMA Induction ==
    ASSUME NEW m \in Int, NEW n \in Int, NEW S, m <= n, m \in S,
           \A i \in (m + 1)..n : i - 1 \in S => i \in S
    PROVE  m..n \subseteq S
<1> SUFFICES ASSUME NEW x \in m..n, x \notin S PROVE FALSE
  OBVIOUS
<1> DEFINE Bad == {d \in Nat : m + d <= n /\ m + d \notin S}
<1>1. x - m \in Bad
  BY Z3
<1>2. Bad \subseteq Nat /\ Bad # {}
  BY <1>1
<1>3. PICK d \in Bad : \A e \in Bad : d <= e
  <2> HIDE DEF Bad
  <2> QED BY <1>2, MinIs
<1>4. d \in Nat /\ m + d <= n /\ m + d \notin S
  BY <1>3
<1>5. d # 0
  BY <1>4
<1>6. d - 1 \notin Bad /\ d - 1 \in Nat
  BY <1>3, <1>4, <1>5
<1>7. m + (d - 1) \in S
  BY <1>4, <1>6
<1>8. m + d \in (m + 1)..n /\ m + d - 1 = m + (d - 1)
  BY <1>4, <1>5
<1> QED BY <1>4, <1>7, <1>8

\* The candles while bars are pushed one after the other.
PushedFrom(cs, B, from, to, tf, zone, g) ==
    g = [i \in (from - 1)..to |-> IF i < from THEN cs ELSE PushBar(g[i - 1], B, i, tf, zone)]

\* They exist.
LEMMA PushedExists ==
    ASSUME NEW cs, NEW B, NEW from \in Int, NEW to \in Int, from - 1 <= to, NEW tf, NEW zone
    PROVE  \E g : PushedFrom(cs, B, from, to, tf, zone, g)
<1> DEFINE S == {n \in (from - 1)..to : \E g : PushedFrom(cs, B, from, n, tf, zone, g)}
<1>1. from - 1 \in S
  <2> DEFINE g == [i \in (from - 1)..(from - 1) |-> cs]
  <2>1. g = [i \in (from - 1)..(from - 1) |-> IF i < from THEN cs ELSE PushBar(g[i - 1], B, i, tf, zone)]
    OBVIOUS
  <2>2. PushedFrom(cs, B, from, from - 1, tf, zone, g)
    BY <2>1 DEF PushedFrom
  <2> QED BY <2>2
<1>2. ASSUME NEW n \in ((from - 1) + 1)..to, n - 1 \in S
      PROVE  n \in S
  <2>1. PICK g : PushedFrom(cs, B, from, n - 1, tf, zone, g)
    BY <1>2
  <2> DEFINE h == [i \in (from - 1)..n |-> IF i = n THEN PushBar(g[n - 1], B, n, tf, zone) ELSE g[i]]
  <2>2. n \in Int /\ from <= n
    OBVIOUS
  <2>3. \A i \in (from - 1)..(n - 1) : h[i] = g[i]
    BY <2>2
  <2>4. h[n] = PushBar(g[n - 1], B, n, tf, zone)
    BY <2>2
  <2>5. \A i \in (from - 1)..n : h[i] = IF i < from THEN cs ELSE PushBar(h[i - 1], B, i, tf, zone)
    <3> TAKE i \in (from - 1)..n
    <3> HIDE DEF h
    <3>1. CASE i = n
      <4>1. n - 1 \in (from - 1)..(n - 1)
        BY <2>2
      <4> QED BY <3>1, <4>1, <2>2, <2>3, <2>4
    <3>2. CASE i # n
      <4>1. i \in (from - 1)..(n - 1)
        BY <3>2, <2>2
      <4>2. g[i] = IF i < from THEN cs ELSE PushBar(g[i - 1], B, i, tf, zone)
        BY <2>1, <4>1 DEF PushedFrom
      <4>3. ~(i < from) => i - 1 \in (from - 1)..(n - 1)
        BY <4>1
      <4> QED BY <4>1, <4>2, <4>3, <2>3
    <3> QED BY <3>1, <3>2
  <2>6. PushedFrom(cs, B, from, n, tf, zone, h)
    <3>1. h = [i \in (from - 1)..n |-> h[i]]
      OBVIOUS
    <3> HIDE DEF h
    <3>2. h = [i \in (from - 1)..n |-> IF i < from THEN cs ELSE PushBar(h[i - 1], B, i, tf, zone)]
      BY <3>1, <2>5
    <3> QED BY <3>2 DEF PushedFrom
  <2> HIDE DEF h
  <2> QED BY <2>6
<1>3. (from - 1)..to \subseteq S
  <2> HIDE DEF S
  <2> QED BY <1>1, <1>2, Induction
<1>4. to \in S
  BY <1>3
<1> QED BY <1>4

\* Bars pushed one after the other on the candles before them.
LEMMA PushBarsIs ==
    ASSUME NEW s \in Symbols, NEW tf \in Timeframes, NEW zone \in Zones, NEW cs,
           NEW f \in Nat \ {0}, NEW from \in Nat \ {0}, NEW to \in Nat, f <= from, from - 1 <= to, to <= Len(Bars[s]),
           AreCandles(cs, Bars[s], f, from - 1, tf, zone)
    PROVE  AreCandles(PushBars(cs, Bars[s], from, to, tf, zone), Bars[s], f, to, tf, zone)
<1>0. \E h : PushedFrom(cs, Bars[s], from, to, tf, zone, h)
  <2>1. from \in Int /\ to \in Int /\ from - 1 <= to
    OBVIOUS
  <2> QED BY <2>1, PushedExists
<1> DEFINE B == Bars[s]
           g == CHOOSE h : PushedFrom(cs, B, from, to, tf, zone, h)
           S == {i \in (from - 1)..to : AreCandles(g[i], B, f, i, tf, zone)}
<1>1. PushedFrom(cs, B, from, to, tf, zone, g)
  BY <1>0
<1>2. PushBars(cs, B, from, to, tf, zone) = g[to]
  BY DEF PushBars, PushedFrom
<1> HIDE DEF g
<1>3. \A i \in (from - 1)..to : g[i] = IF i < from THEN cs ELSE PushBar(g[i - 1], B, i, tf, zone)
  BY <1>1 DEF PushedFrom
<1>4. from - 1 \in S
  <2>1. g[from - 1] = cs /\ from - 1 \in (from - 1)..to
    BY <1>3
  <2> QED BY <2>1
<1>5. ASSUME NEW i \in ((from - 1) + 1)..to, i - 1 \in S
      PROVE  i \in S
  <2> DEFINE c == i - 1
  <2>1. c \in Nat /\ c + 1 = i /\ f <= c + 1 /\ c + 1 <= Len(B) /\ ~(i < from) /\ i \in (from - 1)..to
    BY BarsOf
  <2>2. AreCandles(g[c], B, f, c, tf, zone)
    BY <1>5
  <2>3. AreCandles(PushBar(g[c], B, c + 1, tf, zone), B, f, c + 1, tf, zone)
    <3> HIDE DEF c
    <3> QED BY <2>1, <2>2, PushBarIs
  <2>4. g[i] = PushBar(g[c], B, i, tf, zone)
    BY <1>3, <2>1
  <2> QED BY <2>1, <2>3, <2>4
<1>6. (from - 1)..to \subseteq S
  <2> HIDE DEF S
  <2> QED BY <1>4, <1>5, Induction
<1>7. to \in S
  BY <1>6
<1> QED BY <1>2, <1>7

\* Before the first bar there are no candles.
LEMMA NoCandles ==
    ASSUME NEW B, NEW f \in Nat \ {0}, NEW tf, NEW zone
    PROVE  /\ AreCandles(<<>>, B, f, f - 1, tf, zone)
           /\ \A cs : AreCandles(cs, B, f, f - 1, tf, zone) => cs = <<>>
<1>1. AreCandles(<<>>, B, f, f - 1, tf, zone)
  BY EmptySeq DEF AreCandles
<1>2. ASSUME NEW cs, AreCandles(cs, B, f, f - 1, tf, zone), cs # <<>> PROVE FALSE
  <2>1. cs \in Seq(Candle) /\ Len(cs) \in Nat \ {0} /\ DOMAIN cs = 1..Len(cs)
    BY <1>2, EmptySeq, LenProperties DEF AreCandles
  <2>2. IsCandle(cs[1], B, f, f - 1, tf, zone)
    BY <1>2, <2>1 DEF AreCandles
  <2> QED BY <2>2 DEF IsCandle
<1> QED BY <1>1, <1>2

\* The window begins at a bar, and never moves back.
LEMMA WindowIs ==
    ASSUME NEW tf \in Timeframes, NEW c \in Nat
    PROVE  /\ WindowStart(c, tf) \in Nat \ {0}
           /\ c > 0 => WindowStart(c, tf) <= c
           /\ c = 0 => WindowStart(c, tf) = 1
           /\ \A d \in Nat : c <= d => WindowStart(c, tf) <= WindowStart(d, tf)
<1> DEFINE w == (IF tf < Day THEN tf ELSE Day) * MaxCandles
<1>1. w \in Nat
  BY ChoicesAssumption DEF Day
<1>2. \A d \in Nat : WindowStart(d, tf) = Max({1, d - w})
  BY DEF WindowStart
<1> HIDE DEF w
<1>3. \A d \in Nat : d - w \in Int
  BY <1>1
<1>4. \A d \in Nat : /\ WindowStart(d, tf) \in {1, d - w}
                     /\ 1 <= WindowStart(d, tf) /\ d - w <= WindowStart(d, tf)
  <2> TAKE d \in Nat
  <2>1. /\ Max({1, d - w}) \in {1, d - w} /\ 1 <= Max({1, d - w}) /\ d - w <= Max({1, d - w})
    <3>1. d - w \in Int /\ 1 \in Int
      BY <1>3
    <3> QED BY <3>1, OfTwo
  <2> QED BY <1>2, <2>1
<1>5. \A d \in Nat : d - w <= d
  BY <1>1
<1>6. WindowStart(c, tf) \in Nat \ {0}
  BY <1>1, <1>4
<1>7. c > 0 => WindowStart(c, tf) <= c
  BY <1>1, <1>4
<1>8. c = 0 => WindowStart(c, tf) = 1
  BY <1>1, <1>4
<1>9. \A d \in Nat : c <= d => WindowStart(c, tf) <= WindowStart(d, tf)
  BY <1>1, <1>4
<1> QED BY <1>6, <1>7, <1>8, <1>9

\* A chart that is built anew.
LEMMA BuiltIs ==
    ASSUME NEW p \in Pane, NEW zone \in Zones, NEW n \in Nat, n <= Len(Bars[p.ds]), NEW lk,
           NEW cs, cs = BuildCandles(Bars[p.ds], n, p.tf, zone), NEW ser, ser = Styled(cs, lk)
    PROVE  Draws(cs, ser, p, n, zone, lk)
<1> DEFINE B == Bars[p.ds]
           f == WindowStart(n, p.tf)
<1>1. p.ds \in Symbols /\ p.tf \in Timeframes
  BY DEF Pane
<1>2. f \in Nat \ {0} /\ f \in 1..f
  BY <1>1, WindowIs
<1>3. AreCandles(cs, B, f, n, p.tf, zone)
  <2>1. CASE n = 0
    <3>1. cs = <<>> /\ f = 1 /\ n = f - 1
      BY <1>1, <2>1, WindowIs DEF BuildCandles
    <3> HIDE DEF f
    <3> QED BY <3>1, <1>2, NoCandles
  <2>2. CASE n # 0
    <3>1. cs = PushBars(<<>>, B, f, n, p.tf, zone)
      BY <2>2 DEF BuildCandles
    <3>2. f <= n
      BY <1>1, <2>2, WindowIs
    <3> HIDE DEF f
    <3>3. AreCandles(<<>>, B, f, f - 1, p.tf, zone)
      BY <1>2, NoCandles
    <3>4. f <= f /\ f - 1 <= n
      BY <1>2, <3>2
    <3>5. AreCandles(PushBars(<<>>, B, f, n, p.tf, zone), B, f, n, p.tf, zone)
      BY <1>1, <1>2, <3>2, <3>3, <3>4, PushBarsIs
    <3> QED BY <3>1, <3>5
  <2> QED BY <2>1, <2>2
<1> QED BY <1>2, <1>3 DEF Draws

\* The library draws the candles with one bar more.
LEMMA SeriesIs ==
    ASSUME NEW cs \in Seq(Candle), NEW B, NEW i, NEW tf, NEW zone, NEW new, new = PushBar(cs, B, i, tf, zone),
           new \in Seq(Candle)
    PROVE  SeriesUpdate(Styled(cs, look), new) = Styled(new, look)
<1> DEFINE n == Len(cs)
           ser == Styled(cs, look)
           c == StyleCandle(new, Len(new), look)
<1>1. n \in Nat /\ DOMAIN cs = 1..n
  BY LenProperties
<1>2. ser \in Seq({StyleCandle(cs, j, look) : j \in 1..n}) /\ DOMAIN ser = 1..n /\ Len(ser) = n
  <2>1. ser = [j \in 1..n |-> StyleCandle(cs, j, look)]
    BY <1>1 DEF Styled
  <2>2. ser \in [1..n -> {StyleCandle(cs, j, look) : j \in 1..n}]
    BY <2>1
  <2>3. ser \in Seq({StyleCandle(cs, j, look) : j \in 1..n})
    BY <1>1, <2>2, SeqDef
  <2> QED BY <1>1, <2>1, <2>3, LenProperties
<1>3. \A j \in 1..n : ser[j] = StyleCandle(cs, j, look) /\ ser[j].candle = cs[j]
  BY <1>1 DEF Styled, StyleCandle
<1>4. \A j \in 1..n : j \in DOMAIN new /\ new[j] = cs[j] /\ (j > 1 => new[j - 1] = cs[j - 1])
                     => ser[j] = StyleCandle(new, j, look)
  BY <1>3 DEF StyleCandle
<1>5. c.candle = new[Len(new)]
  BY DEF StyleCandle
<1>6. CASE n > 0 /\ cs[n].time = Bucket(B, i, tf, zone)
  <2>1. /\ DOMAIN new = 1..n /\ \A j \in 1..n : j # n => new[j] = cs[j]
        /\ new[n].time = cs[n].time
    <3> DEFINE m == [cs[n] EXCEPT !.high = Max({@, B[i].h}), !.low = Min({@, B[i].l}), !.close = B[i].c]
    <3>1. new = [cs EXCEPT ![n] = m]
      BY <1>6 DEF PushBar
    <3>2. cs[n] \in Candle
      BY <1>1, <1>6, ElementOfSeq
    <3>3. m.time = cs[n].time
      <4> DEFINE k == cs[n]
      <4>1. k \in Candle
        BY <3>2
      <4> HIDE DEF k
      <4> QED BY <4>1 DEF Candle, k
    <3> HIDE DEF m
    <3>4. DOMAIN new = DOMAIN cs /\ \A j \in DOMAIN cs : new[j] = IF j = n THEN m ELSE cs[j]
      BY <3>1
    <3>5. n \in 1..n
      BY <1>1, <1>6
    <3> QED BY <1>1, <3>3, <3>4, <3>5
  <2>2. Len(new) = n
    <3>1. Len(new) \in Nat /\ 1..n = 1..Len(new)
      BY <2>1, LenProperties
    <3>2. n \in 1..Len(new) /\ (Len(new) > 0 => Len(new) \in 1..n)
      BY <1>1, <1>6, <3>1
    <3> QED BY <1>1, <3>1, <3>2
  <2>3. ser # <<>> /\ Last(ser) = ser[n]
    <3>1. Len(ser) # 0
      BY <1>2, <1>6
    <3> QED BY <3>1, <1>2, EmptySeq DEF Last
  <2>4. SeriesUpdate(ser, new) = [ser EXCEPT ![n] = c]
    <3>1. n \in 1..n
      BY <1>1, <1>6
    <3>2. Last(ser).candle = cs[n] /\ c.candle = new[n]
      BY <1>3, <1>5, <2>2, <2>3, <3>1
    <3>3. ser # <<>> /\ Last(ser).candle.time = c.candle.time /\ Len(ser) = n
      BY <1>2, <2>1, <2>3, <3>2
    <3> HIDE DEF ser
    <3> QED BY <3>3 DEF SeriesUpdate
  <2>5. \A j \in 1..n : j # n => ser[j] = StyleCandle(new, j, look)
    <3> SUFFICES ASSUME NEW j \in 1..n, j # n PROVE ser[j] = StyleCandle(new, j, look)
      OBVIOUS
    <3>1. j \in DOMAIN new /\ new[j] = cs[j]
      BY <2>1
    <3>2. j > 1 => j - 1 \in 1..n /\ j - 1 # n
      <4>1. n \in Nat
        BY <1>1
      <4> HIDE DEF n
      <4> QED BY <4>1
    <3>3. j > 1 => new[j - 1] = cs[j - 1]
      BY <2>1, <3>2
    <3> HIDE DEF ser
    <3> QED BY <1>4, <3>1, <3>3
  <2>6. [ser EXCEPT ![n] = c] = [j \in DOMAIN new |-> StyleCandle(new, j, look)]
    <3> HIDE DEF ser, c
    <3>1. [ser EXCEPT ![n] = c] = [j \in 1..n |-> IF j = n THEN c ELSE ser[j]]
      BY <1>2, <1>1
    <3>2. \A j \in 1..n : (IF j = n THEN c ELSE ser[j]) = StyleCandle(new, j, look)
      BY <2>2, <2>5 DEF c
    <3> QED BY <2>1, <3>1, <3>2
  <2> QED BY <2>4, <2>6 DEF Styled
<1>7. CASE ~(n > 0 /\ cs[n].time = Bucket(B, i, tf, zone))
  <2> DEFINE m == [time |-> Bucket(B, i, tf, zone), open |-> B[i].o, high |-> B[i].h, low |-> B[i].l, close |-> B[i].c]
  <2>1. new = Append(cs, m) /\ m.time = Bucket(B, i, tf, zone)
    BY <1>7 DEF PushBar
  <2> HIDE DEF m
  <2>2. /\ DOMAIN new = 1..(n + 1) /\ Len(new) = n + 1 /\ new[n + 1] = m
        /\ \A j \in 1..n : new[j] = cs[j]
    <3>1. cs \in Seq(Candle \cup {m})
      BY SeqMonotonic
    <3>2. /\ Len(Append(cs, m)) = n + 1 /\ Append(cs, m)[n + 1] = m
          /\ \A j \in 1..n : Append(cs, m)[j] = cs[j]
      BY <3>1, AppendProperties
    <3>3. DOMAIN new = 1..Len(new)
      BY LenProperties
    <3> QED BY <2>1, <3>2, <3>3
  <2>3. ser # <<>> => Last(ser) = ser[n] /\ n > 0
    <3>1. ser # <<>> => Len(ser) # 0
      BY <1>2, EmptySeq
    <3> QED BY <3>1, <1>1, <1>2 DEF Last
  <2>4. SeriesUpdate(ser, new) = Append(ser, c)
    <3>1. c.candle = m
      BY <1>5, <2>2
    <3>2. ~(ser # <<>> /\ Last(ser).candle.time = c.candle.time)
      <4> SUFFICES ASSUME ser # <<>>, Last(ser).candle.time = c.candle.time PROVE FALSE
        OBVIOUS
      <4>1. n \in 1..n /\ Last(ser).candle = cs[n]
        BY <1>1, <1>3, <2>3
      <4> QED BY <1>1, <1>7, <2>1, <3>1, <4>1
    <3> HIDE DEF ser
    <3> QED BY <3>2 DEF SeriesUpdate
  <2>5. \A j \in 1..n : ser[j] = StyleCandle(new, j, look)
    BY <1>1, <1>4, <2>2
  <2>6. Append(ser, c) = [j \in DOMAIN new |-> StyleCandle(new, j, look)]
    <3> DEFINE C == {StyleCandle(cs, j, look) : j \in 1..n} \cup {c}
    <3> HIDE DEF ser, c
    <3>1. ser \in Seq(C) /\ c \in C
      BY <1>2, SeqMonotonic
    <3> HIDE DEF C
    <3>2. /\ Len(Append(ser, c)) = n + 1 /\ Append(ser, c)[n + 1] = c
          /\ \A j \in 1..n : Append(ser, c)[j] = ser[j]
          /\ Append(ser, c) \in [1..(n + 1) -> C]
      <4>1. /\ Len(Append(ser, c)) = Len(ser) + 1 /\ Append(ser, c)[Len(ser) + 1] = c
            /\ \A j \in 1..Len(ser) : Append(ser, c)[j] = ser[j]
            /\ Append(ser, c) \in Seq(C)
        BY <3>1, AppendProperties
      <4>2. Append(ser, c) \in [1..Len(Append(ser, c)) -> C]
        BY <4>1, LenProperties
      <4> QED BY <1>2, <4>1, <4>2
    <3>3. Append(ser, c) = [j \in 1..(n + 1) |-> Append(ser, c)[j]]
      BY <3>2
    <3>4. \A j \in 1..(n + 1) : Append(ser, c)[j] = StyleCandle(new, j, look)
      <4> TAKE j \in 1..(n + 1)
      <4>1. CASE j = n + 1
        BY <4>1, <2>2, <3>2 DEF c
      <4>2. CASE j # n + 1
        <5>1. j \in 1..n
          BY <4>2, <1>1
        <5> QED BY <5>1, <2>5, <3>2
      <4> QED BY <4>1, <4>2
    <3> QED BY <2>2, <3>3, <3>4
  <2> QED BY <2>4, <2>6 DEF Styled
<1> QED BY <1>6, <1>7

-----------------------------------------------------------------------------
(* The bars streamed into a chart.                                         *)

\* The candles and the series while bars are streamed into chart k.
StreamedFrom(k, from, to, g) ==
    g = [i \in from..to |->
           IF i = from THEN [cs |-> candles[k], ser |-> series[k]]
           ELSE [cs |-> PushBar(g[i - 1].cs, Bars[view.panes[k].ds], i, view.panes[k].tf, view.zone),
                 ser |-> SeriesUpdate(g[i - 1].ser,
                            PushBar(g[i - 1].cs, Bars[view.panes[k].ds], i, view.panes[k].tf, view.zone))]]

\* They exist.
LEMMA StreamedExists ==
    ASSUME NEW k, NEW from \in Int, NEW to \in Int, from <= to
    PROVE  \E g : StreamedFrom(k, from, to, g)
<1> DEFINE Next1(x, i) == [cs |-> PushBar(x.cs, Bars[view.panes[k].ds], i, view.panes[k].tf, view.zone),
                          ser |-> SeriesUpdate(x.ser,
                             PushBar(x.cs, Bars[view.panes[k].ds], i, view.panes[k].tf, view.zone))]
           First1 == [cs |-> candles[k], ser |-> series[k]]
           S == {n \in from..to : \E g : StreamedFrom(k, from, n, g)}
<1>0. \A n, g : StreamedFrom(k, from, n, g) <=> g = [i \in from..n |-> IF i = from THEN First1 ELSE Next1(g[i - 1], i)]
  BY DEF StreamedFrom
<1> HIDE DEF First1, Next1
<1>1. from \in S
  <2> DEFINE g == [i \in from..from |-> First1]
  <2>1. g = [i \in from..from |-> IF i = from THEN First1 ELSE Next1(g[i - 1], i)]
    OBVIOUS
  <2>2. StreamedFrom(k, from, from, g)
    BY <2>1, <1>0
  <2> QED BY <2>2
<1>2. ASSUME NEW n \in (from + 1)..to, n - 1 \in S
      PROVE  n \in S
  <2>1. PICK g : StreamedFrom(k, from, n - 1, g)
    BY <1>2
  <2> DEFINE h == [i \in from..n |-> IF i = n THEN Next1(g[n - 1], n) ELSE g[i]]
  <2>2. n \in Int /\ from + 1 <= n
    OBVIOUS
  <2>3. \A i \in from..(n - 1) : h[i] = g[i]
    BY <2>2
  <2>4. h[n] = Next1(g[n - 1], n)
    BY <2>2
  <2>5. \A i \in from..n : h[i] = IF i = from THEN First1 ELSE Next1(h[i - 1], i)
    <3> TAKE i \in from..n
    <3> HIDE DEF h
    <3>1. CASE i = n
      <4>1. n - 1 \in from..(n - 1) /\ i # from
        BY <2>2, <3>1
      <4> QED BY <3>1, <4>1, <2>2, <2>3, <2>4
    <3>2. CASE i # n
      <4>1. i \in from..(n - 1)
        BY <3>2, <2>2
      <4>2. g[i] = IF i = from THEN First1 ELSE Next1(g[i - 1], i)
        <5>1. g = [j \in from..(n - 1) |-> IF j = from THEN First1 ELSE Next1(g[j - 1], j)]
          BY <1>0, <2>1
        <5> QED BY <4>1, <5>1
      <4>3. i # from => i - 1 \in from..(n - 1)
        BY <4>1
      <4> QED BY <4>1, <4>2, <4>3, <2>3
    <3> QED BY <3>1, <3>2
  <2>6. StreamedFrom(k, from, n, h)
    <3>1. h = [i \in from..n |-> h[i]]
      OBVIOUS
    <3> HIDE DEF h
    <3>2. h = [i \in from..n |-> IF i = from THEN First1 ELSE Next1(h[i - 1], i)]
      BY <3>1, <2>5
    <3> QED BY <3>2, <1>0
  <2> HIDE DEF h
  <2> QED BY <2>6
<1>3. from..to \subseteq S
  <2> HIDE DEF S
  <2> QED BY <1>1, <1>2, Induction
<1>4. to \in S
  BY <1>3
<1> QED BY <1>4

\* What a chart shows once they are streamed into it.
LEMMA StreamIs ==
    ASSUME NEW k, view.panes[k] \in Pane, view.zone \in Zones, NEW from \in Nat, NEW to \in Nat,
           from <= to, to <= Len(Bars[view.panes[k].ds]),
           Draws(candles[k], series[k], view.panes[k], from, view.zone, look)
    PROVE  Draws(Stream(k, from, to).cs, Stream(k, from, to).ser, view.panes[k], to, view.zone, look)
<1> DEFINE p == view.panes[k]
           B == Bars[p.ds]
           zone == view.zone
<1>0. \E h : StreamedFrom(k, from, to, h)
  <2>1. from \in Int /\ to \in Int
    OBVIOUS
  <2> QED BY <2>1, StreamedExists
<1> DEFINE g == CHOOSE h : StreamedFrom(k, from, to, h)
<1>1. StreamedFrom(k, from, to, g)
  BY <1>0
<1>2. Stream(k, from, to) = g[to]
  BY DEF Stream, StreamedFrom
<1> HIDE DEF g
<1>3. p.ds \in Symbols /\ p.tf \in Timeframes
  BY DEF Pane
<1>4. PICK f \in 1..WindowStart(from, p.tf) : AreCandles(candles[k], B, f, from, p.tf, zone)
  BY DEF Draws
<1>5. f \in Nat \ {0} /\ f <= from + 1 /\ f \in 1..WindowStart(to, p.tf)
  <2>1. /\ WindowStart(from, p.tf) \in Nat \ {0} /\ WindowStart(from, p.tf) <= from + 1
        /\ WindowStart(to, p.tf) \in Nat \ {0} /\ WindowStart(from, p.tf) <= WindowStart(to, p.tf)
    BY <1>3, WindowIs
  <2> QED BY <2>1
<1> DEFINE Good(i) == AreCandles(g[i].cs, B, f, i, p.tf, zone) /\ g[i].ser = Styled(g[i].cs, look)
           S == {i \in from..to : Good(i)}
<1>6. /\ g[from].cs = candles[k] /\ g[from].ser = series[k]
      /\ \A i \in (from + 1)..to : /\ g[i].cs = PushBar(g[i - 1].cs, B, i, p.tf, zone)
                                   /\ g[i].ser = SeriesUpdate(g[i - 1].ser, PushBar(g[i - 1].cs, B, i, p.tf, zone))
  <2>1. g[from] = [cs |-> candles[k], ser |-> series[k]]
    BY <1>1 DEF StreamedFrom
  <2>2. ASSUME NEW i \in (from + 1)..to
        PROVE  /\ g[i].cs = PushBar(g[i - 1].cs, B, i, p.tf, zone)
               /\ g[i].ser = SeriesUpdate(g[i - 1].ser, PushBar(g[i - 1].cs, B, i, p.tf, zone))
    <3>1. i \in from..to /\ i # from
      OBVIOUS
    <3> DEFINE new == PushBar(g[i - 1].cs, B, i, p.tf, zone)
               ser == SeriesUpdate(g[i - 1].ser, new)
    <3>2. g[i] = [cs |-> new, ser |-> ser]
      BY <1>1, <3>1 DEF StreamedFrom
    <3> SUFFICES g[i].cs = new /\ g[i].ser = ser
      OBVIOUS
    <3> HIDE DEF new, ser
    <3> QED BY <3>2
  <2> HIDE DEF B, zone, p
  <2> QED BY <2>1, <2>2
<1>7. from \in S
  <2>1. series[k] = Styled(candles[k], look)
    BY DEF Draws
  <2> QED BY <1>4, <1>6, <2>1
<1>8. ASSUME NEW i \in (from + 1)..to, i - 1 \in S
      PROVE  i \in S
  <2> DEFINE c == i - 1
             new == PushBar(g[c].cs, B, i, p.tf, zone)
  <2>1. c \in Nat /\ c + 1 = i /\ f <= c + 1 /\ c + 1 <= Len(B) /\ i \in from..to
    BY <1>3, <1>5, BarsOf
  <2>2. AreCandles(g[c].cs, B, f, c, p.tf, zone) /\ g[c].ser = Styled(g[c].cs, look)
    BY <1>8
  <2>3. AreCandles(new, B, f, i, p.tf, zone)
    <3> SUFFICES AreCandles(PushBar(g[c].cs, B, c + 1, p.tf, zone), B, f, c + 1, p.tf, zone)
      BY <2>1
    <3> HIDE DEF c
    <3> QED BY <1>3, <1>5, <2>1, <2>2, PushBarIs
  <2>4. g[i].cs = new /\ g[i].ser = SeriesUpdate(g[c].ser, new)
    BY <1>6
  <2>5. SeriesUpdate(Styled(g[c].cs, look), new) = Styled(new, look)
    <3>1. g[c].cs \in Seq(Candle) /\ new \in Seq(Candle)
      BY <2>2, <2>3 DEF AreCandles
    <3> HIDE DEF c
    <3> QED BY <3>1, SeriesIs
  <2> HIDE DEF new
  <2> QED BY <2>1, <2>2, <2>3, <2>4, <2>5
<1>9. from..to \subseteq S
  <2> HIDE DEF S
  <2>1. from \in Int /\ to \in Int
    OBVIOUS
  <2> QED BY <1>7, <1>8, <2>1, Induction
<1>10. Good(to)
  BY <1>9
<1> QED BY <1>2, <1>5, <1>10 DEF Draws

-----------------------------------------------------------------------------
(* The steps.                                                              *)

\* A clock stands at a bar or before the first.
LEMMA UpperIdxIs ==
    ASSUME NEW s \in Symbols, NEW t
    PROVE  UpperIdx(Bars[s], t) \in Nat /\ UpperIdx(Bars[s], t) <= Len(Bars[s])
<1>1. Len(Bars[s]) \in Nat /\ DOMAIN Bars[s] = 1..Len(Bars[s])
  BY BarsOf
<1>2. IsFiniteSet(1..Len(Bars[s])) /\ Cardinality(1..Len(Bars[s])) = Len(Bars[s])
  <2>1. 1 \in Int /\ Len(Bars[s]) \in Int
    BY <1>1
  <2> QED BY <1>1, <2>1, FS_Interval
<1>3. {i \in DOMAIN Bars[s] : Bars[s][i].t <= t} \subseteq 1..Len(Bars[s])
  BY <1>1
<1>4. /\ Cardinality({i \in DOMAIN Bars[s] : Bars[s][i].t <= t}) <= Len(Bars[s])
      /\ IsFiniteSet({i \in DOMAIN Bars[s] : Bars[s][i].t <= t})
  BY <1>2, <1>3, FS_Subset
<1> QED BY <1>4, FS_CardinalityType DEF UpperIdx

\* A view has charts of symbols.
LEMMA ViewIs ==
    ASSUME NEW v \in View
    PROVE  /\ ShownIn(v) \subseteq Panes /\ v.zone \in Zones /\ v.active \in Panes /\ v.layout \in Panes
           /\ v.panes \in [Panes -> Pane]
           /\ \A k \in Panes : v.panes[k] \in Pane /\ v.panes[k].ds \in Symbols /\ v.panes[k].tf \in Timeframes
<1>1. v.panes \in [Panes -> Pane] /\ v.zone \in Zones /\ v.active \in Panes /\ v.layout \in Panes
  BY DEF View
<1> QED BY <1>1 DEF ShownIn, Panes, Pane

Clocks == {c \in [Symbols -> Nat] : \A s \in Symbols : c[s] <= Len(Bars[s])}

\* What the charts show after the ones in which were drawn again.
LEMMA RedrawIs ==
    ASSUME NEW v \in View, NEW lk, NEW which, cur' \in Clocks, Redraw(v, lk, which),
           \A k \in ShownIn(v) \ which : Draws(candles[k], series[k], v.panes[k], cur'[v.panes[k].ds], v.zone, look)
    PROVE  /\ DOMAIN candles' = Panes /\ DOMAIN series' = Panes
           /\ \A k \in ShownIn(v) : Draws(candles'[k], series'[k], v.panes[k], cur'[v.panes[k].ds], v.zone, lk)
<1>1. DOMAIN candles' = Panes /\ DOMAIN series' = Panes
  BY DEF Redraw
<1>2. ASSUME NEW k \in ShownIn(v)
      PROVE  Draws(candles'[k], series'[k], v.panes[k], cur'[v.panes[k].ds], v.zone, lk)
  <2> DEFINE p == v.panes[k]
             n == cur'[p.ds]
  <2>0. k \in Panes /\ p \in Pane /\ p.ds \in Symbols /\ v.zone \in Zones
    BY ViewIs
  <2>1. n \in Nat /\ n <= Len(Bars[p.ds])
    BY <2>0 DEF Clocks
  <2>2. CASE k \in which
    <3>1. /\ candles'[k] = BuildCandles(Bars[p.ds], n, p.tf, v.zone)
          /\ series'[k] = Styled(candles'[k], lk)
      BY <1>2, <2>0, <2>2 DEF Redraw
    <3> HIDE DEF p, n
    <3>2. Draws(candles'[k], series'[k], p, n, v.zone, lk)
      BY <2>0, <2>1, <3>1, BuiltIs
    <3> QED BY <3>2 DEF p, n
  <2>3. CASE k \notin which
    <3>1. candles'[k] = candles[k] /\ series'[k] = IF lk # look THEN Styled(candles[k], lk) ELSE series[k]
      BY <1>2, <2>0, <2>3 DEF Redraw
    <3>2. Draws(candles[k], series[k], p, n, v.zone, look)
      BY <1>2, <2>3
    <3> HIDE DEF p, n
    <3>3. Draws(candles'[k], series'[k], p, n, v.zone, lk)
      BY <3>1, <3>2 DEF Draws
    <3> QED BY <3>3 DEF p, n
  <2> QED BY <2>2, <2>3
<1> QED BY <1>1, <1>2

\* The parts of the types.
LEMMA Types ==
    ASSUME TypeOK
    PROVE  /\ cur \in Clocks /\ view \in View /\ look \in Looks
           /\ DOMAIN candles = Panes /\ DOMAIN series = Panes
BY DEF TypeOK, Clocks

\* The clock moves on.
LEMMA AdvanceStep ==
    ASSUME ChartsInv, NEW t, AdvanceTo(t)
    PROVE  ChartsInv'
<1> DEFINE end == [s \in Symbols |-> Max({cur[s], UpperIdx(Bars[s], t)})]
           Ds(k) == view.panes[k].ds
<1>0. TypeOK /\ view \in View /\ cur \in Clocks
  BY Types DEF ChartsInv
<1>1. cur' = end /\ UNCHANGED <<view, look, snap, typed>>
  BY DEF AdvanceTo, UntouchedView
<1>2. \A s \in Symbols : end[s] \in Nat /\ end[s] <= Len(Bars[s]) /\ cur[s] <= end[s]
  <2> TAKE s \in Symbols
  <2>1. cur[s] \in Nat /\ cur[s] <= Len(Bars[s]) /\ UpperIdx(Bars[s], t) \in Nat /\ UpperIdx(Bars[s], t) <= Len(Bars[s])
    BY <1>0, UpperIdxIs DEF Clocks
  <2>2. /\ Max({cur[s], UpperIdx(Bars[s], t)}) \in {cur[s], UpperIdx(Bars[s], t)}
        /\ cur[s] <= Max({cur[s], UpperIdx(Bars[s], t)})
    <3>1. cur[s] \in Int /\ UpperIdx(Bars[s], t) \in Int
      BY <2>1
    <3> QED BY <3>1, OfTwo
  <2>3. end[s] = Max({cur[s], UpperIdx(Bars[s], t)})
    OBVIOUS
  <2> HIDE DEF end
  <2> QED BY <2>1, <2>2, <2>3
<1>3. cur' \in Clocks
  <2>1. end \in [Symbols -> Nat]
    <3>1. end = [s \in Symbols |-> end[s]]
      OBVIOUS
    <3> HIDE DEF end
    <3> QED BY <3>1, <1>2
  <2> HIDE DEF end
  <2> QED BY <2>1, <1>1, <1>2 DEF Clocks
<1>4. \A k \in Shown : /\ k \in Panes /\ view.panes[k] \in Pane /\ Ds(k) \in Symbols /\ view.zone \in Zones
                       /\ Draws(candles[k], series[k], view.panes[k], cur[Ds(k)], view.zone, look)
  BY <1>0, ViewIs DEF ChartsInv, Shown
<1>5. /\ DOMAIN candles' = Panes /\ DOMAIN series' = Panes
      /\ \A k \in Shown : Draws(candles'[k], series'[k], view.panes[k], cur'[Ds(k)], view.zone, look)
  <2>1. CASE /\ candles' = [k \in Panes |-> IF k \in Shown THEN Stream(k, cur[Ds(k)], end[Ds(k)]).cs ELSE candles[k]]
             /\ series' = [k \in Panes |-> IF k \in Shown THEN Stream(k, cur[Ds(k)], end[Ds(k)]).ser ELSE series[k]]
    <3>1. ASSUME NEW k \in Shown
          PROVE  Draws(Stream(k, cur[Ds(k)], end[Ds(k)]).cs, Stream(k, cur[Ds(k)], end[Ds(k)]).ser,
                       view.panes[k], end[Ds(k)], view.zone, look)
      <4>1. cur[Ds(k)] \in Nat /\ end[Ds(k)] \in Nat /\ cur[Ds(k)] <= end[Ds(k)] /\ end[Ds(k)] <= Len(Bars[Ds(k)])
        BY <1>0, <1>2, <1>4 DEF Clocks
      <4> HIDE DEF end
      <4> QED BY <1>4, <4>1, StreamIs
    <3>2. \A k \in Shown : /\ candles'[k] = Stream(k, cur[Ds(k)], end[Ds(k)]).cs
                           /\ series'[k] = Stream(k, cur[Ds(k)], end[Ds(k)]).ser
      BY <1>4, <2>1
    <3> HIDE DEF end
    <3> QED BY <1>1, <2>1, <3>1, <3>2
  <2>2. CASE Redraw(view, look, Shown)
    <3>1. \A k \in ShownIn(view) : Draws(candles'[k], series'[k], view.panes[k], cur'[Ds(k)], view.zone, look)
      BY <1>0, <1>3, <2>2, RedrawIs DEF Shown
    <3>2. DOMAIN candles' = Panes /\ DOMAIN series' = Panes
      BY <2>2 DEF Redraw
    <3> QED BY <3>1, <3>2 DEF Shown
  <2> QED BY <2>1, <2>2 DEF AdvanceTo
<1>6. TypeOK'
  BY <1>0, <1>1, <1>3, <1>5 DEF TypeOK, Clocks
<1> QED BY <1>1, <1>5, <1>6 DEF ChartsInv, Shown

\* The clock is put elsewhere.
LEMMA SeekStep ==
    ASSUME ChartsInv, NEW t, SeekTo(t)
    PROVE  ChartsInv'
<1>0. TypeOK /\ view \in View
  BY Types DEF ChartsInv
<1>1. cur' = [s \in Symbols |-> UpperIdx(Bars[s], t)] /\ UNCHANGED <<view, look, snap, typed>> /\ Redraw(view, look, Shown)
  BY DEF SeekTo, UntouchedView
<1>2. cur' \in Clocks
  BY <1>1, UpperIdxIs DEF Clocks
<1>3. /\ DOMAIN candles' = Panes /\ DOMAIN series' = Panes
      /\ \A k \in ShownIn(view) : Draws(candles'[k], series'[k], view.panes[k], cur'[view.panes[k].ds], view.zone, look)
  BY <1>0, <1>1, <1>2, RedrawIs DEF Shown
<1>4. TypeOK'
  BY <1>0, <1>1, <1>2, <1>3 DEF TypeOK, Clocks
<1> QED BY <1>1, <1>3, <1>4 DEF ChartsInv, Shown

\* Other charts are on the screen, or in other colours; those in which are drawn again.
LEMMA ViewStep ==
    ASSUME ChartsInv, NEW v \in View, NEW lk \in Looks, NEW which,
           cur' = cur, view' = v, look' = lk, Redraw(v, lk, which),
           snap' \in [look : Looks, zone : Zones] \cup {None}, typed' \in Timeframes \cup {None},
           \A k \in ShownIn(v) \ which : k \in Shown /\ v.panes[k] = view.panes[k] /\ v.zone = view.zone
    PROVE  ChartsInv'
<1>0. TypeOK /\ view \in View /\ cur \in Clocks
  BY Types DEF ChartsInv
<1>1. cur' \in Clocks
  BY <1>0
<1>2. \A k \in ShownIn(v) \ which : Draws(candles[k], series[k], v.panes[k], cur'[v.panes[k].ds], v.zone, look)
  BY DEF ChartsInv
<1>3. /\ DOMAIN candles' = Panes /\ DOMAIN series' = Panes
      /\ \A k \in ShownIn(v) : Draws(candles'[k], series'[k], v.panes[k], cur'[v.panes[k].ds], v.zone, lk)
  BY <1>1, <1>2, RedrawIs
<1>4. TypeOK'
  BY <1>1, <1>3 DEF TypeOK, Clocks
<1>5. Shown' = ShownIn(v)
  BY DEF Shown
<1> QED BY <1>3, <1>4, <1>5 DEF ChartsInv

\* Nothing of the charts changes.
LEMMA QuietStep ==
    ASSUME ChartsInv, UNCHANGED <<cur, view, candles, series, look>>,
           snap' \in [look : Looks, zone : Zones] \cup {None}, typed' \in Timeframes \cup {None}
    PROVE  ChartsInv'
<1>1. TypeOK'
  BY DEF ChartsInv, TypeOK
<1>2. Shown' = Shown
  BY DEF Shown, ShownIn
<1> QED BY <1>1, <1>2 DEF ChartsInv

\* A view with another field.
WithTf(v, k, tf) == [v EXCEPT !.panes[k].tf = tf]
WithDs(v, k, s) == [v EXCEPT !.panes[k].ds = s]
WithZone(v, z) == [v EXCEPT !.zone = z]
WithLayout(v, n, a) == [v EXCEPT !.layout = n, !.active = a]

\* It is a view, and the rest of it is as before.
LEMMA ViewWith ==
    ASSUME NEW v \in View, NEW tf \in Timeframes, NEW s \in Symbols, NEW k \in Panes, NEW n \in Panes, NEW z \in Zones
    PROVE  /\ WithTf(v, k, tf) \in View /\ ShownIn(WithTf(v, k, tf)) = ShownIn(v)
           /\ WithTf(v, k, tf).zone = v.zone
           /\ \A j \in Panes : j # k => WithTf(v, k, tf).panes[j] = v.panes[j]
           /\ WithDs(v, k, s) \in View /\ ShownIn(WithDs(v, k, s)) = ShownIn(v)
           /\ WithDs(v, k, s).zone = v.zone
           /\ \A j \in Panes : j # k => WithDs(v, k, s).panes[j] = v.panes[j]
           /\ WithZone(v, z) \in View /\ ShownIn(WithZone(v, z)) = ShownIn(v)
           /\ WithZone(v, z).panes = v.panes /\ WithZone(v, z).zone = z
           /\ WithLayout(v, n, k) \in View /\ WithLayout(v, n, k).layout = n
           /\ WithLayout(v, n, k).panes = v.panes /\ WithLayout(v, n, k).zone = v.zone
<1>1. /\ v = [zone |-> v.zone, layout |-> v.layout, active |-> v.active, panes |-> v.panes]
      /\ v.panes \in [Panes -> Pane] /\ v.zone \in Zones /\ v.active \in Panes /\ v.layout \in Panes
  BY DEF View
<1>2. v.panes[k] \in Pane
  BY <1>1
<1>3. [v.panes[k] EXCEPT !.tf = tf] \in Pane /\ [v.panes[k] EXCEPT !.ds = s] \in Pane
  <2> DEFINE p == v.panes[k]
  <2>1. p \in Pane
    BY <1>2
  <2> HIDE DEF p
  <2>2. [p EXCEPT !.tf = tf] \in Pane /\ [p EXCEPT !.ds = s] \in Pane
    BY <2>1 DEF Pane
  <2> QED BY <2>2 DEF p
<1>4. /\ [v.panes EXCEPT ![k] = [v.panes[k] EXCEPT !.tf = tf]] \in [Panes -> Pane]
      /\ [v.panes EXCEPT ![k] = [v.panes[k] EXCEPT !.ds = s]] \in [Panes -> Pane]
  BY <1>1, <1>3
<1>5. ASSUME NEW q \in [Panes -> Pane]
      PROVE  /\ [v EXCEPT !.panes = q] \in View /\ [v EXCEPT !.panes = q].zone = v.zone
             /\ [v EXCEPT !.panes = q].layout = v.layout /\ [v EXCEPT !.panes = q].panes = q
  BY <1>1 DEF View
<1>6. /\ [v EXCEPT !.panes[k].tf = tf] = [v EXCEPT !.panes = [v.panes EXCEPT ![k] = [v.panes[k] EXCEPT !.tf = tf]]]
      /\ [v EXCEPT !.panes[k].ds = s] = [v EXCEPT !.panes = [v.panes EXCEPT ![k] = [v.panes[k] EXCEPT !.ds = s]]]
  BY <1>1
<1>7. /\ WithTf(v, k, tf) \in View /\ ShownIn(WithTf(v, k, tf)) = ShownIn(v)
      /\ WithTf(v, k, tf).zone = v.zone
      /\ \A j \in Panes : j # k => WithTf(v, k, tf).panes[j] = v.panes[j]
  BY <1>1, <1>4, <1>5, <1>6 DEF ShownIn, WithTf
<1>8. /\ WithDs(v, k, s) \in View /\ ShownIn(WithDs(v, k, s)) = ShownIn(v)
      /\ WithDs(v, k, s).zone = v.zone
      /\ \A j \in Panes : j # k => WithDs(v, k, s).panes[j] = v.panes[j]
  BY <1>1, <1>4, <1>5, <1>6 DEF ShownIn, WithDs
<1>9. /\ WithZone(v, z) \in View /\ ShownIn(WithZone(v, z)) = ShownIn(v)
      /\ WithZone(v, z).panes = v.panes /\ WithZone(v, z).zone = z
  BY <1>1 DEF ShownIn, View, WithZone
<1>10. /\ WithLayout(v, n, k) \in View /\ WithLayout(v, n, k).layout = n
       /\ WithLayout(v, n, k).panes = v.panes /\ WithLayout(v, n, k).zone = v.zone
  BY <1>1 DEF View, WithLayout
<1> QED BY <1>7, <1>8, <1>9, <1>10

\* A chosen timeframe.
LEMMA SetPaneTfStep ==
    ASSUME ChartsInv, NEW tf \in Timeframes, SetPaneTf(tf), typed' \in Timeframes \cup {None}
    PROVE  ChartsInv'
<1> DEFINE v == WithTf(view, view.active, tf)
<1>1. TypeOK /\ view \in View /\ look \in Looks /\ view.active \in Panes /\ ShownIn(view) \subseteq Panes
  BY Types, ViewIs DEF ChartsInv
<1>2. cur' = cur /\ view' = v /\ Redraw(v, look, {view.active}) /\ look' = look /\ snap' = snap
  BY DEF SetPaneTf, WithTf
<1>3. v \in View /\ ShownIn(v) = Shown /\ v.zone = view.zone /\ \A j \in Panes : j # view.active => v.panes[j] = view.panes[j]
  <2>1. PICK s : s \in Symbols
    BY ChoicesAssumption
  <2>2. "NY" \in Zones
    BY ChoicesAssumption
  <2> QED BY <1>1, <2>1, <2>2, ViewWith DEF Shown
<1>4. snap' \in [look : Looks, zone : Zones] \cup {None}
  BY <1>1, <1>2 DEF TypeOK
<1> HIDE DEF v
<1>5. \A k \in ShownIn(v) \ {view.active} : k \in Shown /\ v.panes[k] = view.panes[k] /\ v.zone = view.zone
  BY <1>1, <1>3 DEF Shown
<1> QED BY <1>1, <1>2, <1>3, <1>4, <1>5, ViewStep

\* A chosen symbol.
LEMMA SetPaneSymbolStep ==
    ASSUME ChartsInv, NEW s \in Symbols, SetPaneSymbol(s)
    PROVE  ChartsInv'
<1> DEFINE v == WithDs(view, view.active, s)
<1>1. TypeOK /\ view \in View /\ look \in Looks /\ view.active \in Panes /\ ShownIn(view) \subseteq Panes
  BY Types, ViewIs DEF ChartsInv
<1>2. cur' = cur /\ view' = v /\ Redraw(v, look, {view.active}) /\ look' = look /\ snap' = snap /\ typed' = typed
  BY DEF SetPaneSymbol, WithDs
<1>3. v \in View /\ ShownIn(v) = Shown /\ v.zone = view.zone /\ \A j \in Panes : j # view.active => v.panes[j] = view.panes[j]
  <2>1. PICK tf : tf \in Timeframes
    BY ChoicesAssumption
  <2>2. "NY" \in Zones
    BY ChoicesAssumption
  <2> QED BY <1>1, <2>1, <2>2, ViewWith DEF Shown
<1>4. snap' \in [look : Looks, zone : Zones] \cup {None} /\ typed' \in Timeframes \cup {None}
  BY <1>1, <1>2 DEF TypeOK
<1> HIDE DEF v
<1>5. \A k \in ShownIn(v) \ {view.active} : k \in Shown /\ v.panes[k] = view.panes[k] /\ v.zone = view.zone
  BY <1>1, <1>3 DEF Shown
<1> QED BY <1>1, <1>2, <1>3, <1>4, <1>5, ViewStep

\* One chart or two.
LEMMA SetLayoutStep ==
    ASSUME ChartsInv, NEW n \in Panes, SetLayout(n)
    PROVE  ChartsInv'
<1> DEFINE a == IF n = 1 THEN 1 ELSE view.active
           v == WithLayout(view, n, a)
           which == IF n = 2 THEN {2} ELSE {}
<1>1. TypeOK /\ view \in View /\ look \in Looks /\ view.active \in Panes /\ ShownIn(view) \subseteq Panes
  BY Types, ViewIs DEF ChartsInv
<1>2. /\ cur' = cur /\ view' = v /\ Redraw(v, look, which)
      /\ look' = look /\ snap' = snap /\ typed' = typed
  BY DEF SetLayout, WithLayout
<1>3. v \in View /\ v.layout = n /\ v.panes = view.panes /\ v.zone = view.zone
  <2>1. PICK s, tf : s \in Symbols /\ tf \in Timeframes
    BY ChoicesAssumption
  <2>2. "NY" \in Zones
    BY ChoicesAssumption
  <2>3. a \in Panes
    BY <1>1 DEF Panes
  <2> HIDE DEF a
  <2> QED BY <1>1, <2>1, <2>2, <2>3, ViewWith
<1>4. snap' \in [look : Looks, zone : Zones] \cup {None} /\ typed' \in Timeframes \cup {None}
  BY <1>1, <1>2 DEF TypeOK
<1> HIDE DEF v
<1>5. \A k \in ShownIn(v) \ which : k \in Shown
  BY <1>3 DEF Shown, ShownIn, Panes
<1> QED BY <1>1, <1>2, <1>3, <1>4, <1>5, ViewStep

\* Another look or another zone.
LEMMA RestyleStep ==
    ASSUME ChartsInv, NEW lk \in Looks, NEW zone \in Zones, Restyle(lk, zone),
           snap' \in [look : Looks, zone : Zones] \cup {None}, typed' \in Timeframes \cup {None}
    PROVE  ChartsInv'
<1> DEFINE v == WithZone(view, zone)
           which == IF zone = view.zone THEN {} ELSE Shown
<1>1. TypeOK /\ view \in View /\ look \in Looks
  BY Types DEF ChartsInv
<1>2. cur' = cur /\ view' = v /\ Redraw(v, lk, which) /\ look' = lk
  BY DEF Restyle, WithZone
<1>3. v \in View /\ ShownIn(v) = Shown /\ v.panes = view.panes /\ v.zone = zone
  <2>1. PICK s, tf : s \in Symbols /\ tf \in Timeframes
    BY ChoicesAssumption
  <2>2. 1 \in Panes
    BY DEF Panes
  <2> QED BY <1>1, <2>1, <2>2, ViewWith DEF Shown
<1> HIDE DEF v
<1>4. \A k \in ShownIn(v) \ which : k \in Shown /\ v.panes[k] = view.panes[k] /\ v.zone = view.zone
  BY <1>3
<1> QED BY <1>1, <1>2, <1>3, <1>4, ViewStep

-----------------------------------------------------------------------------
(* The theorem.                                                            *)

\* A session that has just been opened.
LEMMA ChartsInit == Init => ChartsInv
<1> SUFFICES ASSUME Init PROVE ChartsInv
  OBVIOUS
<1>1. PICK s \in Symbols, n \in Panes :
        view = [zone |-> "NY", layout |-> n, active |-> 1,
                panes |-> [k \in Panes |-> [tf |-> Min(Timeframes), ds |-> IF k = 1 THEN s ELSE PickOther(s)]]]
  BY DEF Init
<1>2. Min(Timeframes) \in Timeframes
  BY MinIs, ChoicesAssumption
<1>3. PickOther(s) \in Symbols
  <2>1. \E x \in Symbols : x # s
    BY ChoicesAssumption
  <2> QED BY <2>1 DEF PickOther
<1>4. view \in View
  <2> DEFINE q == [k \in Panes |-> [tf |-> Min(Timeframes), ds |-> IF k = 1 THEN s ELSE PickOther(s)]]
  <2>1. q \in [Panes -> Pane]
    BY <1>2, <1>3 DEF Pane
  <2>2. view = [zone |-> "NY", layout |-> n, active |-> 1, panes |-> q]
    BY <1>1
  <2> HIDE DEF q
  <2>3. "NY" \in Zones /\ 1 \in Panes
    BY ChoicesAssumption DEF Panes
  <2> QED BY <2>1, <2>2, <2>3 DEF View
<1>5. cur \in Clocks
  BY UpperIdxIs DEF Init, Clocks
<1>6. look \in Looks /\ snap = None /\ typed = None
  BY DEF Init, Looks
<1>7. DOMAIN candles = Panes /\ DOMAIN series = Panes
  BY DEF Init
<1>8. TypeOK
  BY <1>4, <1>5, <1>6, <1>7 DEF TypeOK, Clocks
<1>9. ASSUME NEW k \in Shown
      PROVE  Draws(candles[k], series[k], view.panes[k], cur[view.panes[k].ds], view.zone, look)
  <2>1. k \in Panes /\ view.panes[k] \in Pane /\ view.zone \in Zones /\ view.panes[k].ds \in Symbols
    BY <1>4, ViewIs DEF Shown
  <2>2. candles[k] = BuildCandles(Bars[view.panes[k].ds], cur[view.panes[k].ds], view.panes[k].tf, view.zone)
    BY <2>1 DEF Init
  <2>3. series[k] = Styled(candles[k], look)
    BY <2>1 DEF Init
  <2>4. cur[view.panes[k].ds] \in Nat /\ cur[view.panes[k].ds] <= Len(Bars[view.panes[k].ds])
    BY <1>5, <2>1 DEF Clocks
  <2> QED BY <2>1, <2>2, <2>3, <2>4, BuiltIs
<1> QED BY <1>8, <1>9 DEF ChartsInv

\* The clock.
LEMMA ClockStep ==
    ASSUME ChartsInv, Clock
    PROVE  ChartsInv'
<1>1. ASSUME NEW tf \in Timeframes, NEW k \in 1..2, StepBy(tf, k) PROVE ChartsInv'
  BY <1>1, AdvanceStep DEF StepBy
<1>2. ASSUME NEW a \in NavItems \cup {"nextSession"}, JumpNext(a) PROVE ChartsInv'
  BY <1>2, AdvanceStep DEF JumpNext
<1>3. ASSUME NEW i \in UNION {DOMAIN Bars[s] : s \in Symbols}, SeekDate(i) PROVE ChartsInv'
  BY <1>3, SeekStep DEF SeekDate
<1>4. ASSUME NEW k \in Panes, NEW j \in DOMAIN candles[k], SelectBar(k, j) PROVE ChartsInv'
  BY <1>4, SeekStep DEF SelectBar
<1> QED BY <1>1, <1>2, <1>3, <1>4 DEF Clock

\* The view.
LEMMA ViewingStep ==
    ASSUME ChartsInv, Viewing
    PROVE  ChartsInv'
<1>0. TypeOK /\ look \in Looks
  BY Types DEF ChartsInv
<1>1. snap \in [look : Looks, zone : Zones] \cup {None} /\ typed \in Timeframes \cup {None}
  BY <1>0 DEF TypeOK
<1>2. ASSUME NEW tf \in Timeframes, ClickTf(tf) PROVE ChartsInv'
  BY <1>1, <1>2, SetPaneTfStep DEF ClickTf
<1>3. ASSUME NEW tf \in Timeframes, TypeTf(tf) PROVE ChartsInv'
  BY <1>1, <1>3, QuietStep DEF TypeTf
<1>4. CASE ApplyTyped
  <2>1. typed \in Timeframes /\ typed' \in Timeframes \cup {None} /\ SetPaneTf(typed)
    BY <1>1, <1>4 DEF ApplyTyped
  <2> QED BY <2>1, SetPaneTfStep
<1>5. ASSUME NEW s \in Symbols, SetPaneSymbol(s) PROVE ChartsInv'
  BY <1>5, SetPaneSymbolStep
<1>6. ASSUME NEW k \in Panes, SetActive(k) PROVE ChartsInv'
  <2> DEFINE v == [view EXCEPT !.active = k]
  <2>1. cur' = cur /\ view' = v /\ UNCHANGED <<candles, series, look, snap, typed>>
    BY <1>6 DEF SetActive
  <2>2. v \in View /\ v.layout = view.layout /\ v.panes = view.panes /\ v.zone = view.zone
    BY <1>0 DEF TypeOK, View
  <2> HIDE DEF v
  <2>3. Shown' = Shown
    BY <2>1, <2>2 DEF Shown, ShownIn
  <2>4. TypeOK'
    BY <1>0, <2>1, <2>2 DEF TypeOK
  <2>5. \A j \in Shown : Draws(candles'[j], series'[j], view'.panes[j], cur'[view'.panes[j].ds], view'.zone, look')
    BY <2>1, <2>2 DEF ChartsInv
  <2> QED BY <2>3, <2>4, <2>5 DEF ChartsInv
<1>7. ASSUME NEW k \in Panes, SetLayout(k) PROVE ChartsInv'
  BY <1>7, SetLayoutStep
<1>8. CASE ToggleIct
  <2> DEFINE lk == [look EXCEPT !.ict = ~@]
  <2>1. look' = lk /\ UNCHANGED <<cur, view, candles, series, snap, typed>>
    BY <1>8 DEF ToggleIct
  <2>2. lk \in Looks /\ lk.prevClose = look.prevClose
    BY <1>0 DEF Looks
  <2> HIDE DEF lk
  <2>3. \A cs : Styled(cs, lk) = Styled(cs, look)
    BY <2>2 DEF Styled, StyleCandle
  <2>4. TypeOK'
    BY <1>0, <2>1, <2>2 DEF TypeOK
  <2>5. Shown' = Shown
    BY <2>1 DEF Shown, ShownIn
  <2>6. \A j \in Shown : Draws(candles'[j], series'[j], view'.panes[j], cur'[view'.panes[j].ds], view'.zone, look')
    BY <2>1, <2>3 DEF ChartsInv, Draws
  <2> QED BY <2>4, <2>5, <2>6 DEF ChartsInv
<1> QED BY <1>2, <1>3, <1>4, <1>5, <1>6, <1>7, <1>8 DEF Viewing

\* The dialogs.
LEMMA DialogsStep ==
    ASSUME ChartsInv, Dialogs
    PROVE  ChartsInv'
<1>0. TypeOK /\ look \in Looks /\ view.zone \in Zones
  BY Types, ViewIs DEF ChartsInv
<1>1. snap \in [look : Looks, zone : Zones] \cup {None} /\ typed \in Timeframes \cup {None}
  BY <1>0 DEF TypeOK
<1>2. CASE OpenSettings
  <2>1. snap' \in [look : Looks, zone : Zones]
    BY <1>0, <1>2 DEF OpenSettings
  <2> QED BY <1>1, <1>2, <2>1, QuietStep DEF OpenSettings
<1>3. ASSUME NEW lk \in Looks, EditLook(lk) PROVE ChartsInv'
  BY <1>0, <1>1, <1>3, RestyleStep DEF EditLook
<1>4. ASSUME NEW z \in Zones, SetZone(z) PROVE ChartsInv'
  BY <1>0, <1>1, <1>4, RestyleStep DEF SetZone
<1>5. ASSUME NEW save \in BOOLEAN, CloseSettings(save) PROVE ChartsInv'
  <2>1. snap # None /\ snap' = None /\ typed' = typed
    BY <1>5 DEF CloseSettings
  <2>2. CASE save
    BY <1>1, <1>5, <2>1, <2>2, QuietStep DEF CloseSettings
  <2>3. CASE ~save
    <3>1. snap.look \in Looks /\ snap.zone \in Zones
      BY <1>1, <2>1
    <3>2. Restyle(snap.look, snap.zone)
      BY <1>5, <2>3 DEF CloseSettings
    <3> QED BY <1>1, <2>1, <3>1, <3>2, RestyleStep
  <2> QED BY <2>2, <2>3
<1>6. CASE NavFrame
  BY <1>1, <1>6, QuietStep DEF NavFrame
<1>7. ASSUME \/ OpenNav \/ ResetNav \/ SaveNav \/ CancelNav
             \/ \E x \in NavItems, h \in NavTimes : SetSlot(x, h)
             \/ \E days \in SkipChoices : SkipDays(days)
      PROVE  NavFrame
  BY <1>7 DEF OpenNav, ResetNav, SaveNav, CancelNav, SetSlot, SkipDays
<1> QED BY <1>2, <1>3, <1>4, <1>5, <1>6, <1>7 DEF Dialogs

\* The charts keep to the bars up to the clock, in every reachable state.
THEOREM ChartsInvariant == Spec => []ChartsInv
<1>1. ChartsInv /\ [Next]_vars => ChartsInv'
  <2> SUFFICES ASSUME ChartsInv, [Next]_vars PROVE ChartsInv'
    OBVIOUS
  <2>1. CASE Clock
    BY <2>1, ClockStep
  <2>2. CASE Viewing
    BY <2>2, ViewingStep
  <2>3. CASE Dialogs
    BY <2>3, DialogsStep
  <2>4. CASE UNCHANGED vars
    <3>1. UNCHANGED <<cur, view, candles, series, look, snap, typed>>
      BY <2>4 DEF vars
    <3>2. snap \in [look : Looks, zone : Zones] \cup {None} /\ typed \in Timeframes \cup {None}
      BY DEF ChartsInv, TypeOK
    <3> QED BY <3>1, <3>2, QuietStep
  <2> QED BY <2>1, <2>2, <2>3, <2>4 DEF Next
<1> QED BY ChartsInit, <1>1, PTL DEF Spec

-----------------------------------------------------------------------------
(* The candles are the true ones.                                          *)

\* The extremes of a set of numbers that has them.
LEMMA Extremes ==
    ASSUME NEW S, S \subseteq Int, NEW x \in S
    PROVE  /\ (\A y \in S : y <= x) => Max(S) = x
           /\ (\A y \in S : x <= y) => Min(S) = x
<1>1. ASSUME \A y \in S : y <= x PROVE Max(S) = x
  <2>1. \A z \in S : (\A y \in S : z >= y) => z = x
    BY <1>1
  <2>2. \A y \in S : x >= y
    BY <1>1
  <2> QED BY <2>1, <2>2 DEF Max
<1>2. ASSUME \A y \in S : x <= y PROVE Min(S) = x
  <2>1. \A z \in S : (\A y \in S : z <= y) => z = x
    BY <1>2
  <2> QED BY <1>2, <2>1 DEF Min
<1> QED BY <1>1, <1>2

\* A candle that is that of its bucket is the one the bars define.
LEMMA CandleIs ==
    ASSUME NEW s \in Symbols, NEW tf, NEW zone, NEW k \in Candle,
           NEW f \in Nat \ {0}, NEW c \in Nat, c <= Len(Bars[s]), IsCandle(k, Bars[s], f, c, tf, zone)
    PROVE  k = CandleOf(Bars[s], k.time, f, c, tf, zone)
<1> DEFINE B == Bars[s]
           mine == {i \in f..c : Bucket(B, i, tf, zone) = k.time}
<1>1. PICK a \in f..c, b \in f..c :
        /\ a <= b
        /\ \A i \in f..c : Bucket(B, i, tf, zone) = k.time <=> a <= i /\ i <= b
        /\ k.open = B[a].o /\ k.close = B[b].c
        /\ (\E i \in a..b : k.high = B[i].h) /\ \A i \in a..b : B[i].h <= k.high
        /\ (\E i \in a..b : k.low = B[i].l) /\ \A i \in a..b : k.low <= B[i].l
  BY DEF IsCandle
<1>2. mine = a..b
  <2>1. \A i : i \in mine <=> i \in a..b
    <3> TAKE i
    <3>1. i \in a..b => i \in f..c /\ a <= i /\ i <= b
      OBVIOUS
    <3>2. i \in f..c /\ a <= i /\ i <= b => i \in a..b
      OBVIOUS
    <3> QED BY <1>1, <3>1, <3>2
  <2> QED BY <2>1
<1> HIDE DEF mine
<1>3. Min(mine) = a /\ Max(mine) = b
  <2>1. a..b \subseteq Int /\ a \in a..b /\ b \in a..b /\ \A y \in a..b : a <= y /\ y <= b
    BY <1>1
  <2>2. mine \subseteq Int /\ a \in mine /\ b \in mine /\ \A y \in mine : a <= y /\ y <= b
    BY <1>2, <2>1
  <2>3. Min(mine) = a
    BY <2>2, Extremes
  <2>4. Max(mine) = b
    BY <2>2, Extremes
  <2> QED BY <2>3, <2>4
<1>4. \A i \in mine : B[i].h \in Int /\ B[i].l \in Int
  <2>1. \A i \in mine : i \in DOMAIN B
    BY <1>2, BarsOf
  <2> QED BY <2>1, BarsOf DEF Bar
<1>5. Max({B[i].h : i \in mine}) = k.high
  <2> DEFINE H == {B[i].h : i \in mine}
  <2>1. H \subseteq Int /\ k.high \in H /\ \A y \in H : y <= k.high
    BY <1>1, <1>2, <1>4
  <2> HIDE DEF H
  <2> QED BY <2>1, Extremes DEF H
<1>6. Min({B[i].l : i \in mine}) = k.low
  <2> DEFINE L == {B[i].l : i \in mine}
  <2>1. L \subseteq Int /\ k.low \in L /\ \A y \in L : k.low <= y
    BY <1>1, <1>2, <1>4
  <2> HIDE DEF L
  <2> QED BY <2>1, Extremes DEF L
<1>7. CandleOf(B, k.time, f, c, tf, zone) = [time |-> k.time, open |-> k.open, close |-> k.close, high |-> k.high, low |-> k.low]
  <2>1. CandleOf(B, k.time, f, c, tf, zone) =
          [time |-> k.time, open |-> B[Min(mine)].o, close |-> B[Max(mine)].c,
           high |-> Max({B[i].h : i \in mine}), low |-> Min({B[i].l : i \in mine})]
    BY DEF CandleOf, mine
  <2> QED BY <2>1, <1>1, <1>3, <1>5, <1>6
<1>8. k = [time |-> k.time, open |-> k.open, close |-> k.close, high |-> k.high, low |-> k.low]
  BY DEF Candle
<1> QED BY <1>7, <1>8

\* The buckets of the bars f to c.
Times(B, f, c, tf, zone) == {Bucket(B, i, tf, zone) : i \in f..c}

\* There are as many candles as buckets.
LEMMA OneForEach ==
    ASSUME NEW cs, NEW B, NEW f \in Nat \ {0}, NEW c \in Nat, NEW tf, NEW zone, AreCandles(cs, B, f, c, tf, zone)
    PROVE  /\ \A x : x \in Times(B, f, c, tf, zone) <=> \E j \in DOMAIN cs : x = cs[j].time
           /\ Len(cs) = Cardinality(Times(B, f, c, tf, zone))
<1> DEFINE times == Times(B, f, c, tf, zone)
<1>0. \A x : x \in times <=> \E i \in f..c : x = Bucket(B, i, tf, zone)
  BY DEF Times
<1> HIDE DEF times
<1>1. cs \in Seq(Candle) /\ Len(cs) \in Nat /\ DOMAIN cs = 1..Len(cs) /\ \A j \in DOMAIN cs : cs[j].time \in Int
  <2>1. cs \in Seq(Candle) /\ Len(cs) \in Nat /\ DOMAIN cs = 1..Len(cs)
    BY LenProperties DEF AreCandles
  <2>2. \A j \in DOMAIN cs : cs[j] \in Candle
    BY <2>1, ElementOfSeq
  <2> QED BY <2>1, <2>2 DEF Candle
<1>2. \A j \in DOMAIN cs : cs[j].time \in times
  <2> TAKE j \in DOMAIN cs
  <2>1. PICK a \in f..c, b \in f..c : a <= b /\ \A i \in f..c : Bucket(B, i, tf, zone) = cs[j].time <=> a <= i /\ i <= b
    BY DEF AreCandles, IsCandle
  <2> QED BY <1>0, <2>1
<1>3. \A x \in times : \E j \in DOMAIN cs : cs[j].time = x
  BY <1>0 DEF AreCandles
<1>4. \A x : x \in times <=> \E j \in DOMAIN cs : x = cs[j].time
  BY <1>2, <1>3
<1> DEFINE F == [j \in DOMAIN cs |-> cs[j].time]
<1>5. F \in Bijection(1..Len(cs), times)
  <2>1. F \in [1..Len(cs) -> times]
    BY <1>1, <1>2
  <2>2. \A i, j \in 1..Len(cs) : F[i] = F[j] => i = j
    <3> SUFFICES ASSUME NEW i \in 1..Len(cs), NEW j \in 1..Len(cs), i # j PROVE cs[i].time # cs[j].time
      BY <1>1
    <3>1. i < j \/ j < i
      BY <1>1
    <3>2. i < j => cs[i].time < cs[j].time
      BY <1>1 DEF AreCandles
    <3>3. j < i => cs[j].time < cs[i].time
      BY <1>1 DEF AreCandles
    <3> QED BY <1>1, <3>1, <3>2, <3>3
  <2>3. \A x \in times : \E j \in 1..Len(cs) : F[j] = x
    BY <1>1, <1>3
  <2> HIDE DEF F
  <2>4. F \in Injection(1..Len(cs), times)
    BY <2>1, <2>2, Fun_IsInj
  <2>5. F \in Surjection(1..Len(cs), times)
    BY <2>1, <2>3, Fun_IsSurj
  <2> QED BY <2>4, <2>5 DEF Bijection
<1>6. IsFiniteSet(1..Len(cs)) /\ Cardinality(1..Len(cs)) = Len(cs)
  <2>1. 1 \in Int /\ Len(cs) \in Int
    BY <1>1
  <2> HIDE DEF F
  <2>2. IsFiniteSet(1..Len(cs))
    BY <2>1, FS_Interval
  <2>3. Cardinality(1..Len(cs)) = IF 1 > Len(cs) THEN 0 ELSE Len(cs) - 1 + 1
    BY <2>1, FS_Interval
  <2> QED BY <1>1, <2>2, <2>3
<1>7. Len(cs) = Cardinality(times)
  <2>1. ExistsBijection(1..Len(cs), times)
    BY <1>5 DEF ExistsBijection
  <2> QED BY <1>6, <2>1, FS_Bijection
<1> QED BY <1>4, <1>7 DEF times

\* A chart that draws these candles shows the true ones.
LEMMA TrueIs == ChartsInv => CandlesAreTrue
<1> SUFFICES ASSUME ChartsInv, NEW k \in Shown
             PROVE  LET p == view.panes[k]
                        B == Bars[p.ds]
                        c == cur[p.ds]
                        cs == candles[k]
                    IN  /\ c = 0 => cs = <<>>
                        /\ c > 0 => \E f \in 1 .. WindowStart(c, p.tf) :
                              LET times == {Bucket(B, i, p.tf, view.zone) : i \in f .. c}
                              IN  /\ {cs[j].time : j \in DOMAIN cs} = times
                                  /\ Len(cs) = Cardinality(times)
                                  /\ \A j \in DOMAIN cs : /\ cs[j] = CandleOf(B, cs[j].time, f, c, p.tf, view.zone)
                                                          /\ j > 1 => cs[j - 1].time < cs[j].time
                        /\ series[k] = Styled(cs, look)
  BY DEF CandlesAreTrue
<1> DEFINE p == view.panes[k]
           B == Bars[p.ds]
           c == cur[p.ds]
           cs == candles[k]
<1>1. TypeOK /\ view \in View /\ cur \in Clocks
  BY Types DEF ChartsInv
<1>2. p \in Pane /\ p.ds \in Symbols /\ p.tf \in Timeframes /\ c \in Nat /\ c <= Len(B)
  BY <1>1, ViewIs DEF Shown, Clocks
<1>3. PICK f \in 1..WindowStart(c, p.tf) : AreCandles(cs, B, f, c, p.tf, view.zone)
  BY DEF ChartsInv, Draws
<1>4. series[k] = Styled(cs, look)
  BY DEF ChartsInv, Draws
<1>5. f \in Nat \ {0}
  BY <1>2, WindowIs
<1>6. ASSUME c = 0 PROVE cs = <<>>
  <2>1. f = 1 /\ c = f - 1
    BY <1>2, <1>6, WindowIs
  <2> HIDE DEF c, B, p, cs
  <2> QED BY <1>3, <1>5, <2>1, NoCandles
<1> DEFINE times == Times(B, f, c, p.tf, view.zone)
<1>7. {cs[j].time : j \in DOMAIN cs} = times /\ Len(cs) = Cardinality(times)
  <2> HIDE DEF B, c, cs, p
  <2>1. (\A x : x \in times <=> \E j \in DOMAIN cs : x = cs[j].time) /\ Len(cs) = Cardinality(times)
    BY <1>2, <1>3, <1>5, OneForEach
  <2> QED BY <2>1
<1>8. ASSUME NEW j \in DOMAIN cs
      PROVE  /\ cs[j] = CandleOf(B, cs[j].time, f, c, p.tf, view.zone)
             /\ j > 1 => cs[j - 1].time < cs[j].time
  <2>1. cs \in Seq(Candle) /\ DOMAIN cs = 1..Len(cs) /\ Len(cs) \in Nat
    BY <1>3, LenProperties DEF AreCandles
  <2>2. cs[j] \in Candle
    BY <2>1, ElementOfSeq
  <2>3. IsCandle(cs[j], B, f, c, p.tf, view.zone)
    BY <1>3 DEF AreCandles
  <2>4. cs[j] = CandleOf(B, cs[j].time, f, c, p.tf, view.zone)
    BY <1>2, <1>5, <2>2, <2>3, CandleIs
  <2>5. j > 1 => j - 1 \in DOMAIN cs /\ j - 1 < j
    BY <2>1
  <2>6. j > 1 => cs[j - 1].time < cs[j].time
    BY <1>3, <2>5 DEF AreCandles
  <2> QED BY <2>4, <2>6
<1> HIDE DEF times
<1>9. \E g \in 1..WindowStart(c, p.tf) :
        LET ts == {Bucket(B, i, p.tf, view.zone) : i \in g .. c}
        IN  /\ {cs[j].time : j \in DOMAIN cs} = ts
            /\ Len(cs) = Cardinality(ts)
            /\ \A j \in DOMAIN cs : /\ cs[j] = CandleOf(B, cs[j].time, g, c, p.tf, view.zone)
                                    /\ j > 1 => cs[j - 1].time < cs[j].time
  <2> HIDE DEF B, cs, c, p
  <2> WITNESS f \in 1..WindowStart(c, p.tf)
  <2> QED BY <1>7, <1>8 DEF times, Times
<1> QED BY <1>4, <1>6, <1>9

\* Whatever was switched and however the clock got there, for any bars, the
\* charts hold the candles of the bars up to the clock (rebuildPane, pushBar,
\* onCandles, ChartPane).
THEOREM CandlesTrue == Spec => []CandlesAreTrue
BY ChartsInvariant, TrueIs, PTL

-----------------------------------------------------------------------------
(* The indicators know the bars up to the clock.                           *)

\* The greatest of a set of numbers that is bounded and not empty.
LEMMA MaxIs ==
    ASSUME NEW n \in Nat, NEW S, S \subseteq 0..n, S # {}
    PROVE  Max(S) \in S /\ \A x \in S : x <= Max(S)
<1> DEFINE Mirror == {n - t : t \in S}
<1>1. Mirror \subseteq Nat /\ Mirror # {}
  <2>1. \A t \in S : n - t \in Nat
    OBVIOUS
  <2> QED BY <2>1
<1>2. Min(Mirror) \in Mirror /\ \A x \in Mirror : Min(Mirror) <= x
  <2> HIDE DEF Mirror
  <2> QED BY <1>1, MinIs
<1>3. PICK g \in S : Min(Mirror) = n - g
  BY <1>2
<1>4. \A x \in S : x <= g
  <2> TAKE x \in S
  <2>1. n - g <= n - x
    BY <1>2, <1>3
  <2> QED BY <2>1
<1> QED BY <1>4 DEF Max

\* Two sequences of bars with the same bars up to c.
SameUpTo(P, B, c) == \A i \in 1..c : P[i] = B[i]

\* The bars up to the clock.
LEMMA PastIs ==
    ASSUME NEW s \in Symbols, NEW c \in Nat, c <= Len(Bars[s])
    PROVE  SameUpTo(SubSeq(Bars[s], 1, c), Bars[s], c)
<1>1. \A i \in 1..c : Bars[s][i] \in Bar
  BY BarsOf
<1>2. \A i \in 1..(c - 1 + 1) : SubSeq(Bars[s], 1, c)[i] = Bars[s][1 + i - 1]
  <2>1. 1 \in Int /\ c \in Int
    OBVIOUS
  <2> QED BY <1>1, <2>1, SubSeqProperties
<1>3. \A i \in 1..c : 1 + i - 1 = i /\ i \in 1..(c - 1 + 1)
  OBVIOUS
<1> QED BY <1>2, <1>3 DEF SameUpTo

\* A run of bars from the first that is drawn.
Span(c) == [k0 : 1..c, k1 : 1..c]

\* The runs are the same, and within the bars shown.
LEMMA RunsAre ==
    ASSUME NEW P, NEW B, NEW c \in Nat \ {0}, SameUpTo(P, B, c), NEW tf, NEW zone, NEW hours
    PROVE  /\ Runs(P, c, tf, zone, hours) = Runs(B, c, tf, zone, hours)
           /\ Runs(B, c, tf, zone, hours) \subseteq Span(c)
           /\ \A i \in 1..c : OpenTime(P, i, tf, zone) = OpenTime(B, i, tf, zone)
<1>1. \A i \in 1..c : OpenTime(P, i, tf, zone) = OpenTime(B, i, tf, zone)
  BY DEF OpenTime, Bucket, SameUpTo
<1>2. \A i \in 1..c : HourOf(P, i, tf, zone) = HourOf(B, i, tf, zone)
  BY <1>1 DEF HourOf
<1>3. IctFrom(c) \in Nat \ {0}
  <2>1. 1 \in Int /\ c - Day * (Keep + 2) \in Int
    BY ChoicesAssumption DEF Day
  <2>2. /\ Max({1, c - Day * (Keep + 2)}) \in {1, c - Day * (Keep + 2)}
        /\ 1 <= Max({1, c - Day * (Keep + 2)})
    BY <2>1, OfTwo
  <2> QED BY <2>1, <2>2 DEF IctFrom
<1> DEFINE from == IctFrom(c)
           In(Q, i) == HourOf(Q, i, tf, zone) \in hours
           Starts(Q) == {i \in from .. c :
                            /\ In(Q, i)
                            /\ \/ i = from \/ ~In(Q, i - 1)
                               \/ OpenTime(Q, i, tf, zone) - OpenTime(Q, i - 1, tf, zone) > 6}
           Ends(Q, a) == {b \in a .. c : \A i \in (a + 1) .. b : In(Q, i) /\ i \notin Starts(Q)}
           RunsOf(Q) == {[k0 |-> a, k1 |-> Max(Ends(Q, a))] : a \in Starts(Q)}
<1>4. Runs(P, c, tf, zone, hours) = RunsOf(P) /\ Runs(B, c, tf, zone, hours) = RunsOf(B)
  BY DEF Runs
<1> HIDE DEF from
<1>5. \A i \in from..c : i \in 1..c
  BY <1>3 DEF from
<1>6. \A i \in from..c : i # from => i - 1 \in 1..c
  BY <1>3 DEF from
<1>7. \A i \in 1..c : In(P, i) <=> In(B, i)
  BY <1>2
<1>8. Starts(P) = Starts(B)
  BY <1>1, <1>5, <1>6, <1>7
<1>9. \A a \in Starts(B) : Ends(P, a) = Ends(B, a)
  <2> SUFFICES ASSUME NEW a \in Starts(B), NEW b \in a..c
               PROVE  (\A i \in (a + 1)..b : In(P, i) /\ i \notin Starts(P)) <=> (\A i \in (a + 1)..b : In(B, i) /\ i \notin Starts(B))
    OBVIOUS
  <2>1. a \in 1..c
    BY <1>5
  <2>2. \A i \in (a + 1)..b : i \in 1..c
    BY <2>1
  <2> HIDE DEF Starts, In
  <2> QED BY <1>7, <1>8, <2>2
<1>10. RunsOf(P) = RunsOf(B)
  <2> HIDE DEF Starts, Ends
  <2> QED BY <1>8, <1>9
<1>11. ASSUME NEW a \in Starts(B)
       PROVE  a \in 1..c /\ Max(Ends(B, a)) \in 1..c
  <2>1. a \in 1..c
    BY <1>5
  <2>2. a \in Ends(B, a) /\ Ends(B, a) \subseteq a..c
    BY <2>1
  <2> HIDE DEF Ends
  <2>3. Ends(B, a) \subseteq 0..c /\ Ends(B, a) # {}
    BY <2>1, <2>2
  <2>4. Max(Ends(B, a)) \in Ends(B, a)
    BY <2>3, MaxIs
  <2> QED BY <2>1, <2>2, <2>4
<1>12. RunsOf(B) \subseteq Span(c)
  <2> HIDE DEF Starts, Ends
  <2> QED BY <1>11 DEF Span
<1> QED BY <1>1, <1>4, <1>10, <1>12

\* The last bar a run can reach.
LEMMA StopIs ==
    ASSUME NEW c \in Nat \ {0}, NEW runs, runs \subseteq Span(c), NEW r \in runs
    PROVE  Stop(runs, r, c) \in 1..c
<1> DEFINE later == {q.k0 : q \in {q \in runs : q.k0 > r.k0}}
<1>1. \A q \in runs : q.k0 \in 1..c
  BY DEF Span
<1>2. later \subseteq Nat /\ \A x \in later : x \in 1..c /\ x > r.k0
  BY <1>1
<1>3. Stop(runs, r, c) = IF later = {} THEN c ELSE Min(later) - 1
  BY DEF Stop
<1> HIDE DEF later
<1>4. later # {} => Min(later) \in later
  BY <1>2, MinIs
<1>5. later # {} => Min(later) - 1 \in 1..c
  <2> DEFINE least == Min(later)
  <2>1. later # {} => least \in 1..c /\ least > r.k0
    BY <1>2, <1>4
  <2>2. r.k0 \in 1..c
    BY <1>1
  <2> HIDE DEF least
  <2>3. later # {} => least - 1 \in 1..c
    BY <2>1, <2>2
  <2> QED BY <2>3 DEF least
<1> QED BY <1>3, <1>5

\* The last bar a pivot is drawn to.
LEMMA PivotEndIs ==
    ASSUME NEW c \in Nat \ {0}, NEW r \in Span(c), NEW stop \in 1..c, NEW breaking, breaking \subseteq 1..c
    PROVE  PivotEnd(r, stop, c, breaking) \in 1..c
<1> DEFINE broken == breaking \cap (r.k1 + 1) .. stop
<1>1. r.k1 \in 1..c
  BY DEF Span
<1>2. broken \subseteq 1..c
  OBVIOUS
<1>3. Max({r.k1, stop}) \in 1..c
  <2>1. r.k1 \in Int /\ stop \in Int
    BY <1>1
  <2>2. Max({r.k1, stop}) \in {r.k1, stop}
    BY <2>1, OfTwo
  <2> QED BY <1>1, <2>2
<1>4. broken # {} => Min(broken) \in 1..c
  <2> HIDE DEF broken
  <2>1. broken \subseteq Nat
    BY <1>2
  <2> QED BY <1>2, <2>1, MinIs
<1> QED BY <1>1, <1>3, <1>4 DEF PivotEnd

\* The marks of a killzone are the same.
LEMMA KillzonesAre ==
    ASSUME NEW P, NEW B, NEW c \in Nat \ {0}, SameUpTo(P, B, c), NEW tf, NEW zone, NEW z
    PROVE  KillzoneMarks(P, c, tf, zone, z) = KillzoneMarks(B, c, tf, zone, z)
<1> DEFINE runs == Runs(B, c, tf, zone, HoursBetween(z.start, z.end))
           Above(Q, v) == {i \in 1..c : Q[i].h > v}
           Below(Q, v) == {i \in 1..c : Q[i].l < v}
           Marks(Q, r, hi, lo) ==
             {[kind |-> <<"box", z>>, from |-> OpenTime(Q, r.k0, tf, zone), to |-> OpenTime(Q, r.k1, tf, zone), hi |-> hi, lo |-> lo],
              [kind |-> <<"pivot", z>>, from |-> OpenTime(Q, r.k0, tf, zone),
               to |-> OpenTime(Q, PivotEnd(r, Stop(runs, r, c), c, Above(Q, hi)), tf, zone), hi |-> hi, lo |-> hi],
              [kind |-> <<"pivot", z>>, from |-> OpenTime(Q, r.k0, tf, zone),
               to |-> OpenTime(Q, PivotEnd(r, Stop(runs, r, c), c, Below(Q, lo)), tf, zone), hi |-> lo, lo |-> lo]}
           MarksOf(Q, r) == Marks(Q, r, Highest(Q, r), Lowest(Q, r))
<1>1. /\ Runs(P, c, tf, zone, HoursBetween(z.start, z.end)) = runs /\ runs \subseteq Span(c)
      /\ \A i \in 1..c : OpenTime(P, i, tf, zone) = OpenTime(B, i, tf, zone)
  BY RunsAre
<1>2. /\ KillzoneMarks(B, c, tf, zone, z) = UNION {MarksOf(B, r) : r \in Latest(runs)}
      /\ KillzoneMarks(P, c, tf, zone, z) = UNION {MarksOf(P, r) : r \in Latest(runs)}
  <2>1. KillzoneMarks(B, c, tf, zone, z) = UNION {MarksOf(B, r) : r \in Latest(runs)}
    BY DEF KillzoneMarks
  <2>2. KillzoneMarks(P, c, tf, zone, z) = UNION {MarksOf(P, r) : r \in Latest(runs)}
    BY <1>1 DEF KillzoneMarks
  <2> QED BY <2>1, <2>2
<1> HIDE DEF runs
<1>3. ASSUME NEW r \in Latest(runs) PROVE MarksOf(P, r) = MarksOf(B, r)
  <2>1. r \in runs /\ r \in Span(c) /\ r.k0 \in 1..c /\ r.k1 \in 1..c
    BY <1>1 DEF Latest, Span
  <2>2. \A i \in r.k0..r.k1 : P[i] = B[i]
    <3>1. \A i \in r.k0..r.k1 : i \in 1..c
      BY <2>1
    <3> QED BY <3>1 DEF SameUpTo
  <2>3. Highest(P, r) = Highest(B, r) /\ Lowest(P, r) = Lowest(B, r)
    <3>1. {P[i].h : i \in r.k0..r.k1} = {B[i].h : i \in r.k0..r.k1}
      BY <2>2
    <3>2. {P[i].l : i \in r.k0..r.k1} = {B[i].l : i \in r.k0..r.k1}
      BY <2>2
    <3> QED BY <3>1, <3>2 DEF Highest, Lowest
  <2> DEFINE hi == Highest(B, r)
             lo == Lowest(B, r)
             stop == Stop(runs, r, c)
  <2>4. Above(P, hi) = Above(B, hi) /\ Below(P, lo) = Below(B, lo)
    <3> HIDE DEF hi, lo
    <3> QED BY DEF SameUpTo
  <2>5. stop \in 1..c
    BY <1>1, <2>1, StopIs
  <2>6. PivotEnd(r, stop, c, Above(B, hi)) \in 1..c /\ PivotEnd(r, stop, c, Below(B, lo)) \in 1..c
    <3> DEFINE above == Above(B, hi)
               below == Below(B, lo)
    <3>1. above \subseteq 1..c /\ below \subseteq 1..c
      OBVIOUS
    <3> HIDE DEF above, below, stop
    <3>2. PivotEnd(r, stop, c, above) \in 1..c /\ PivotEnd(r, stop, c, below) \in 1..c
      BY <2>1, <2>5, <3>1, PivotEndIs
    <3> QED BY <3>2 DEF above, below
  <2>7. Marks(P, r, hi, lo) = Marks(B, r, hi, lo)
    <3> HIDE DEF hi, lo, stop, Above, Below
    <3>1. /\ OpenTime(P, r.k0, tf, zone) = OpenTime(B, r.k0, tf, zone)
          /\ OpenTime(P, r.k1, tf, zone) = OpenTime(B, r.k1, tf, zone)
      BY <1>1, <2>1
    <3>2. /\ OpenTime(P, PivotEnd(r, stop, c, Above(P, hi)), tf, zone) = OpenTime(B, PivotEnd(r, stop, c, Above(B, hi)), tf, zone)
          /\ OpenTime(P, PivotEnd(r, stop, c, Below(P, lo)), tf, zone) = OpenTime(B, PivotEnd(r, stop, c, Below(B, lo)), tf, zone)
      BY <1>1, <2>4, <2>6
    <3> QED BY <3>1, <3>2 DEF stop
  <2> HIDE DEF Marks
  <2> QED BY <2>3, <2>7
<1> HIDE DEF MarksOf
<1>4. {MarksOf(P, r) : r \in Latest(runs)} = {MarksOf(B, r) : r \in Latest(runs)}
  BY <1>3
<1> QED BY <1>2, <1>4

\* The opening levels are the same.
LEMMA LevelsAre ==
    ASSUME NEW P, NEW B, NEW c \in Nat \ {0}, SameUpTo(P, B, c), NEW tf, NEW zone, NEW a
    PROVE  LevelMarks(P, c, tf, zone, a) = LevelMarks(B, c, tf, zone, a)
<1> DEFINE runs == Runs(B, c, tf, zone, {a})
           Mark(Q, r) == [kind |-> <<"level", a>>, from |-> OpenTime(Q, r.k0, tf, zone),
                          to |-> OpenTime(Q, Stop(runs, r, c), tf, zone), hi |-> Q[r.k0].o, lo |-> Q[r.k0].o]
<1>1. /\ Runs(P, c, tf, zone, {a}) = runs /\ runs \subseteq Span(c)
      /\ \A i \in 1..c : OpenTime(P, i, tf, zone) = OpenTime(B, i, tf, zone)
  BY RunsAre
<1>2. LevelMarks(B, c, tf, zone, a) = {Mark(B, r) : r \in Latest(runs)}
  BY DEF LevelMarks
<1>3. LevelMarks(P, c, tf, zone, a) = {Mark(P, r) : r \in Latest(runs)}
  BY <1>1 DEF LevelMarks
<1> HIDE DEF runs
<1>4. ASSUME NEW r \in Latest(runs) PROVE Mark(P, r) = Mark(B, r)
  <2>1. r \in runs /\ r.k0 \in 1..c /\ Stop(runs, r, c) \in 1..c
    BY <1>1, StopIs DEF Latest, Span
  <2>2. P[r.k0] = B[r.k0]
    BY <2>1 DEF SameUpTo
  <2> QED BY <1>1, <2>1, <2>2
<1> HIDE DEF Mark
<1>5. {Mark(P, r) : r \in Latest(runs)} = {Mark(B, r) : r \in Latest(runs)}
  BY <1>4
<1> QED BY <1>2, <1>3, <1>5

\* The marks of the indicator are the same.
LEMMA IctIs ==
    ASSUME NEW P, NEW B, NEW c \in Nat, SameUpTo(P, B, c), NEW tf, NEW zone
    PROVE  IctModel(P, c, tf, zone) = IctModel(B, c, tf, zone)
<1>1. CASE c = 0
  BY <1>1 DEF IctModel
<1>2. CASE c # 0
  <2>1. c \in Nat \ {0}
    BY <1>2
  <2>2. {KillzoneMarks(P, c, tf, zone, z) : z \in Killzones} = {KillzoneMarks(B, c, tf, zone, z) : z \in Killzones}
    BY <2>1, KillzonesAre
  <2>3. {LevelMarks(P, c, tf, zone, a) : a \in LevelTimes} = {LevelMarks(B, c, tf, zone, a) : a \in LevelTimes}
    BY <2>1, LevelsAre
  <2> QED BY <2>2, <2>3 DEF IctModel
<1> QED BY <1>1, <1>2

\* The divergences are the same.
LEMMA SmtIs ==
    ASSUME NEW P, NEW OB, NEW oc \in Nat, SameUpTo(P, OB, oc), NEW cs, NEW tf, NEW zone
    PROVE  SmtModel(cs, P, oc, tf, zone) = SmtModel(cs, OB, oc, tf, zone)
<1>1. ASSUME NEW k, NEW hi
      PROVE  OtherNear(cs, P, oc, tf, zone, k, hi) = OtherNear(cs, OB, oc, tf, zone, k, hi)
  <2> DEFINE near == {cs[j].time : j \in Max({1, k - PivotLen}) .. Min({Len(cs), k + PivotLen})}
             Bars1(Q) == {i \in 1..oc : Bucket(Q, i, tf, zone) \in near}
  <2>1. /\ OtherNear(cs, P, oc, tf, zone, k, hi) = {IF hi THEN P[i].h ELSE P[i].l : i \in Bars1(P)}
        /\ OtherNear(cs, OB, oc, tf, zone, k, hi) = {IF hi THEN OB[i].h ELSE OB[i].l : i \in Bars1(OB)}
    BY DEF OtherNear
  <2> HIDE DEF near
  <2>2. \A i \in 1..oc : P[i] = OB[i] /\ Bucket(P, i, tf, zone) = Bucket(OB, i, tf, zone)
    BY DEF SameUpTo, Bucket
  <2>3. Bars1(P) = Bars1(OB) /\ \A i \in Bars1(OB) : P[i] = OB[i]
    BY <2>2
  <2> HIDE DEF Bars1
  <2>4. {IF hi THEN P[i].h ELSE P[i].l : i \in Bars1(P)} = {IF hi THEN OB[i].h ELSE OB[i].l : i \in Bars1(OB)}
    BY <2>3
  <2> QED BY <2>1, <2>4
<1> DEFINE Of(hi, k) == IF hi THEN cs[k].high ELSE -cs[k].low
           Inner == (PivotLen + 1) .. (Len(cs) - PivotLen)
           Pivots(hi) == {k \in Inner : \A j \in (k - PivotLen) .. (k + PivotLen) : j # k =>
                             /\ Of(hi, j) <= Of(hi, k)
                             /\ j < k => Of(hi, j) # Of(hi, k)}
           Near(Q, hi, k) == LET v == OtherNear(cs, Q, oc, tf, zone, k, hi)
                             IN  IF hi THEN Max(v) ELSE -Min(v)
           Pair(Q, hi, a, b) ==
               /\ a < b /\ \A p \in Pivots(hi) : ~(a < p /\ p < b)
               /\ OtherNear(cs, Q, oc, tf, zone, a, hi) # {} /\ OtherNear(cs, Q, oc, tf, zone, b, hi) # {}
               /\ \/ Of(hi, b) > Of(hi, a) /\ Near(Q, hi, b) < Near(Q, hi, a)
                  \/ Of(hi, b) < Of(hi, a) /\ Near(Q, hi, b) > Near(Q, hi, a)
               /\ \A j \in (a + 1) .. (b - 1) :
                     (Of(hi, j) - Of(hi, a)) * (b - a) <= (Of(hi, b) - Of(hi, a)) * (j - a)
           Pairs(Q, hi) == {p \in Pivots(hi) \X Pivots(hi) : Pair(Q, hi, p[1], p[2])}
           Lines(Q, hi) == {[k0 |-> p[1], k1 |-> p[2], bull |-> ~hi] : p \in Pairs(Q, hi)}
           Drawn(Q) == IF cs = <<>> \/ oc = 0 THEN {} ELSE UNION {Lines(Q, hi) : hi \in BOOLEAN}
<1>2. SmtModel(cs, P, oc, tf, zone) = Drawn(P) /\ SmtModel(cs, OB, oc, tf, zone) = Drawn(OB)
  BY DEF SmtModel
<1>3. ASSUME NEW hi, NEW a, NEW b PROVE Pair(P, hi, a, b) <=> Pair(OB, hi, a, b)
  <2>1. Near(P, hi, a) = Near(OB, hi, a) /\ Near(P, hi, b) = Near(OB, hi, b)
    BY <1>1
  <2> HIDE DEF Of, Pivots, Near
  <2> QED BY <1>1, <2>1
<1> HIDE DEF Pair, Pivots
<1>4. \A hi : Pairs(P, hi) = Pairs(OB, hi)
  BY <1>3
<1> HIDE DEF Pairs
<1>5. \A hi : Lines(P, hi) = Lines(OB, hi)
  BY <1>4
<1> HIDE DEF Lines
<1>6. Drawn(P) = Drawn(OB)
  <2>1. {Lines(P, hi) : hi \in BOOLEAN} = {Lines(OB, hi) : hi \in BOOLEAN}
    BY <1>5
  <2> QED BY <2>1
<1> QED BY <1>2, <1>6

\* Nothing of what the indicators draw needs a bar after the clock.
LEMMA AheadIs == TypeOK => NothingAhead
<1> SUFFICES ASSUME TypeOK, NEW k \in Shown
             PROVE  LET p == view.panes[k]
                        Past(s) == SubSeq(Bars[s], 1, cur[s])
                        o == PickOther(p.ds)
                    IN  /\ IctModel(Bars[p.ds], cur[p.ds], p.tf, view.zone) = IctModel(Past(p.ds), cur[p.ds], p.tf, view.zone)
                        /\ SmtModel(candles[k], Bars[o], cur[o], p.tf, view.zone) = SmtModel(candles[k], Past(o), cur[o], p.tf, view.zone)
  BY DEF NothingAhead
<1> DEFINE p == view.panes[k]
           Past(s) == SubSeq(Bars[s], 1, cur[s])
           o == PickOther(p.ds)
<1>1. p.ds \in Symbols
  BY Types, ViewIs DEF Shown
<1>2. o \in Symbols
  <2>1. \E x \in Symbols : x # p.ds
    BY <1>1, ChoicesAssumption
  <2> QED BY <2>1 DEF PickOther
<1>3. \A s \in Symbols : cur[s] \in Nat /\ SameUpTo(Past(s), Bars[s], cur[s])
  BY Types, PastIs DEF Clocks
<1> HIDE DEF Past, p, o
<1>4. IctModel(Past(p.ds), cur[p.ds], p.tf, view.zone) = IctModel(Bars[p.ds], cur[p.ds], p.tf, view.zone)
  BY <1>1, <1>3, IctIs
<1>5. SmtModel(candles[k], Past(o), cur[o], p.tf, view.zone) = SmtModel(candles[k], Bars[o], cur[o], p.tf, view.zone)
  BY <1>2, <1>3, SmtIs
<1> QED BY <1>4, <1>5 DEF Past, p, o

\* The indicators would draw the same if the bars ended at the clock: they
\* show nothing of the future (ict.ts and smt.ts).
THEOREM IndicatorsKnowThePast == Spec => []NothingAhead
<1>1. ChartsInv => NothingAhead
  BY AheadIs DEF ChartsInv
<1> QED BY ChartsInvariant, <1>1, PTL


-----------------------------------------------------------------------------
(* Where the clock stops, and where the drawings are.                      *)

\* One step is to the end of the candle of the next bar.
LEMMA OneStep ==
    ASSUME NEW s \in Symbols, NEW tf \in Timeframes, NEW zone \in Zones,
           cur[s] \in Nat, cur[s] < Len(Bars[s]),
           NEW e \in (cur[s] + 1)..Len(Bars[s]), e = CandleEnd(Bars[s], cur[s] + 1, tf, zone)
    PROVE  StepTarget(s, tf, 1, zone) = Bars[s][e].t
<1> DEFINE B == Bars[s]
           Steps(g) == g = [n \in 0..1 |-> IF n = 0 THEN cur[s]
                              ELSE IF g[n - 1] < Len(B) THEN CandleEnd(B, g[n - 1] + 1, tf, zone) ELSE g[n - 1]]
           at == CHOOSE g : Steps(g)
<1>1. Steps(at)
  <2> DEFINE h == [n \in 0..1 |-> IF n = 0 THEN cur[s] ELSE e]
  <2>1. h[0] = cur[s] /\ h[1] = e
    OBVIOUS
  <2>2. h = [n \in 0..1 |-> h[n]]
    OBVIOUS
  <2> HIDE DEF h
  <2>3. \A n \in 0..1 : h[n] = IF n = 0 THEN cur[s]
                               ELSE IF h[n - 1] < Len(B) THEN CandleEnd(B, h[n - 1] + 1, tf, zone) ELSE h[n - 1]
    <3> TAKE n \in 0..1
    <3>1. CASE n = 0
      BY <3>1, <2>1
    <3>2. CASE n = 1
      <4>1. h[n - 1] = cur[s]
        BY <3>2, <2>1
      <4> QED BY <3>2, <2>1, <4>1
    <3> QED BY <3>1, <3>2
  <2>4. Steps(h)
    BY <2>2, <2>3
  <2> QED BY <2>4
<1>2. StepTarget(s, tf, 1, zone) =
        LET c == at[1]
            others == {Bars[x][cur[x] + 1].t : x \in {x \in Symbols : cur[x] < Len(Bars[x])}}
        IN  CASE c > cur[s] -> B[c].t
              [] c = cur[s] /\ others # {} -> Min(others)
              [] OTHER -> None
  BY DEF StepTarget
<1> HIDE DEF at
<1>3. at[0] = cur[s] /\ at[1] = IF at[0] < Len(B) THEN CandleEnd(B, at[0] + 1, tf, zone) ELSE at[0]
  <2>1. \A n \in 0..1 : at[n] = IF n = 0 THEN cur[s]
                                ELSE IF at[n - 1] < Len(B) THEN CandleEnd(B, at[n - 1] + 1, tf, zone) ELSE at[n - 1]
    BY <1>1
  <2>2. at[0] = cur[s]
    BY <2>1
  <2>3. at[1] = IF at[1 - 1] < Len(B) THEN CandleEnd(B, at[1 - 1] + 1, tf, zone) ELSE at[1 - 1]
    <3>1. 1 \in 0..1 /\ 1 # 0
      OBVIOUS
    <3> QED BY <2>1, <3>1
  <2> QED BY <2>2, <2>3
<1>4. at[1] = e
  BY <1>3
<1>5. e > cur[s]
  OBVIOUS
<1>6. at[1] > cur[s] /\ ~(at[1] = cur[s])
  BY <1>4, <1>5
<1> QED BY <1>2, <1>4, <1>6

\* That is where the step button promises to stop.
LEMMA StepLands ==
    ASSUME NEW s \in Symbols, NEW tf \in Timeframes, NEW zone \in Zones,
           cur[s] \in Nat, cur[s] < Len(Bars[s])
    PROVE  StepTarget(s, tf, 1, zone) =
              Bars[s][Min({j \in (cur[s] + 1)..Len(Bars[s]) :
                             j = Len(Bars[s]) \/ Bucket(Bars[s], j, tf, zone) # Bucket(Bars[s], j + 1, tf, zone)})].t
<1> DEFINE B == Bars[s]
           c == cur[s]
           same == {j \in (c + 1)..Len(B) : Bucket(B, j, tf, zone) = Bucket(B, c + 1, tf, zone)}
           ends == {j \in (c + 1)..Len(B) : j = Len(B) \/ Bucket(B, j, tf, zone) # Bucket(B, j + 1, tf, zone)}
           e == CandleEnd(B, c + 1, tf, zone)
<1>1. c \in Nat /\ Len(B) \in Nat /\ DOMAIN B = 1..Len(B) /\ c + 1 <= Len(B)
  BY BarsOf
<1>2. e \in same /\ \A j \in same : j <= e
  <2>1. e = Max(same)
    BY DEF CandleEnd
  <2>2. same \subseteq 0..Len(B) /\ c + 1 \in same
    BY <1>1
  <2> HIDE DEF same, e
  <2> QED BY <2>1, <2>2, <1>1, MaxIs
<1> HIDE DEF e
<1>3. e \in (c + 1)..Len(B)
  BY <1>2
<1>4. StepTarget(s, tf, 1, zone) = B[e].t
  BY <1>3, OneStep DEF e
<1>5. e \in ends
  <2> SUFFICES ASSUME e # Len(B), Bucket(B, e, tf, zone) = Bucket(B, e + 1, tf, zone) PROVE FALSE
    BY <1>3
  <2>1. e + 1 \in same
    BY <1>1, <1>2, <1>3
  <2> QED BY <1>2, <1>3, <2>1
<1>6. ASSUME NEW j \in ends PROVE e <= j
  <2> SUFFICES ASSUME j < e PROVE FALSE
    BY <1>1, <1>3
  <2>1. /\ c + 1 \in DOMAIN B /\ j \in DOMAIN B /\ j + 1 \in DOMAIN B /\ e \in DOMAIN B
        /\ c + 1 <= j /\ j <= j + 1 /\ j + 1 <= e /\ j # Len(B)
    BY <1>1, <1>3
  <2>2. /\ Bucket(B, c + 1, tf, zone) \in Int /\ Bucket(B, j, tf, zone) \in Int /\ Bucket(B, j + 1, tf, zone) \in Int
        /\ Bucket(B, c + 1, tf, zone) <= Bucket(B, j, tf, zone)
        /\ Bucket(B, j, tf, zone) <= Bucket(B, j + 1, tf, zone)
        /\ Bucket(B, j + 1, tf, zone) <= Bucket(B, e, tf, zone)
    BY <2>1, BucketsAscend
  <2>3. Bucket(B, e, tf, zone) = Bucket(B, c + 1, tf, zone)
    BY <1>2
  <2>4. Bucket(B, j, tf, zone) = Bucket(B, j + 1, tf, zone)
    BY <2>2, <2>3
  <2> QED BY <2>1, <2>4
<1>7. Min(ends) = e
  <2>1. ends \subseteq Int
    BY <1>1
  <2> HIDE DEF ends
  <2> QED BY <1>5, <1>6, <2>1, Extremes
<1> QED BY <1>4, <1>7

\* A set of the first numbers is that of as many as it has.
LEMMA FirstOnes ==
    ASSUME NEW n \in Nat, NEW S, S \subseteq 1..n, \A i \in S : \A j \in 1..i : j \in S
    PROVE  Cardinality(S) \in 0..n /\ S = 1..Cardinality(S)
<1>1. CASE S = {}
  <2>1. Cardinality(S) = 0
    BY <1>1, FS_EmptySet
  <2> QED BY <1>1, <2>1
<1>2. CASE S # {}
  <2> DEFINE m == Max(S)
  <2>1. m \in S /\ \A x \in S : x <= m
    <3>1. S \subseteq 0..n
      OBVIOUS
    <3> QED BY <1>2, <3>1, MaxIs
  <2> HIDE DEF m
  <2>2. m \in 1..n
    BY <2>1
  <2>3. S = 1..m
    <3>1. \A i \in 1..m : i \in S
      BY <2>1
    <3>2. \A i \in S : i \in 1..m
      BY <2>1, <2>2
    <3> QED BY <3>1, <3>2
  <2>4. Cardinality(1..m) = m
    <3>1. 1 \in Int /\ m \in Int /\ m >= 1
      BY <2>2
    <3>2. Cardinality(1..m) = IF 1 > m THEN 0 ELSE m - 1 + 1
      BY <3>1, FS_Interval
    <3> QED BY <3>1, <3>2
  <2> QED BY <2>2, <2>3, <2>4
<1> QED BY <1>1, <1>2

\* A chosen candle is left at its last bar.
LEMMA ChoiceLands ==
    ASSUME NEW s \in Symbols, NEW tf \in Timeframes, NEW zone \in Zones, NEW a \in DOMAIN Bars[s],
           NEW i, i = FirstBucketAfter(Bars[s], Bucket(Bars[s], a, tf, zone), tf, zone) - 1
    PROVE  /\ Bucket(Bars[s], i, tf, zone) = Bucket(Bars[s], a, tf, zone)
           /\ i < Len(Bars[s]) => Bucket(Bars[s], i + 1, tf, zone) > Bucket(Bars[s], a, tf, zone)
<1> DEFINE B == Bars[s]
           time == Bucket(B, a, tf, zone)
           S == {j \in DOMAIN B : Bucket(B, j, tf, zone) <= time}
<1>1. DOMAIN B = 1..Len(B) /\ Len(B) \in Nat /\ a \in 1..Len(B)
  BY BarsOf
<1>2. \A j \in DOMAIN B : Bucket(B, j, tf, zone) \in Int
  BY BucketsAscend
<1>3. \A j \in S : \A k \in 1..j : k \in S
  <2> TAKE j \in S
  <2> TAKE k \in 1..j
  <2>1. k \in DOMAIN B /\ j \in DOMAIN B /\ k <= j
    BY <1>1
  <2>2. Bucket(B, k, tf, zone) <= Bucket(B, j, tf, zone)
    BY <2>1, BucketsAscend
  <2> QED BY <1>2, <2>1, <2>2
<1>4. Cardinality(S) \in 0..Len(B) /\ S = 1..Cardinality(S)
  <2>1. S \subseteq 1..Len(B)
    BY <1>1
  <2> HIDE DEF S
  <2> QED BY <1>1, <1>3, <2>1, FirstOnes
<1>5. i = Cardinality(S)
  <2>1. FirstBucketAfter(B, time, tf, zone) = Cardinality(S) + 1
    BY DEF FirstBucketAfter
  <2> QED BY <1>4, <2>1
<1>6. a \in S
  BY <1>2
<1>7. i \in S /\ a <= i /\ i \in Nat
  <2> HIDE DEF S
  <2> QED BY <1>1, <1>4, <1>5, <1>6
<1>8. Bucket(B, i, tf, zone) = time
  <2>1. i \in DOMAIN B /\ Bucket(B, i, tf, zone) <= time
    BY <1>7
  <2>2. Bucket(B, a, tf, zone) <= Bucket(B, i, tf, zone)
    BY <1>7, <2>1, BucketsAscend
  <2> QED BY <1>2, <2>1, <2>2
<1>9. ASSUME i < Len(B) PROVE Bucket(B, i + 1, tf, zone) > time
  <2>1. i + 1 \in DOMAIN B /\ i + 1 \notin 1..i
    BY <1>1, <1>7, <1>9
  <2>2. i + 1 \notin S
    <3> HIDE DEF S
    <3> QED BY <1>4, <1>5, <2>1
  <2> QED BY <1>2, <2>1, <2>2
<1> QED BY <1>8, <1>9

\* Every candle has a bar in its bucket.
LEMMA CandleHasBar ==
    ASSUME NEW p \in Pane, NEW n \in Nat, n <= Len(Bars[p.ds]), NEW zone \in Zones, NEW cs, NEW ser, NEW lk,
           Draws(cs, ser, p, n, zone, lk)
    PROVE  /\ cs \in Seq(Candle)
           /\ \A i, j \in DOMAIN cs : i < j => cs[i].time < cs[j].time
           /\ \A j \in DOMAIN cs : \E a \in DOMAIN Bars[p.ds] : Bucket(Bars[p.ds], a, p.tf, zone) = cs[j].time
<1>0. p.ds \in Symbols /\ p.tf \in Timeframes
  BY DEF Pane
<1>1. PICK f \in 1..WindowStart(n, p.tf) : AreCandles(cs, Bars[p.ds], f, n, p.tf, zone)
  BY DEF Draws
<1>2. f \in Nat \ {0}
  BY <1>0, <1>1, WindowIs
<1>3. ASSUME NEW j \in DOMAIN cs
      PROVE  \E a \in DOMAIN Bars[p.ds] : Bucket(Bars[p.ds], a, p.tf, zone) = cs[j].time
  <2>1. PICK a \in f..n, b \in f..n :
           /\ a <= b
           /\ \A i \in f..n : Bucket(Bars[p.ds], i, p.tf, zone) = cs[j].time <=> a <= i /\ i <= b
    BY <1>1 DEF AreCandles, IsCandle
  <2>2. Bucket(Bars[p.ds], a, p.tf, zone) = cs[j].time
    BY <2>1
  <2>3. a \in DOMAIN Bars[p.ds]
    BY <1>0, <1>2, BarsOf
  <2> QED BY <2>2, <2>3
<1> QED BY <1>1, <1>3 DEF AreCandles

\* A time is drawn on the candle that opens at it.
LEMMA PlaceIs ==
    ASSUME NEW cs \in Seq(Candle), \A i, j \in DOMAIN cs : i < j => cs[i].time < cs[j].time,
           NEW j \in DOMAIN cs, NEW tf \in Nat, NEW x, x = TimeToLogical(cs, tf, cs[j].time)
    PROVE  x[1] = (j - 1) * x[2]
<1> DEFINE n == Len(cs)
           before == {i \in 1..n : cs[i].time <= cs[j].time}
<1>1. n \in Nat /\ DOMAIN cs = 1..n /\ j \in 1..n
  BY LenProperties
<1>2. \A i \in 1..n : cs[i].time \in Int
  <2>1. \A i \in 1..n : cs[i] \in Candle
    BY <1>1, ElementOfSeq
  <2> QED BY <2>1 DEF Candle
<1>3. Max(before \cup {0}) = j
  <2> DEFINE S == before \cup {0}
  <2>1. S \subseteq Int /\ j \in S
    BY <1>1, <1>2
  <2>2. \A i \in S : i <= j
    <3> SUFFICES ASSUME NEW i \in before, j < i PROVE FALSE
      BY <1>1
    <3>1. cs[j].time < cs[i].time
      BY <1>1
    <3> QED BY <1>1, <1>2, <3>1
  <2> HIDE DEF S
  <2>3. Max(S) = j
    BY <2>1, <2>2, Extremes
  <2> QED BY <2>3 DEF S
<1>4. x = CASE j = 0 -> <<cs[j].time - cs[1].time, tf>>
            [] j = n -> <<(n - 1) * tf + cs[j].time - cs[n].time, tf>>
            [] OTHER -> LET w == cs[j + 1].time - cs[j].time IN <<(j - 1) * w + cs[j].time - cs[j].time, w>>
  BY <1>3 DEF TimeToLogical
<1>5. CASE j = n
  <2>1. x = <<(n - 1) * tf + cs[n].time - cs[n].time, tf>>
    BY <1>1, <1>4, <1>5
  <2>2. cs[n].time \in Int /\ (n - 1) * tf \in Int
    BY <1>1, <1>2, <1>5
  <2>3. (n - 1) * tf + cs[n].time - cs[n].time = (n - 1) * tf
    BY <2>2
  <2> QED BY <1>5, <2>1, <2>3
<1>6. CASE j # n
  <2> DEFINE w == cs[j + 1].time - cs[j].time
  <2>1. x = <<(j - 1) * w + cs[j].time - cs[j].time, w>>
    BY <1>1, <1>4, <1>6
  <2>2. j + 1 \in 1..n /\ w \in Int /\ j - 1 \in Int /\ cs[j].time \in Int
    BY <1>1, <1>2, <1>6
  <2> HIDE DEF w
  <2>3. (j - 1) * w + cs[j].time - cs[j].time = (j - 1) * w
    BY <2>2
  <2> QED BY <2>1, <2>3
<1> QED BY <1>5, <1>6

\* The time of a candle, in UTC and back.
LEMMA ThereAndBack ==
    ASSUME NEW s \in Symbols, NEW tf \in Timeframes, NEW zone \in Zones, NEW a \in DOMAIN Bars[s],
           NEW cs, NEW j, cs[j].time = Bucket(Bars[s], a, tf, zone)
    PROVE  XOfTime(cs, tf, zone, CandleAt(cs, tf, zone, j)) = TimeToLogical(cs, tf, cs[j].time)
<1> DEFINE lt == Bucket(Bars[s], a, tf, zone) - DayShift(tf, zone)
<1>1. Bucket(Bars[s], a, tf, zone) \in Int /\ DayShift(tf, zone) \in Int
  BY BucketsAscend DEF DayShift
<1>2. ToLocal(LocalToUtc(lt, zone), zone) = lt
  BY NoneOpensAtAChange
<1>3. lt + DayShift(tf, zone) = cs[j].time
  BY <1>1
<1>4. CandleAt(cs, tf, zone, j) = LocalToUtc(lt, zone)
  BY DEF CandleAt
<1> HIDE DEF lt
<1> QED BY <1>2, <1>3, <1>4 DEF XOfTime

\* What is drawn keeps its candle.
LEMMA Anchored == ChartsInv => AnchorsHold
<1> SUFFICES ASSUME ChartsInv, NEW k \in Shown, NEW j \in DOMAIN candles[k]
             PROVE  LET p == view.panes[k]
                        x == XOfTime(candles[k], p.tf, view.zone, CandleAt(candles[k], p.tf, view.zone, j))
                    IN  x[1] = (j - 1) * x[2]
  BY DEF AnchorsHold
<1> DEFINE p == view.panes[k]
           cs == candles[k]
<1>1. p \in Pane /\ p.ds \in Symbols /\ p.tf \in Timeframes /\ view.zone \in Zones /\ p.tf \in Nat
  BY Types, ViewIs, ChoicesAssumption DEF ChartsInv, Shown
<1>2. cur[p.ds] \in Nat /\ cur[p.ds] <= Len(Bars[p.ds])
  BY <1>1 DEF ChartsInv, TypeOK
<1>3. Draws(cs, series[k], p, cur[p.ds], view.zone, look)
  BY DEF ChartsInv
<1> HIDE DEF p, cs
<1>4. /\ cs \in Seq(Candle)
      /\ \A i, l \in DOMAIN cs : i < l => cs[i].time < cs[l].time
      /\ \A l \in DOMAIN cs : \E a \in DOMAIN Bars[p.ds] : Bucket(Bars[p.ds], a, p.tf, view.zone) = cs[l].time
  BY <1>1, <1>2, <1>3, CandleHasBar
<1>5. j \in DOMAIN cs
  BY DEF cs
<1>6. PICK a \in DOMAIN Bars[p.ds] : Bucket(Bars[p.ds], a, p.tf, view.zone) = cs[j].time
  BY <1>4, <1>5
<1> DEFINE x == XOfTime(cs, p.tf, view.zone, CandleAt(cs, p.tf, view.zone, j))
<1>7. x = TimeToLogical(cs, p.tf, cs[j].time)
  BY <1>1, <1>6, ThereAndBack
<1> HIDE DEF x
<1>8. x[1] = (j - 1) * x[2]
  BY <1>1, <1>4, <1>5, <1>7, PlaceIs
<1> QED BY <1>8 DEF x, p, cs

\* A point put on a candle is drawn on that candle, in every zone and on
\* every timeframe (makeProjector).
THEOREM DrawingsKeepTheirCandles == Spec => []AnchorsHold
BY ChartsInvariant, Anchored, PTL

\* A step stops at the nearest end of a candle (stepTarget).
LEMMA StepsLand == TypeOK => StepsLandRight
<1> SUFFICES ASSUME TypeOK, NEW tf \in Timeframes, cur[ActiveDs] < Len(Bars[ActiveDs])
             PROVE  StepTarget(ActiveDs, tf, 1, view.zone) =
                      Bars[ActiveDs][Min({j \in (cur[ActiveDs] + 1)..Len(Bars[ActiveDs]) :
                        \/ j = Len(Bars[ActiveDs])
                        \/ Bucket(Bars[ActiveDs], j, tf, view.zone) # Bucket(Bars[ActiveDs], j + 1, tf, view.zone)})].t
  BY DEF StepsLandRight
<1>1. ActiveDs \in Symbols /\ view.zone \in Zones
  BY Types, ViewIs DEF ActiveDs
<1>2. cur[ActiveDs] \in Nat
  BY <1>1, Types DEF Clocks
<1> QED BY <1>1, <1>2, StepLands

\* A chosen candle is left at its last bar (selectBar).
LEMMA ChoicesLand == ChartsInv => ChoicesLandRight
<1> SUFFICES ASSUME ChartsInv, NEW k \in Shown, NEW j \in DOMAIN candles[k]
             PROVE  LET p == view.panes[k]
                        i == SelectTarget(k, j)
                    IN  /\ Bucket(Bars[p.ds], i, p.tf, view.zone) = candles[k][j].time
                        /\ i < Len(Bars[p.ds]) => Bucket(Bars[p.ds], i + 1, p.tf, view.zone) > candles[k][j].time
  BY DEF ChoicesLandRight
<1> DEFINE p == view.panes[k]
           i == SelectTarget(k, j)
<1>1. p \in Pane /\ p.ds \in Symbols /\ p.tf \in Timeframes /\ view.zone \in Zones
  BY Types, ViewIs DEF ChartsInv, Shown
<1>2. cur[p.ds] \in Nat /\ cur[p.ds] <= Len(Bars[p.ds])
  BY <1>1 DEF ChartsInv, TypeOK
<1>3. Draws(candles[k], series[k], p, cur[p.ds], view.zone, look)
  BY DEF ChartsInv
<1>4. i = FirstBucketAfter(Bars[p.ds], candles[k][j].time, p.tf, view.zone) - 1
  BY DEF SelectTarget
<1> HIDE DEF p, i
<1>5. PICK a \in DOMAIN Bars[p.ds] : Bucket(Bars[p.ds], a, p.tf, view.zone) = candles[k][j].time
  BY <1>1, <1>2, <1>3, CandleHasBar
<1>6. /\ Bucket(Bars[p.ds], i, p.tf, view.zone) = candles[k][j].time
      /\ i < Len(Bars[p.ds]) => Bucket(Bars[p.ds], i + 1, p.tf, view.zone) > candles[k][j].time
  BY <1>1, <1>4, <1>5, ChoiceLands
<1> QED BY <1>6 DEF p, i

-----------------------------------------------------------------------------
(* Jumps: the moments of a session on New York's clock, and the bars.      *)

\* New York's clock never goes back by the change at the end of summer as far
\* as whole hours tell, and a moment the other change skips stays in its day.
LEMMA NyClock ==
    ASSUME NEW a \in Int, NEW b \in Int, a <= b
    PROVE  /\ NyLocal(a) \in Int /\ NyLocal(a) <= NyLocal(b)
           /\ NyToUtc(a) \in Int /\ NyToUtc(a) <= NyToUtc(b)
           /\ NyLocal(NyToUtc(a)) <= a /\ a \div Day <= NyLocal(NyToUtc(a)) \div Day
           /\ a >= Day => NyLocal(a) \div Day >= 0
<1> DEFINE Summer(t) == t >= DstStart /\ t < DstEnd
<1>0. DstStart \in Int /\ DstEnd \in Int /\ (DstStart - 5) % 24 = 2
  BY TimesAssumption DEF Day
<1>1. \A t \in Int : NyLocal(t) = IF Summer(t) THEN t - 4 ELSE t - 5
  BY DEF NyLocal, ToLocal, ZoneOffset
<1>2. \A t \in Int : NyToUtc(t) = IF Summer(t + 5) THEN t + 4 ELSE t + 5
  BY <1>0 DEF NyToUtc, ZoneOffset
<1>3. NyLocal(a) \in Int /\ NyLocal(a) <= NyLocal(b)
  BY <1>0, <1>1
<1>4. NyToUtc(a) \in Int /\ NyToUtc(a) <= NyToUtc(b)
  BY <1>0, <1>2
<1>5. NyLocal(NyToUtc(a)) = a \/ (a = DstStart - 5 /\ NyLocal(NyToUtc(a)) = a - 1)
  BY <1>0, <1>1, <1>2
<1>6. a = DstStart - 5 => (a - 1) \div 24 = a \div 24
  BY <1>0
<1>7. a \div 24 <= NyLocal(NyToUtc(a)) \div 24
  BY <1>5, <1>6
<1>8. a >= Day => NyLocal(a) \div Day >= 0
  <2> SUFFICES ASSUME a >= 24 PROVE NyLocal(a) \div 24 >= 0
    BY DEF Day
  <2>1. NyLocal(a) >= 0
    BY <1>0, <1>1
  <2> QED BY <2>1, <1>3
<1> QED BY <1>3, <1>4, <1>5, <1>7, <1>8 DEF Day

\* A symbol's bars come one after the other in UTC too.
LEMMA UtcAscends ==
    ASSUME NEW s \in Symbols, NEW i \in DOMAIN Bars[s], NEW j \in DOMAIN Bars[s]
    PROVE  Bars[s][i].t \in Int /\ (i < j => Bars[s][i].t < Bars[s][j].t)
<1>1. Bars[s][i].t \in Int /\ Bars[s][j].t \in Int
  BY BarsOf DEF Bar
<1>2. ASSUME i < j PROVE Bars[s][i].t < Bars[s][j].t
  <2>1. ToLocal(Bars[s][i].t, "NY") < ToLocal(Bars[s][j].t, "NY")
    BY <1>2, BarsAscend, ChoicesAssumption
  <2>2. /\ NyLocal(Bars[s][i].t) < NyLocal(Bars[s][j].t)
        /\ NyLocal(Bars[s][i].t) \in Int /\ NyLocal(Bars[s][j].t) \in Int
    BY <1>1, <2>1, NyClock DEF NyLocal
  <2>3. Bars[s][j].t <= Bars[s][i].t => NyLocal(Bars[s][j].t) <= NyLocal(Bars[s][i].t)
    BY <1>1, NyClock
  <2> QED BY <1>1, <2>2, <2>3
<1> QED BY <1>1, <1>2

\* The bars before a time are those before LowerBound.
LEMMA LowerBoundIs ==
    ASSUME NEW s \in Symbols, NEW t \in Int
    PROVE  /\ LowerBound(Bars[s], t) \in 1..(Len(Bars[s]) + 1)
           /\ \A i \in DOMAIN Bars[s] : Bars[s][i].t < t <=> i < LowerBound(Bars[s], t)
<1> DEFINE B == Bars[s]
           S == {i \in DOMAIN B : B[i].t < t}
<1>1. DOMAIN B = 1..Len(B) /\ Len(B) \in Nat
  BY BarsOf
<1>2. \A i \in S : \A j \in 1..i : j \in S
  <2> TAKE i \in S
  <2> TAKE j \in 1..i
  <2>1. i \in DOMAIN B /\ j \in DOMAIN B /\ (j < i \/ j = i)
    BY <1>1
  <2>2. B[i].t \in Int /\ B[j].t \in Int /\ (j < i => B[j].t < B[i].t)
    BY <2>1, UtcAscends
  <2> QED BY <2>1, <2>2
<1>3. Cardinality(S) \in 0..Len(B) /\ S = 1..Cardinality(S)
  <2>1. S \subseteq 1..Len(B)
    BY <1>1
  <2> HIDE DEF S
  <2> QED BY <1>1, <1>2, <2>1, FirstOnes
<1>4. LowerBound(B, t) = Cardinality(S) + 1
  BY DEF LowerBound
<1>5. \A i \in DOMAIN B : B[i].t < t <=> i \in S
  OBVIOUS
<1> HIDE DEF S
<1>6. \A i \in DOMAIN B : i \in S <=> i < Cardinality(S) + 1
  BY <1>1, <1>3
<1> QED BY <1>1, <1>3, <1>4, <1>5, <1>6

\* The first bar at or after a moment, from the bar before it.
LEMMA FirstBar ==
    ASSUME NEW s \in Symbols, NEW t \in Int, NEW i \in DOMAIN Bars[s], i > 1
    PROVE  LowerBound(Bars[s], t) = i <=> t <= Bars[s][i].t /\ Bars[s][i - 1].t < t
<1> DEFINE l == LowerBound(Bars[s], t)
<1>1. i \in Int /\ i - 1 \in DOMAIN Bars[s] /\ Bars[s][i].t \in Int /\ Bars[s][i - 1].t \in Int
  <2>1. i - 1 \in DOMAIN Bars[s] /\ i \in Int
    BY BarsOf
  <2> QED BY <2>1, UtcAscends
<1>2. l \in Int
  BY LowerBoundIs, BarsOf
<1>3. (Bars[s][i].t < t <=> i < l) /\ (Bars[s][i - 1].t < t <=> i - 1 < l)
  BY <1>1, LowerBoundIs
<1> HIDE DEF l
<1>4. (l = i) <=> ~(i < l) /\ i - 1 < l
  BY <1>1, <1>2
<1>5. t <= Bars[s][i].t <=> ~(Bars[s][i].t < t)
  BY <1>1
<1> QED BY <1>3, <1>4, <1>5 DEF l

\* Days and hours.
LEMMA DayOf ==
    ASSUME NEW d \in Int, NEW m \in 0..23
    PROVE  d * Day + m \in Int /\ (d * Day + m) \div Day = d
BY DEF Day

\* A weekday is one of seven.
LEMMA WeekdayIs ==
    ASSUME NEW lt \in Int, NEW open \in Int
    PROVE  Weekday(TradingDay(lt, open)) \in 0..6
<1>1. TradingDay(lt, open) \in Int
  BY DEF TradingDay, Day
<1> QED BY <1>1 DEF Weekday

\* The moments nextJump considers, and the bars a jump may stop at.
Hits(B, c, times, open, skip) ==
    {lt \in Moments(times, open, skip, NyLocal(B[Max({1, c})].t) \div Day, NyLocal(Last(B).t) \div Day) :
        /\ NyToUtc(lt) > B[Max({1, c})].t
        /\ LET i == LowerBound(B, NyToUtc(lt))
           IN  i > Len(B) \/ (i > c /\ SameDay(B[i].t, lt, open))}

Stops(B, c, times, open, skip) == {i \in (Max({1, c}) + 1)..Len(B) : Opens(B, i, times, open, skip)}

\* The bar the clock is at, or the first one.
LEMMA Here ==
    ASSUME NEW s \in Symbols, NEW c \in 0..Len(Bars[s])
    PROVE  Max({1, c}) \in DOMAIN Bars[s] /\ c <= Max({1, c}) /\ (c >= 1 => Max({1, c}) = c)
<1>1. DOMAIN Bars[s] = 1..Len(Bars[s]) /\ Len(Bars[s]) \in Nat \ {0}
  BY BarsOf
<1>2. Max({1, c}) \in {1, c} /\ 1 <= Max({1, c}) /\ c <= Max({1, c})
  <2>1. 1 \in Int /\ c \in Int
    BY <1>1
  <2> QED BY <2>1, OfTwo
<1> QED BY <1>1, <1>2

\* The clock of New York at a bar and at a later one.
LEMMA BarsClock ==
    ASSUME NEW s \in Symbols, NEW i \in DOMAIN Bars[s], NEW j \in DOMAIN Bars[s], i <= j
    PROVE  /\ Bars[s][i].t \in Int /\ Bars[s][j].t \in Int /\ Bars[s][i].t <= Bars[s][j].t
           /\ NyLocal(Bars[s][i].t) \div Day \in Nat
           /\ NyLocal(Bars[s][j].t) \div Day \in Nat
           /\ NyLocal(Bars[s][i].t) \div Day <= NyLocal(Bars[s][j].t) \div Day
<1>1. i \in Int /\ j \in Int
  BY BarsOf
<1>2. Bars[s][i].t \in Int /\ Bars[s][j].t \in Int /\ Bars[s][i].t <= Bars[s][j].t
  BY <1>1, UtcAscends
<1>3. Bars[s][i].t >= Day /\ Bars[s][j].t >= Day
  BY TimesAssumption
<1> DEFINE x == NyLocal(Bars[s][i].t)
           y == NyLocal(Bars[s][j].t)
<1>4. x \in Int /\ y \in Int /\ x <= y /\ x \div Day >= 0 /\ y \div Day >= 0
  BY <1>2, <1>3, NyClock
<1> HIDE DEF x, y
<1>5. x \div Day \in Nat /\ y \div Day \in Nat /\ x \div Day <= y \div Day
  BY <1>4 DEF Day
<1> QED BY <1>2, <1>5 DEF x, y

\* A moment stops the clock at the first bar at or after it.
LEMMA HitStops ==
    ASSUME NEW s \in Symbols, NEW c \in 0..Len(Bars[s]), NEW times \in SUBSET (0..23), NEW open, NEW skip,
           NEW lt \in Hits(Bars[s], c, times, open, skip)
    PROVE  /\ lt \in Nat
           /\ LowerBound(Bars[s], NyToUtc(lt)) <= Len(Bars[s]) =>
                 LowerBound(Bars[s], NyToUtc(lt)) \in Stops(Bars[s], c, times, open, skip)
<1> DEFINE B == Bars[s]
           here == Max({1, c})
           from == NyLocal(B[here].t) \div Day
           to == NyLocal(Last(B).t) \div Day
           u == NyToUtc(lt)
           i == LowerBound(B, u)
<1>1. here \in DOMAIN B /\ c <= here
  BY Here
<1>2. DOMAIN B = 1..Len(B) /\ Len(B) \in Nat \ {0}
  BY BarsOf
<1>3. from \in Nat /\ B[here].t \in Int
  BY <1>1, BarsClock
<1>4. PICK d \in from..to, m \in times : lt = d * Day + m
  <2>1. lt \in Moments(times, open, skip, from, to)
    BY DEF Hits
  <2> HIDE DEF from, to
  <2>2. lt \in {d * Day + m : d \in from..to, m \in times}
    BY <2>1 DEF Moments
  <2> QED BY <2>2
<1>5. d \in Nat /\ m \in 0..23
  <2>1. to \in Nat
    <3>1. Len(B) \in DOMAIN B /\ Last(B) = B[Len(B)]
      BY <1>2 DEF Last
    <3> QED BY <3>1, BarsClock
  <2> HIDE DEF from, to
  <2> QED BY <1>3, <1>4, <2>1
<1>6. lt \in Nat /\ lt \div Day = d
  BY <1>4, <1>5, DayOf DEF Day
<1>7. /\ u > B[here].t /\ (i > Len(B) \/ (i > c /\ SameDay(B[i].t, lt, open)))
      /\ Weekday(TradingDay(lt, open)) \notin skip
  BY DEF Hits, Moments
<1>8. u \in Int /\ NyLocal(u) \in Int /\ d <= NyLocal(u) \div Day
  <2>1. lt \in Int /\ lt <= lt
    BY <1>6
  <2>2. u \in Int /\ lt \div Day <= NyLocal(u) \div Day
    BY <2>1, NyClock
  <2>3. NyLocal(u) \in Int
    BY <2>2, NyClock
  <2> QED BY <1>6, <2>2, <2>3
<1> HIDE DEF u, i, from, to, here
<1>9. ASSUME i <= Len(B) PROVE i \in Stops(B, c, times, open, skip)
  <2>1. i \in 1..(Len(B) + 1) /\ \A j \in DOMAIN B : B[j].t < u <=> j < i
    BY <1>8, LowerBoundIs DEF i
  <2>2. here < i
    BY <1>1, <1>7, <2>1
  <2>3. i \in DOMAIN B /\ i > 1 /\ i - 1 \in DOMAIN B
    BY <1>1, <1>2, <1>9, <2>1, <2>2
  <2>4. u <= B[i].t /\ B[i - 1].t < u
    BY <1>8, <2>3, FirstBar DEF i
  <2>5. d \in 0..(NyLocal(B[i].t) \div Day)
    <3>1. B[i].t \in Int /\ NyLocal(B[i].t) \div Day \in Nat
      BY <2>3, BarsClock
    <3>2. NyLocal(u) <= NyLocal(B[i].t) /\ NyLocal(B[i].t) \in Int
      <4> DEFINE t == B[i].t
      <4>1. t \in Int /\ u <= t /\ t <= t
        BY <2>4, <3>1
      <4> HIDE DEF t
      <4>2. NyLocal(u) <= NyLocal(t)
        BY <1>8, <4>1, NyClock
      <4>3. NyLocal(t) \in Int
        BY <4>1, NyClock
      <4> QED BY <4>2, <4>3 DEF t
    <3> DEFINE x == NyLocal(u)
               y == NyLocal(B[i].t)
    <3> HIDE DEF x, y
    <3>3. x \in Int /\ y \in Int /\ x <= y
      BY <1>8, <3>2 DEF x, y
    <3>4. x \div 24 <= y \div 24 /\ x \div 24 \in Int /\ y \div 24 \in Int
      BY <3>3
    <3> QED BY <1>5, <1>8, <3>4 DEF x, y, Day
  <2>6. TradingDay(lt, open) = TradingDay(NyLocal(B[i].t), open)
    BY <1>7, <1>9, <2>1 DEF SameDay
  <2>7. Opens(B, i, times, open, skip)
    BY <1>4, <1>7, <2>4, <2>5, <2>6 DEF Opens, u
  <2>8. i \in (here + 1)..Len(B)
    BY <1>1, <1>2, <1>9, <2>1, <2>2
  <2> QED BY <2>7, <2>8 DEF Stops, here
<1> QED BY <1>6, <1>9 DEF i, u

\* The first bars at or after these moments.
HitBars(B, c, times, open, skip) == {LowerBound(B, NyToUtc(lt)) : lt \in Hits(B, c, times, open, skip)}

\* Every bar a jump may stop at is that of a moment.
LEMMA StopHit ==
    ASSUME NEW s \in Symbols, NEW c \in 0..Len(Bars[s]), NEW times \in SUBSET (0..23), NEW open, NEW skip,
           NEW i \in Stops(Bars[s], c, times, open, skip)
    PROVE  i \in HitBars(Bars[s], c, times, open, skip)
<1> DEFINE B == Bars[s]
           here == Max({1, c})
           from == NyLocal(B[here].t) \div Day
           to == NyLocal(Last(B).t) \div Day
<1>1. here \in DOMAIN B /\ c <= here
  BY Here
<1>2. DOMAIN B = 1..Len(B) /\ Len(B) \in Nat \ {0} /\ Last(B) = B[Len(B)]
  BY BarsOf DEF Last
<1>3. i \in (here + 1)..Len(B) /\ Opens(B, i, times, open, skip)
  BY DEF Stops
<1>4. PICK d \in 0..(NyLocal(B[i].t) \div Day), m \in times :
        /\ NyToUtc(d * Day + m) <= B[i].t /\ (i > 1 => B[i - 1].t < NyToUtc(d * Day + m))
        /\ TradingDay(d * Day + m, open) = TradingDay(NyLocal(B[i].t), open)
        /\ Weekday(TradingDay(d * Day + m, open)) \notin skip
  BY <1>3 DEF Opens
<1> DEFINE lt == d * Day + m
           u == NyToUtc(lt)
<1> HIDE DEF here
<1>5. /\ i \in DOMAIN B /\ i - 1 \in DOMAIN B /\ i > 1 /\ here <= i - 1 /\ i <= Len(B) /\ i > c /\ i \in Int
      /\ Len(B) \in DOMAIN B
  BY <1>1, <1>2, <1>3
<1>6. NyLocal(B[i].t) \div Day \in Nat /\ NyLocal(B[i].t) \div Day <= to
  BY <1>2, <1>5, BarsClock
<1>7. lt \in Int /\ lt \div Day = d
  <2>1. d \in Int /\ m \in 0..23
    <3> DEFINE x == NyLocal(B[i].t) \div Day
    <3>1. x \in Nat /\ d \in 0..x
      BY <1>4, <1>6
    <3> HIDE DEF x
    <3> QED BY <3>1
  <2> QED BY <2>1, DayOf
<1>8. from \in Nat /\ B[here].t \in Int /\ B[i - 1].t \in Int /\ B[here].t <= B[i - 1].t
  BY <1>1, <1>5, BarsClock
<1>9. u \in Int /\ NyLocal(u) \in Int /\ NyLocal(u) <= lt
  <2>1. u \in Int /\ NyLocal(u) <= lt
    BY <1>7, NyClock
  <2> QED BY <2>1, NyClock
<1>10. u > B[here].t
  BY <1>4, <1>5, <1>8, <1>9
<1>11. d \in from..to
  <2>1. NyLocal(B[here].t) <= NyLocal(u) /\ NyLocal(B[here].t) \in Int
    <3> DEFINE t == B[here].t
    <3>1. t \in Int /\ t <= u /\ u \in Int
      BY <1>8, <1>9, <1>10
    <3> HIDE DEF t, u
    <3>2. NyLocal(t) <= NyLocal(u) /\ NyLocal(t) \in Int
      BY <3>1, NyClock
    <3> QED BY <3>2 DEF t
  <2> DEFINE x == NyLocal(B[here].t)
  <2> HIDE DEF x, lt
  <2>2. x \in Int /\ x <= lt
    BY <1>7, <1>9, <2>1 DEF x
  <2>3. x \div 24 <= lt \div 24 /\ x \div 24 \in Int
    BY <1>7, <2>2
  <2>4. d \in Int /\ d <= to /\ to \in Int
    <3>1. to \in Nat
      BY <1>2, <1>5, BarsClock
    <3> QED BY <1>4, <1>6, <3>1
  <2> QED BY <1>7, <1>8, <2>3, <2>4 DEF x, Day
<1>12. LowerBound(B, u) = i
  BY <1>4, <1>5, <1>9, FirstBar
<1>13. lt \in Moments(times, open, skip, from, to)
  BY <1>4, <1>11 DEF Moments
<1>14. SameDay(B[i].t, lt, open)
  BY <1>4 DEF SameDay
<1>15. lt \in Hits(B, c, times, open, skip)
  <2> HIDE DEF lt, from, to
  <2> QED BY <1>5, <1>10, <1>12, <1>13, <1>14 DEF Hits, here, from, to
<1> QED BY <1>12, <1>15 DEF HitBars

\* A jump stops at the first bar it may stop at, nowhere if there is none.
LEMMA JumpLands ==
    ASSUME NEW s \in Symbols, NEW c \in 0..Len(Bars[s]), NEW times \in SUBSET (0..23),
           NEW open \in 0..23, NEW skip \in SUBSET (0..6)
    PROVE  NextJump(Bars[s], c, times, open, skip) =
             IF Stops(Bars[s], c, times, open, skip) = {} THEN None ELSE Min(Stops(Bars[s], c, times, open, skip))
<1> DEFINE B == Bars[s]
           next == Stops(B, c, times, open, skip)
           hits == Hits(B, c, times, open, skip)
           i == LowerBound(B, NyToUtc(Min(hits)))
<1> SUFFICES NextJump(B, c, times, open, skip) = IF next = {} THEN None ELSE Min(next)
  OBVIOUS
<1>1. NextJump(B, c, times, open, skip) =
        IF c = Len(B) \/ skip = 0..6 \/ hits = {} THEN None ELSE IF i > Len(B) THEN None ELSE i
  BY DEF NextJump, Hits
<1>2. \A lt \in hits : /\ lt \in Nat
                       /\ LowerBound(B, NyToUtc(lt)) <= Len(B) => LowerBound(B, NyToUtc(lt)) \in next
  BY HitStops
<1>3. \A j \in next : \E lt \in hits : LowerBound(B, NyToUtc(lt)) = j
  <2> TAKE j \in next
  <2>1. j \in HitBars(B, c, times, open, skip)
    BY StopHit
  <2> QED BY <2>1 DEF HitBars
<1>4. DOMAIN B = 1..Len(B) /\ Len(B) \in Nat \ {0}
  BY BarsOf
<1>5. next \subseteq Nat /\ \A j \in next : j > c /\ j <= Len(B)
  <2>1. next \subseteq (Max({1, c}) + 1)..Len(B)
    BY DEF Stops
  <2>2. Max({1, c}) \in 1..Len(B) /\ c <= Max({1, c})
    BY <1>4, Here
  <2> DEFINE m == Max({1, c})
  <2> HIDE DEF m
  <2>3. next \subseteq (m + 1)..Len(B) /\ m \in 1..Len(B) /\ c <= m
    BY <2>1, <2>2 DEF m
  <2> QED BY <1>4, <2>3
<1>6. \A lt \in Int : /\ NyToUtc(lt) \in Int /\ LowerBound(B, NyToUtc(lt)) \in 1..(Len(B) + 1)
                      /\ \A j \in DOMAIN B : B[j].t < NyToUtc(lt) <=> j < LowerBound(B, NyToUtc(lt))
  <2> TAKE lt \in Int
  <2>1. NyToUtc(lt) \in Int
    BY NyClock
  <2> QED BY <2>1, LowerBoundIs
<1>7. next # {} => skip # 0..6
  <2> SUFFICES ASSUME skip = 0..6, NEW j \in next PROVE FALSE
    OBVIOUS
  <2>1. PICK lt \in hits : LowerBound(B, NyToUtc(lt)) = j
    BY <1>3
  <2>2. Weekday(TradingDay(lt, open)) \notin skip
    BY <2>1 DEF Hits, Moments
  <2>3. lt \in Int /\ open \in Int
    BY <1>2
  <2> QED BY <2>2, <2>3, WeekdayIs
<1> HIDE DEF hits, i, next
<1>8. hits # {} => Min(hits) \in hits /\ Min(hits) \in Nat /\ \A lt \in hits : Min(hits) <= lt
  <2>1. hits \subseteq Nat
    BY <1>2
  <2> QED BY <2>1, MinIs
<1>9. CASE next = {}
  <2>1. hits # {} => ~(i <= Len(B)) /\ i \in Int
    <3> SUFFICES ASSUME hits # {} PROVE ~(i <= Len(B)) /\ i \in Int
      OBVIOUS
    <3>1. Min(hits) \in hits /\ Min(hits) \in Int
      BY <1>8
    <3>2. i \in 1..(Len(B) + 1)
      BY <1>6, <3>1 DEF i
    <3>3. i <= Len(B) => i \in next
      BY <1>2, <3>1 DEF i
    <3> QED BY <1>4, <1>9, <3>2, <3>3
  <2>2. hits # {} => i > Len(B)
    BY <1>4, <2>1
  <2> QED BY <1>1, <1>9, <2>2
<1>10. CASE next # {}
  <2> DEFINE j == Min(next)
  <2>1. j \in next /\ \A x \in next : j <= x
    BY <1>5, <1>10, MinIs
  <2> HIDE DEF j
  <2>2. PICK lt \in hits : LowerBound(B, NyToUtc(lt)) = j
    BY <1>3, <2>1
  <2>3. c # Len(B) /\ skip # 0..6 /\ hits # {} /\ j \in Nat /\ j <= Len(B)
    BY <1>4, <1>5, <1>7, <2>1, <2>2
  <2>4. Min(hits) \in Nat /\ lt \in Nat /\ Min(hits) <= lt /\ Min(hits) \in hits
    BY <1>2, <1>8, <2>2
  <2> DEFINE u == NyToUtc(Min(hits))
             v == NyToUtc(lt)
  <2>5. u \in Int /\ v \in Int /\ u <= v
    BY <2>4, NyClock
  <2>6. i \in 1..(Len(B) + 1) /\ \A x \in DOMAIN B : B[x].t < u <=> x < i
    <3>1. Min(hits) \in Int
      BY <2>4
    <3> QED BY <1>6, <3>1 DEF i
  <2>7. \A x \in DOMAIN B : B[x].t < v <=> x < j
    <3>1. lt \in Int
      BY <2>4
    <3> QED BY <1>6, <2>2, <3>1
  <2>8. j \in DOMAIN B /\ B[j].t \in Int
    BY <1>4, <1>5, <2>1, UtcAscends
  <2> HIDE DEF u, v
  <2>9. ~(j < i)
    BY <2>5, <2>6, <2>7, <2>8
  <2>10. i <= Len(B) /\ i \in Int
    BY <1>4, <2>3, <2>6, <2>9
  <2>11. i \in next
    BY <1>2, <2>4, <2>10 DEF i
  <2>12. i = j
    BY <2>1, <2>3, <2>9, <2>10, <2>11
  <2>13. NextJump(B, c, times, open, skip) = i
    <3>1. ~(i > Len(B))
      BY <1>4, <2>10
    <3> QED BY <1>1, <2>3, <3>1
  <2> QED BY <1>10, <2>12, <2>13 DEF j
<1> QED BY <1>9, <1>10

\* The settings of the menu hold hours and weekdays.
NavSettings == [slots : [NavItems -> 0..23], skip : SUBSET (0..6)]

NavInv ==
    /\ nav \in NavSettings
    /\ draft # None => draft \in NavSettings

\* The dialogs of the menu keep it so.
LEMMA NavSteps ==
    ASSUME NavInv, OpenNav \/ (\E x \in NavItems, h \in NavTimes : SetSlot(x, h)) \/ (\E days \in SkipChoices : SkipDays(days))
                   \/ ResetNav \/ SaveNav \/ CancelNav
    PROVE  NavInv'
<1>1. CASE OpenNav
  BY <1>1 DEF OpenNav, NavInv
<1>2. CASE \E x \in NavItems, h \in NavTimes : SetSlot(x, h)
  <2>1. PICK x \in NavItems, h \in NavTimes : SetSlot(x, h)
    BY <1>2
  <2>2. draft \in NavSettings /\ h \in 0..23
    BY <2>1, NavAssumption DEF SetSlot, NavInv
  <2>3. [draft EXCEPT !.slots[x] = h] \in NavSettings
    BY <2>2 DEF NavSettings
  <2> QED BY <2>1, <2>3 DEF SetSlot, NavInv
<1>3. CASE \E days \in SkipChoices : SkipDays(days)
  <2>1. PICK days \in SkipChoices : SkipDays(days)
    BY <1>3
  <2>2. draft \in NavSettings /\ days \in SUBSET (0..6)
    BY <2>1, NavAssumption DEF SkipDays, NavInv
  <2>3. [draft EXCEPT !.skip = days] \in NavSettings
    BY <2>2 DEF NavSettings
  <2> QED BY <2>1, <2>3 DEF SkipDays, NavInv
<1>4. CASE ResetNav
  BY <1>4, NavAssumption DEF ResetNav, NavInv, NavSettings
<1>5. CASE SaveNav
  BY <1>5 DEF SaveNav, NavInv
<1>6. CASE CancelNav
  BY <1>6 DEF CancelNav, NavInv
<1> QED BY <1>1, <1>2, <1>3, <1>4, <1>5, <1>6

\* Nothing else touches them.
LEMMA NavKept == Spec => []NavInv
<1>1. Init => NavInv
  BY NavAssumption DEF Init, NavInv, NavSettings
<1>2. ASSUME NavInv, [Next]_vars PROVE NavInv'
  <2>1. CASE UNCHANGED <<nav, draft>>
    BY <1>2, <2>1 DEF NavInv
  <2>2. CASE UNCHANGED vars
    BY <2>1, <2>2 DEF vars
  <2>3. CASE Clock
    BY <2>1, <2>3 DEF Clock, StepBy, JumpNext, SeekDate, SelectBar, AdvanceTo, SeekTo, UntouchedView
  <2>4. CASE Viewing
    BY <2>1, <2>4 DEF Viewing, ClickTf, TypeTf, ApplyTyped, SetPaneTf, SetPaneSymbol, SetActive, SetLayout, ToggleIct
  <2>5. CASE Dialogs
    <3>1. CASE OpenSettings \/ (\E lk \in Looks : EditLook(lk)) \/ (\E z \in Zones : SetZone(z))
               \/ \E save \in BOOLEAN : CloseSettings(save)
      BY <2>1, <3>1 DEF OpenSettings, EditLook, SetZone, CloseSettings
    <3>2. CASE OpenNav \/ (\E x \in NavItems, h \in NavTimes : SetSlot(x, h)) \/ (\E days \in SkipChoices : SkipDays(days))
               \/ ResetNav \/ SaveNav \/ CancelNav
      BY <1>2, <3>2, NavSteps
    <3> QED BY <2>5, <3>1, <3>2 DEF Dialogs
  <2> QED BY <1>2, <2>2, <2>3, <2>4, <2>5 DEF Next
<1> QED BY <1>1, <1>2, PTL DEF Spec

\* A jump stops at the next bar that opens a wanted session (nextJump).
LEMMA JumpsLand == TypeOK /\ NavInv => JumpsLandRight
<1> SUFFICES ASSUME TypeOK, NavInv, NEW a \in NavItems \cup {"nextSession"}
             PROVE  LET B == Bars[ActiveDs]
                        next == {i \in (Max({1, cur[ActiveDs]}) + 1) .. Len(B) :
                                   Opens(B, i, {nav.slots[x] : x \in ActionItems(a)}, nav.slots["dayOpen"], nav.skip)}
                    IN  JumpFrom(ActiveDs, a) = IF next = {} THEN None ELSE Min(next)
  BY DEF JumpsLandRight
<1> DEFINE s == ActiveDs
           c == cur[s]
           times == {nav.slots[x] : x \in ActionItems(a)}
           open == nav.slots["dayOpen"]
           skip == nav.skip
           next == Stops(Bars[s], c, times, open, skip)
<1>1. s \in Symbols
  BY Types, ViewIs DEF ActiveDs
<1>2. c \in 0..Len(Bars[s])
  <2>1. c \in Nat /\ c <= Len(Bars[s]) /\ Len(Bars[s]) \in Nat
    BY <1>1, BarsOf DEF TypeOK
  <2> QED BY <2>1
<1>3. times \in SUBSET (0..23) /\ open \in 0..23 /\ skip \in SUBSET (0..6)
  <2>1. nav.slots \in [NavItems -> 0..23] /\ nav.skip \in SUBSET (0..6)
    BY DEF NavInv, NavSettings
  <2>2. ActionItems(a) \subseteq NavItems /\ "dayOpen" \in NavItems
    BY NavAssumption DEF ActionItems
  <2> QED BY <2>1, <2>2
<1>4. JumpFrom(s, a) = NextJump(Bars[s], c, times, open, skip)
  BY DEF JumpFrom
<1>5. next = {i \in (Max({1, c}) + 1)..Len(Bars[s]) : Opens(Bars[s], i, times, open, skip)}
  BY DEF Stops
<1> HIDE DEF s, c, times, open, skip, next
<1>6. JumpFrom(s, a) = IF next = {} THEN None ELSE Min(next)
  <2>1. NextJump(Bars[s], c, times, open, skip) =
          IF Stops(Bars[s], c, times, open, skip) = {} THEN None ELSE Min(Stops(Bars[s], c, times, open, skip))
    BY <1>1, <1>2, <1>3, JumpLands
  <2> QED BY <1>4, <2>1 DEF next
<1> QED BY <1>5, <1>6 DEF s, c, times, open, skip

\* The clock stops where the buttons say, whatever the menu, the zone and the
\* timeframe were changed to (stepTarget, nextJump, selectBar).
THEOREM ClockStopsRight == Spec => []ClockLandsRight
<1>1. ChartsInv /\ NavInv => ClockLandsRight
  BY StepsLand, JumpsLand, ChoicesLand DEF ClockLandsRight, ChartsInv
<1> QED BY ChartsInvariant, NavKept, <1>1, PTL

-----------------------------------------------------------------------------
(* One bar more leaves what is finished as it was: the divergences.        *)

\* Clocks never go back, as far as whole hours tell.
LEMMA LocalKeepsOrder ==
    ASSUME NEW x \in Int, NEW y \in Int, x <= y, NEW zone
    PROVE  ToLocal(x, zone) \in Int /\ ToLocal(x, zone) <= ToLocal(y, zone)
<1>0. DstStart \in Int /\ DstEnd \in Int
  BY TimesAssumption
<1> QED BY <1>0 DEF ToLocal, ZoneOffset

\* The bars up to a time are those up to UpperIdx.
LEMMA UpTo ==
    ASSUME NEW s \in Symbols, NEW t \in Int
    PROVE  /\ UpperIdx(Bars[s], t) \in 0..Len(Bars[s])
           /\ \A i \in DOMAIN Bars[s] : Bars[s][i].t <= t <=> i <= UpperIdx(Bars[s], t)
<1> DEFINE B == Bars[s]
           S == {i \in DOMAIN B : B[i].t <= t}
<1>1. DOMAIN B = 1..Len(B) /\ Len(B) \in Nat
  BY BarsOf
<1>2. \A i \in S : \A j \in 1..i : j \in S
  <2> TAKE i \in S
  <2> TAKE j \in 1..i
  <2>1. i \in DOMAIN B /\ j \in DOMAIN B /\ (j < i \/ j = i)
    BY <1>1
  <2>2. B[i].t \in Int /\ B[j].t \in Int /\ (j < i => B[j].t < B[i].t)
    BY <2>1, UtcAscends
  <2> QED BY <2>1, <2>2
<1>3. Cardinality(S) \in 0..Len(B) /\ S = 1..Cardinality(S)
  <2>1. S \subseteq 1..Len(B)
    BY <1>1
  <2> HIDE DEF S
  <2> QED BY <1>1, <1>2, <2>1, FirstOnes
<1>4. UpperIdx(B, t) = Cardinality(S)
  BY DEF UpperIdx
<1>5. \A i \in DOMAIN B : B[i].t <= t <=> i \in S
  OBVIOUS
<1> HIDE DEF S
<1>6. \A i \in DOMAIN B : i \in S <=> i <= Cardinality(S)
  BY <1>1, <1>3
<1> QED BY <1>1, <1>3, <1>4, <1>5, <1>6

\* Candles with others after them: only the last of them can be another.
LastMay(cs, next) ==
    /\ Len(cs) \in Nat /\ Len(next) \in Nat /\ Len(cs) <= Len(next)
    /\ \A j \in 1..(Len(cs) - 1) : next[j] = cs[j]

\* One bar more is in the last candle or in one after it.
LEMMA OnlyTheLast ==
    ASSUME NEW cs \in Seq(Candle), NEW B, NEW i, NEW tf, NEW zone, NEW next, next = PushBar(cs, B, i, tf, zone)
    PROVE  LastMay(cs, next)
<1> DEFINE n == Len(cs)
<1>1. n \in Nat /\ DOMAIN cs = 1..n
  BY LenProperties
<1>2. CASE n > 0 /\ cs[n].time = Bucket(B, i, tf, zone)
  <2> DEFINE m == [cs[n] EXCEPT !.high = Max({@, B[i].h}), !.low = Min({@, B[i].l}), !.close = B[i].c]
  <2>1. next = [cs EXCEPT ![n] = m]
    BY <1>2 DEF PushBar
  <2> HIDE DEF m
  <2>2. DOMAIN next = 1..n /\ \A j \in 1..n : next[j] = IF j = n THEN m ELSE cs[j]
    BY <1>1, <2>1
  <2>3. Len(next) = n
    <3>1. Len([cs EXCEPT ![n] = m]) = Len(cs)
      OBVIOUS
    <3> QED BY <2>1, <3>1
  <2>4. \A j \in 1..(n - 1) : j \in 1..n /\ j # n
    <3>1. n \in Nat
      BY <1>1
    <3> HIDE DEF n
    <3> QED BY <3>1
  <2>5. \A j \in 1..(n - 1) : next[j] = cs[j]
    <3> HIDE DEF n
    <3> QED BY <2>2, <2>4
  <2>6. n \in Nat /\ Len(next) = n
    BY <1>1, <2>3
  <2> QED BY <2>5, <2>6 DEF LastMay
<1>3. CASE ~(n > 0 /\ cs[n].time = Bucket(B, i, tf, zone))
  <2> DEFINE m == [time |-> Bucket(B, i, tf, zone), open |-> B[i].o, high |-> B[i].h, low |-> B[i].l, close |-> B[i].c]
             T == Candle \cup {m}
  <2>1. next = Append(cs, m)
    BY <1>3 DEF PushBar
  <2> HIDE DEF m
  <2>2. cs \in Seq(T) /\ m \in T
    <3>1. \A j \in 1..n : cs[j] \in T
      BY <1>1, ElementOfSeq
    <3> QED OBVIOUS
  <2>3. Len(Append(cs, m)) = n + 1 /\ \A j \in 1..n : Append(cs, m)[j] = cs[j]
    <3> HIDE DEF T
    <3> QED BY <2>2, AppendProperties
  <2>4. Len(next) = n + 1 /\ \A j \in 1..n : next[j] = cs[j]
    BY <2>1, <2>3
  <2> QED BY <1>1, <2>4 DEF LastMay
<1> QED BY <1>2, <1>3

\* The value a pivot of the divergences is taken from.
Peak(cs, hi, k) == IF hi THEN cs[k].high ELSE -cs[k].low

IsPivot(cs, hi, k) ==
    /\ k \in (PivotLen + 1)..(Len(cs) - PivotLen)
    /\ \A j \in (k - PivotLen)..(k + PivotLen) : j # k =>
          /\ Peak(cs, hi, j) <= Peak(cs, hi, k)
          /\ j < k => Peak(cs, hi, j) # Peak(cs, hi, k)

\* Candles a and b of one symbol diverge, if the other had the values va and vb near them.
Diverge(cs, va, vb, hi, a, b) ==
    LET Near(v) == IF hi THEN Max(v) ELSE -Min(v)
    IN  /\ a < b /\ \A p : IsPivot(cs, hi, p) => ~(a < p /\ p < b)
        /\ va # {} /\ vb # {}
        /\ \/ Peak(cs, hi, b) > Peak(cs, hi, a) /\ Near(vb) < Near(va)
           \/ Peak(cs, hi, b) < Peak(cs, hi, a) /\ Near(vb) > Near(va)
        /\ \A j \in (a + 1)..(b - 1) :
              (Peak(cs, hi, j) - Peak(cs, hi, a)) * (b - a) <= (Peak(cs, hi, b) - Peak(cs, hi, a)) * (j - a)

\* A line of the divergences.
IsLine(cs, OB, oc, tf, zone, hi, l) ==
    /\ cs # <<>> /\ oc # 0
    /\ IsPivot(cs, hi, l.k0) /\ IsPivot(cs, hi, l.k1)
    /\ Diverge(cs, OtherNear(cs, OB, oc, tf, zone, l.k0, hi), OtherNear(cs, OB, oc, tf, zone, l.k1, hi), hi, l.k0, l.k1)
    /\ l = [k0 |-> l.k0, k1 |-> l.k1, bull |-> ~hi]

\* The model of the divergences is made of these.
LEMMA LinesAre ==
    ASSUME NEW cs, NEW OB, NEW oc, NEW tf, NEW zone, NEW l
    PROVE  l \in SmtModel(cs, OB, oc, tf, zone) <=> \E hi \in BOOLEAN : IsLine(cs, OB, oc, tf, zone, hi, l)
<1> DEFINE Pivots(hi) == {k \in (PivotLen + 1)..(Len(cs) - PivotLen) : IsPivot(cs, hi, k)}
           Va(hi, a) == OtherNear(cs, OB, oc, tf, zone, a, hi)
           Pairs(hi) == {p \in Pivots(hi) \X Pivots(hi) : Diverge(cs, Va(hi, p[1]), Va(hi, p[2]), hi, p[1], p[2])}
           Lines(hi) == {[k0 |-> p[1], k1 |-> p[2], bull |-> ~hi] : p \in Pairs(hi)}
<1>1. SmtModel(cs, OB, oc, tf, zone) = IF cs = <<>> \/ oc = 0 THEN {} ELSE UNION {Lines(hi) : hi \in BOOLEAN}
  <2> DEFINE Of(hi, k) == IF hi THEN cs[k].high ELSE -cs[k].low
             Piv(hi) == {k \in (PivotLen + 1) .. (Len(cs) - PivotLen) :
                           \A j \in (k - PivotLen) .. (k + PivotLen) : j # k =>
                             /\ Of(hi, j) <= Of(hi, k)
                             /\ j < k => Of(hi, j) # Of(hi, k)}
             Near(hi, k) == LET v == OtherNear(cs, OB, oc, tf, zone, k, hi)
                            IN  IF hi THEN Max(v) ELSE -Min(v)
             Pair(hi, a, b) ==
               /\ a < b /\ \A p \in Piv(hi) : ~(a < p /\ p < b)
               /\ OtherNear(cs, OB, oc, tf, zone, a, hi) # {} /\ OtherNear(cs, OB, oc, tf, zone, b, hi) # {}
               /\ \/ Of(hi, b) > Of(hi, a) /\ Near(hi, b) < Near(hi, a)
                  \/ Of(hi, b) < Of(hi, a) /\ Near(hi, b) > Near(hi, a)
               /\ \A j \in (a + 1) .. (b - 1) :
                     (Of(hi, j) - Of(hi, a)) * (b - a) <= (Of(hi, b) - Of(hi, a)) * (j - a)
             Prs(hi) == {p \in Piv(hi) \X Piv(hi) : Pair(hi, p[1], p[2])}
             Lns(hi) == {[k0 |-> p[1], k1 |-> p[2], bull |-> ~hi] : p \in Prs(hi)}
  <2>1. SmtModel(cs, OB, oc, tf, zone) = IF cs = <<>> \/ oc = 0 THEN {} ELSE UNION {Lns(hi) : hi \in BOOLEAN}
    BY DEF SmtModel
  <2>2. ASSUME NEW hi PROVE Lns(hi) = Lines(hi)
    <3>1. Piv(hi) = Pivots(hi) /\ \A p : IsPivot(cs, hi, p) <=> p \in Piv(hi)
      BY DEF IsPivot, Peak
    <3>2. ASSUME NEW a, NEW b PROVE Pair(hi, a, b) <=> Diverge(cs, Va(hi, a), Va(hi, b), hi, a, b)
      <4>1. \A k : Of(hi, k) = Peak(cs, hi, k)
        BY DEF Peak
      <4>2. (\A p \in Piv(hi) : ~(a < p /\ p < b)) <=> \A p : IsPivot(cs, hi, p) => ~(a < p /\ p < b)
        BY <3>1
      <4> HIDE DEF Of, Piv
      <4> QED BY <4>1, <4>2 DEF Diverge
    <3> HIDE DEF Piv, Pivots, Pair
    <3>3. Prs(hi) = Pairs(hi)
      BY <3>1, <3>2
    <3> QED BY <3>3
  <2> HIDE DEF Lns, Lines
  <2>3. {Lns(hi) : hi \in BOOLEAN} = {Lines(hi) : hi \in BOOLEAN}
    BY <2>2
  <2> QED BY <2>1, <2>3
<1>2. ASSUME NEW hi \in BOOLEAN
      PROVE  l \in Lines(hi) <=> /\ IsPivot(cs, hi, l.k0) /\ IsPivot(cs, hi, l.k1)
                                 /\ Diverge(cs, Va(hi, l.k0), Va(hi, l.k1), hi, l.k0, l.k1)
                                 /\ l = [k0 |-> l.k0, k1 |-> l.k1, bull |-> ~hi]
  <2>1. \A k : k \in Pivots(hi) <=> IsPivot(cs, hi, k)
    BY DEF IsPivot
  <2> HIDE DEF Pivots, Va
  <2>2. ASSUME l \in Lines(hi)
        PROVE  /\ IsPivot(cs, hi, l.k0) /\ IsPivot(cs, hi, l.k1)
               /\ Diverge(cs, Va(hi, l.k0), Va(hi, l.k1), hi, l.k0, l.k1)
               /\ l = [k0 |-> l.k0, k1 |-> l.k1, bull |-> ~hi]
    <3>1. PICK p \in Pairs(hi) : l = [k0 |-> p[1], k1 |-> p[2], bull |-> ~hi]
      BY <2>2
    <3>2. l.k0 = p[1] /\ l.k1 = p[2]
      BY <3>1
    <3> QED BY <2>1, <3>1, <3>2
  <2>3. ASSUME IsPivot(cs, hi, l.k0), IsPivot(cs, hi, l.k1),
               Diverge(cs, Va(hi, l.k0), Va(hi, l.k1), hi, l.k0, l.k1),
               l = [k0 |-> l.k0, k1 |-> l.k1, bull |-> ~hi]
        PROVE  l \in Lines(hi)
    <3> DEFINE p == <<l.k0, l.k1>>
    <3>1. p \in Pivots(hi) \X Pivots(hi) /\ p[1] = l.k0 /\ p[2] = l.k1
      BY <2>1, <2>3
    <3> HIDE DEF p
    <3>2. p \in Pairs(hi)
      BY <2>3, <3>1
    <3>3. l = [k0 |-> p[1], k1 |-> p[2], bull |-> ~hi]
      BY <2>3, <3>1
    <3> QED BY <3>2, <3>3
  <2> QED BY <2>2, <2>3
<1> HIDE DEF Lines
<1> QED BY <1>1, <1>2 DEF IsLine

\* A pivot with whole candles after it stays one, or stays none.
LEMMA PivotStays ==
    ASSUME NEW cs, NEW next, LastMay(cs, next), NEW hi, NEW k \in Int, k + PivotLen < Len(cs)
    PROVE  IsPivot(next, hi, k) <=> IsPivot(cs, hi, k)
<1>1. PivotLen \in Nat /\ Len(cs) \in Nat /\ Len(next) \in Nat /\ Len(cs) <= Len(next)
  BY ChoicesAssumption DEF LastMay
<1>2. k \in (PivotLen + 1)..(Len(next) - PivotLen) <=> k \in (PivotLen + 1)..(Len(cs) - PivotLen)
  BY <1>1
<1>3. ASSUME k \in (PivotLen + 1)..(Len(cs) - PivotLen), NEW j \in (k - PivotLen)..(k + PivotLen)
      PROVE  Peak(next, hi, j) = Peak(cs, hi, j)
  <2>1. j \in 1..(Len(cs) - 1)
    BY <1>1, <1>3
  <2>2. next[j] = cs[j]
    BY <2>1 DEF LastMay
  <2> QED BY <2>2 DEF Peak
<1>4. k \in (k - PivotLen)..(k + PivotLen)
  BY <1>1
<1> QED BY <1>2, <1>3, <1>4 DEF IsPivot

\* Candles of the bars f to c of a symbol, and those with one bar more.
OneMore(s, f, c, tf, zone, cs, next) ==
    /\ f \in Nat \ {0} /\ c \in Nat \ {0} /\ f <= c /\ c + 1 <= Len(Bars[s])
    /\ AreCandles(cs, Bars[s], f, c, tf, zone) /\ LastMay(cs, next)

\* The same is near candle k after one bar more.
SameNear(s, o, c, tf, zone, cs, next, hi, k) ==
    OtherNear(next, Bars[o], UpperIdx(Bars[o], Bars[s][c + 1].t), tf, zone, k, hi) =
      OtherNear(cs, Bars[o], UpperIdx(Bars[o], Bars[s][c].t), tf, zone, k, hi)

\* What the other symbol did near candles that are finished is known.
LEMMA NearStays ==
    ASSUME NEW s \in Symbols, NEW o \in Symbols, NEW tf \in Timeframes, NEW zone \in Zones, NEW cs, NEW next,
           NEW f, NEW c, OneMore(s, f, c, tf, zone, cs, next),
           NEW hi, NEW k \in Nat \ {0}, k + PivotLen < Len(cs)
    PROVE  SameNear(s, o, c, tf, zone, cs, next, hi, k)
<1>0. /\ f \in Nat \ {0} /\ c \in Nat \ {0} /\ f <= c /\ c + 1 <= Len(Bars[s])
      /\ AreCandles(cs, Bars[s], f, c, tf, zone) /\ LastMay(cs, next)
  BY DEF OneMore
<1> USE <1>0
<1> DEFINE B == Bars[s]
           O == Bars[o]
           n == Len(cs)
           oc == UpperIdx(O, B[c].t)
           oc2 == UpperIdx(O, B[c + 1].t)
           first == Max({1, k - PivotLen})
           Near(x, to) == {x[j].time : j \in first..to}
           near == Near(cs, k + PivotLen)
           Values(to, nr) == {IF hi THEN O[i].h ELSE O[i].l : i \in {i \in 1..to : Bucket(O, i, tf, zone) \in nr}}
<1>1. n \in Nat /\ DOMAIN cs = 1..n /\ Len(next) \in Nat /\ n <= Len(next) /\ PivotLen \in Nat /\ \A j \in 1..n : cs[j] \in Candle
  BY ChoicesAssumption, LenProperties, ElementOfSeq DEF LastMay, AreCandles
<1>2. first \in Nat \ {0}
  <2>1. 1 \in Int /\ k - PivotLen \in Int
    BY <1>1
  <2>2. first \in {1, k - PivotLen} /\ 1 <= first
    BY <2>1, OfTwo
  <2> QED BY <2>1, <2>2
<1>3. Min({n, k + PivotLen}) = k + PivotLen /\ Min({Len(next), k + PivotLen}) = k + PivotLen
  <2>1. ASSUME NEW x \in Int, k + PivotLen < x PROVE Min({x, k + PivotLen}) = k + PivotLen
    <3>1. k + PivotLen \in Int
      BY <1>1
    <3>2. Min({x, k + PivotLen}) \in {x, k + PivotLen} /\ Min({x, k + PivotLen}) <= k + PivotLen
      BY <3>1, OfTwo
    <3> QED BY <2>1, <3>1, <3>2
  <2>2. n \in Int /\ Len(next) \in Int /\ k + PivotLen < n /\ k + PivotLen < Len(next)
    BY <1>1
  <2> QED BY <2>1, <2>2
<1>4. Near(next, k + PivotLen) = near
  <2>1. \A j \in first..(k + PivotLen) : j \in 1..(n - 1)
    BY <1>1, <1>2
  <2>2. \A j \in first..(k + PivotLen) : next[j] = cs[j]
    BY <2>1 DEF LastMay
  <2> QED BY <2>2
<1>5. /\ OtherNear(cs, O, oc, tf, zone, k, hi) = Values(oc, near)
      /\ OtherNear(next, O, oc2, tf, zone, k, hi) = Values(oc2, near)
  <2>1. OtherNear(cs, O, oc, tf, zone, k, hi) = Values(oc, near)
    BY <1>3 DEF OtherNear
  <2>2. OtherNear(next, O, oc2, tf, zone, k, hi) = Values(oc2, Near(next, k + PivotLen))
    <3> HIDE DEF oc2
    <3> QED BY <1>3 DEF OtherNear
  <2> QED BY <1>4, <2>1, <2>2
<1>6. /\ c \in DOMAIN B /\ c + 1 \in DOMAIN B /\ B[c].t \in Int /\ B[c + 1].t \in Int /\ B[c].t < B[c + 1].t
  <2>1. c \in DOMAIN B /\ c + 1 \in DOMAIN B /\ c < c + 1
    BY BarsOf
  <2> QED BY <2>1, UtcAscends
<1>7. /\ DOMAIN O = 1..Len(O) /\ Len(O) \in Nat
      /\ \A i \in DOMAIN O : O[i].t \in Int
  BY BarsOf, UtcAscends
<1>8. /\ oc \in 0..Len(O) /\ \A i \in DOMAIN O : O[i].t <= B[c].t <=> i <= oc
      /\ oc2 \in 0..Len(O) /\ \A i \in DOMAIN O : O[i].t <= B[c + 1].t <=> i <= oc2
  BY <1>6, UpTo
<1>9. \A x \in near : x \in Int /\ x < Bucket(B, c, tf, zone)
  <2> TAKE x \in near
  <2>1. PICK j \in first..(k + PivotLen) : x = cs[j].time
    OBVIOUS
  <2>2. j \in 1..n /\ n \in 1..n /\ j < n
    BY <1>1, <1>2
  <2>3. cs[j].time < cs[n].time /\ cs[j].time \in Int
    BY <1>1, <2>2 DEF AreCandles, Candle
  <2>4. PICK a \in f..c, b \in f..c :
           a <= b /\ \A i \in f..c : Bucket(B, i, tf, zone) = cs[n].time <=> a <= i /\ i <= b
    BY <1>1, <2>2 DEF AreCandles, IsCandle
  <2>5. Bucket(B, a, tf, zone) = cs[n].time /\ a \in DOMAIN B /\ a <= c
    <3>1. DOMAIN B = 1..Len(B) /\ Len(B) \in Nat
      BY BarsOf
    <3> QED BY <2>4, <3>1
  <2>6. /\ Bucket(B, a, tf, zone) <= Bucket(B, c, tf, zone)
        /\ Bucket(B, a, tf, zone) \in Int /\ Bucket(B, c, tf, zone) \in Int
    BY <1>6, <2>5, BucketsAscend
  <2> QED BY <2>1, <2>3, <2>5, <2>6
<1>10. ASSUME NEW i \in 1..oc2, Bucket(O, i, tf, zone) \in near
       PROVE  i \in 1..oc
  <2>1. i \in DOMAIN O /\ O[i].t \in Int
    BY <1>7, <1>8
  <2>2. ASSUME B[c].t <= O[i].t PROVE FALSE
    <3>1. /\ ToLocal(B[c].t, zone) \in Int /\ ToLocal(O[i].t, zone) \in Int
          /\ ToLocal(B[c].t, zone) <= ToLocal(O[i].t, zone)
      <4>1. B[c].t \in Int /\ O[i].t \in Int /\ B[c].t <= O[i].t
        BY <1>6, <2>1, <2>2
      <4> HIDE DEF B, O
      <4> QED BY <4>1, LocalKeepsOrder
    <3>2. /\ Bucket(B, c, tf, zone) \in Int /\ Bucket(O, i, tf, zone) \in Int
          /\ Bucket(B, c, tf, zone) <= Bucket(O, i, tf, zone)
      <4>1. Bucket(B, c, tf, zone) \in Int /\ Bucket(B, c, tf, zone) <= Bucket(O, i, tf, zone)
        BY <3>1, BucketKeepsOrder DEF Bucket
      <4>2. Bucket(O, i, tf, zone) \in Int
        BY <2>1, BucketsAscend
      <4> QED BY <4>1, <4>2
    <3> HIDE DEF near
    <3> QED BY <1>9, <1>10, <3>2
  <2>3. i <= oc
    <3>1. O[i].t <= B[c].t
      BY <1>6, <2>1, <2>2
    <3> HIDE DEF oc, O, B
    <3> QED BY <1>8, <2>1, <3>1
  <2> QED BY <1>8, <2>3
<1>11. \A i \in 1..oc : i \in 1..oc2
  <2> TAKE i \in 1..oc
  <2>1. i \in DOMAIN O /\ i <= oc /\ i \in Int
    BY <1>7, <1>8
  <2>2. O[i].t <= B[c].t
    BY <1>8, <2>1
  <2>3. O[i].t <= B[c + 1].t
    BY <1>6, <1>7, <2>1, <2>2
  <2> QED BY <1>8, <2>1, <2>3
<1>12. Values(oc2, near) = Values(oc, near)
  <2> HIDE DEF oc, oc2, near, O
  <2>1. {i \in 1..oc2 : Bucket(O, i, tf, zone) \in near} = {i \in 1..oc : Bucket(O, i, tf, zone) \in near}
    BY <1>10, <1>11
  <2> QED BY <2>1
<1> QED BY <1>5, <1>12 DEF SameNear

\* A divergence whose last pivot is followed by whole candles stays.
LEMMA LineStays ==
    ASSUME NEW s \in Symbols, NEW o \in Symbols, NEW tf \in Timeframes, NEW zone \in Zones, NEW cs, NEW next,
           NEW f, NEW c, OneMore(s, f, c, tf, zone, cs, next),
           NEW l, l.k1 + PivotLen < Len(cs),
           l \in SmtModel(cs, Bars[o], UpperIdx(Bars[o], Bars[s][c].t), tf, zone)
    PROVE  /\ l \in SmtModel(next, Bars[o], UpperIdx(Bars[o], Bars[s][c + 1].t), tf, zone)
           /\ next[l.k0] = cs[l.k0] /\ next[l.k1] = cs[l.k1]
<1> DEFINE O == Bars[o]
           oc == UpperIdx(O, Bars[s][c].t)
           oc2 == UpperIdx(O, Bars[s][c + 1].t)
           Va(k, hi) == OtherNear(cs, O, oc, tf, zone, k, hi)
           Vb(k, hi) == OtherNear(next, O, oc2, tf, zone, k, hi)
<1>1. PICK hi \in BOOLEAN : IsLine(cs, O, oc, tf, zone, hi, l)
  BY LinesAre
<1>0. LastMay(cs, next)
  BY DEF OneMore
<1>2. PivotLen \in Nat /\ Len(cs) \in Nat /\ Len(next) \in Nat /\ Len(cs) <= Len(next)
  BY <1>0, ChoicesAssumption DEF LastMay
<1>3. /\ l.k0 \in Nat \ {0} /\ l.k1 \in Nat \ {0} /\ l.k0 < l.k1
      /\ l.k0 + PivotLen < Len(cs) /\ l.k0 > PivotLen
  <2>1. l.k0 \in (PivotLen + 1)..(Len(cs) - PivotLen) /\ l.k1 \in (PivotLen + 1)..(Len(cs) - PivotLen) /\ l.k0 < l.k1
    BY <1>1 DEF IsLine, IsPivot, Diverge
  <2> QED BY <1>2, <2>1
<1>4. \A j \in l.k0..l.k1 : next[j] = cs[j]
  <2>1. \A j \in l.k0..l.k1 : j \in 1..(Len(cs) - 1)
    BY <1>2, <1>3
  <2> QED BY <1>0, <2>1 DEF LastMay
<1>5. Vb(l.k0, hi) = Va(l.k0, hi) /\ Vb(l.k1, hi) = Va(l.k1, hi)
  <2>1. ASSUME NEW k \in Nat \ {0}, k + PivotLen < Len(cs) PROVE Vb(k, hi) = Va(k, hi)
    <3>1. SameNear(s, o, c, tf, zone, cs, next, hi, k)
      BY <2>1, NearStays
    <3> QED BY <3>1 DEF SameNear
  <2> HIDE DEF Va, Vb
  <2> QED BY <1>3, <2>1
<1>6. IsPivot(next, hi, l.k0) /\ IsPivot(next, hi, l.k1)
  <2>1. l.k0 \in Int /\ l.k1 \in Int
    BY <1>3
  <2> QED BY <1>1, <1>3, <2>1, PivotStays, <1>0 DEF IsLine
<1>7. ASSUME NEW p, IsPivot(next, hi, p), l.k0 < p, p < l.k1 PROVE FALSE
  <2>1. p \in Int
    BY <1>7 DEF IsPivot
  <2>2. p + PivotLen < Len(cs)
    BY <1>2, <1>3, <1>7, <2>1
  <2>3. IsPivot(cs, hi, p)
    BY <1>7, <2>1, <2>2, PivotStays, <1>0
  <2> QED BY <1>1, <1>7, <2>3 DEF IsLine, Diverge
<1>8. \A j \in l.k0..l.k1 : Peak(next, hi, j) = Peak(cs, hi, j)
  BY <1>4 DEF Peak
<1>9. l.k0 \in l.k0..l.k1 /\ l.k1 \in l.k0..l.k1 /\ \A j \in (l.k0 + 1)..(l.k1 - 1) : j \in l.k0..l.k1
  BY <1>3
<1>10. Diverge(cs, Va(l.k0, hi), Va(l.k1, hi), hi, l.k0, l.k1)
  BY <1>1 DEF IsLine
<1> HIDE DEF Va, Vb
<1>11. Diverge(next, Vb(l.k0, hi), Vb(l.k1, hi), hi, l.k0, l.k1)
  <2>1. \A p : IsPivot(next, hi, p) => ~(l.k0 < p /\ p < l.k1)
    BY <1>7
  <2>2. /\ Peak(next, hi, l.k0) = Peak(cs, hi, l.k0) /\ Peak(next, hi, l.k1) = Peak(cs, hi, l.k1)
        /\ \A j \in (l.k0 + 1)..(l.k1 - 1) : Peak(next, hi, j) = Peak(cs, hi, j)
    BY <1>8, <1>9
  <2> QED BY <1>5, <1>10, <2>1, <2>2 DEF Diverge
<1>12. next # <<>> /\ oc2 # 0
  <2>1. Len(next) # 0
    BY <1>2, <1>3
  <2>2. Va(l.k0, hi) # {}
    BY <1>10 DEF Diverge
  <2>3. oc2 # 0
    <3> SUFFICES ASSUME oc2 = 0 PROVE Vb(l.k0, hi) = {}
      BY <1>5, <2>2
    <3> HIDE DEF oc2
    <3> QED BY DEF Vb, OtherNear
  <2> QED BY <2>1, <2>3
<1>13. IsLine(next, O, oc2, tf, zone, hi, l)
  <2> HIDE DEF oc2, O
  <2> QED BY <1>1, <1>6, <1>11, <1>12 DEF IsLine, Vb
<1>14. l \in SmtModel(next, O, oc2, tf, zone)
  <2> HIDE DEF oc2, O
  <2> QED BY <1>13, LinesAre
<1> QED BY <1>4, <1>9, <1>14

\* The symbol compared with is another one of the symbols.
LEMMA OtherIs ==
    ASSUME NEW s \in Symbols PROVE PickOther(s) \in Symbols
BY ChoicesAssumption DEF PickOther

\* One bar more leaves the finished divergences on every chart.
LEMMA ChartKeepsLines ==
    ASSUME ChartsInv PROVE LinesStay
<1> SUFFICES
      ASSUME NEW k \in Shown, cur[view.panes[k].ds] \in 1..(Len(Bars[view.panes[k].ds]) - 1)
      PROVE  LET p == view.panes[k]
                 B == Bars[p.ds]
                 c == cur[p.ds]
                 O == Bars[PickOther(p.ds)]
                 cs == candles[k]
                 next == PushBar(cs, B, c + 1, p.tf, view.zone)
                 lines == SmtModel(cs, O, UpperIdx(O, B[c].t), p.tf, view.zone)
                 linesLater == SmtModel(next, O, UpperIdx(O, B[c + 1].t), p.tf, view.zone)
             IN  SmtMarks(cs, {l \in lines : l.k1 + PivotLen < Len(cs)}) \subseteq SmtMarks(next, linesLater)
  BY DEF LinesStay
<1> DEFINE p == view.panes[k]
           zone == view.zone
           s == p.ds
           o == PickOther(p.ds)
           c == cur[p.ds]
           cs == candles[k]
           next == PushBar(cs, Bars[s], c + 1, p.tf, zone)
           lines == SmtModel(cs, Bars[o], UpperIdx(Bars[o], Bars[s][c].t), p.tf, zone)
           later == SmtModel(next, Bars[o], UpperIdx(Bars[o], Bars[s][c + 1].t), p.tf, zone)
           kept == {l \in lines : l.k1 + PivotLen < Len(cs)}
<1>1. TypeOK /\ view \in View
  BY Types DEF ChartsInv
<1>2. s \in Symbols /\ p.tf \in Timeframes /\ zone \in Zones
  BY <1>1, ViewIs DEF Shown
<1>3. o \in Symbols
  BY <1>2, OtherIs
<1>4. PICK f \in 1..WindowStart(c, p.tf) : AreCandles(cs, Bars[s], f, c, p.tf, zone)
  BY DEF ChartsInv, Draws
<1>5. c \in Nat \ {0} /\ c + 1 <= Len(Bars[s])
  BY <1>2, BarsOf
<1>6. f \in Nat \ {0} /\ f <= c
  <2> HIDE DEF c, p
  <2>1. WindowStart(c, p.tf) \in Nat \ {0} /\ WindowStart(c, p.tf) <= c
    BY <1>2, <1>5, WindowIs
  <2> QED BY <1>4, <1>5, <2>1
<1>7. LastMay(cs, next)
  BY <1>4, OnlyTheLast DEF AreCandles
<1> HIDE DEF next
<1>11. OneMore(s, f, c, p.tf, zone, cs, next)
  BY <1>4, <1>5, <1>6, <1>7 DEF OneMore
<1>8. ASSUME NEW l \in kept
      PROVE  l \in later /\ next[l.k0] = cs[l.k0] /\ next[l.k1] = cs[l.k1]
  <2>1. l \in lines /\ l.k1 + PivotLen < Len(cs)
    OBVIOUS
  <2> HIDE DEF kept, cs, c, s, o, zone, p
  <2> QED BY <1>2, <1>3, <1>11, <2>1, LineStays
<1> HIDE DEF kept, later, cs
<1>9. SmtMarks(cs, kept) \subseteq SmtMarks(next, later)
  <2> SUFFICES ASSUME NEW m \in SmtMarks(cs, kept) PROVE m \in SmtMarks(next, later)
    OBVIOUS
  <2>1. PICK l \in kept : m = [from |-> cs[l.k0].time, to |-> cs[l.k1].time, bull |-> l.bull]
    BY DEF SmtMarks
  <2>2. l \in later /\ m = [from |-> next[l.k0].time, to |-> next[l.k1].time, bull |-> l.bull]
    BY <1>8, <2>1
  <2> QED BY <2>2 DEF SmtMarks
<1> QED BY <1>9 DEF kept, later, lines, next, cs, c, s, o, zone, p

\* Whatever bar comes next, a divergence drawn between finished candles is
\* drawn again between the same ones (smt.ts, pushBar).
THEOREM FinishedLinesStay == Spec => []LinesStay
BY ChartsInvariant, ChartKeepsLines, PTL
=============================================================================
