--------------------------- MODULE OrdersProofs ---------------------------
(***************************************************************************)
(* The fills, exits and indexes of ReplayOrders, for every length of the   *)
(* replay, every set of prices, bars and distances, and any orders.        *)
(***************************************************************************)
EXTENDS ReplayOrders, FiniteSetTheorems, SequenceTheorems, TLAPS

\* What an open position keeps: the minute of its entry has been shown, and
\* the bar of its entry is over for its lines.
PosSound ==
    pos # None =>
        /\ pos.t0 \in DOMAIN bars /\ pos.t0 <= now
        /\ ~pos.fresh
        /\ Traded(pos.entry, pos.t0)
        /\ pos.i0 = Index(pos.t0, bars)

\* A closed trade beside the bars bs it was made in.
TradeSound(x, bs) ==
    /\ x.t0 \in DOMAIN bs /\ x.t1 \in DOMAIN bs
    /\ bs[x.t0].l <= x.entry /\ x.entry <= bs[x.t0].h
    /\ bs[x.t1].l <= x.exit /\ x.exit <= bs[x.t1].h
    /\ x.t0 <= x.t1 /\ (x.reason # "manual" => x.t0 < x.t1)
    /\ x.reason = "tp" /\ x.stop # None => ~Reaches(-x.side, Extreme(-x.side, bs[x.t1]), x.stop)
    /\ x.i0 = Index(x.t0, bs) /\ x.i1 = Index(x.t1, bs)

\* A drag may put the order back at the price it had.
DragSound == drag # None /\ drag.key = "pend" => drag.orig \in Prices

OrdersInv == TypeOK /\ PosSound /\ DragSound /\ \A k \in DOMAIN trades : TradeSound(trades[k], bars)

-----------------------------------------------------------------------------
(* Prices.                                                                 *)

\* A bar opens and closes between its low and its high.
LEMMA BarFacts ==
    ASSUME NEW b \in Bar
    PROVE  /\ b.o \in Nat /\ b.h \in Nat /\ b.l \in Nat /\ b.c \in Nat
           /\ b.o \in Prices /\ b.c \in Prices
           /\ b.l <= b.o /\ b.o <= b.h /\ b.l <= b.c /\ b.c <= b.h
  BY BarAssumption, PricesAssumption

\* An order fills inside the bar.
LEMMA FillInBar ==
    ASSUME NEW o \in Pending, NEW b \in Bar, Fill(o, b) # None
    PROVE  /\ Fill(o, b) \in Prices
           /\ b.l <= Fill(o, b) /\ Fill(o, b) <= b.h
<1>1. /\ o.side \in {1, -1} /\ o.price \in Prices
      /\ o.price \in Nat
  BY PricesAssumption DEF Pending, Sides
<1> DEFINE dir == IF o.type = "limit" THEN -o.side ELSE o.side
<1>2. dir \in {1, -1}
  BY <1>1
<1>3. Fill(o, b) = IF Reaches(dir, b.o, o.price) THEN b.o
                   ELSE IF Reaches(dir, Extreme(dir, b), o.price) THEN o.price ELSE None
  BY DEF Fill
<1> HIDE DEF dir
<1>4. CASE Reaches(dir, b.o, o.price)
  BY <1>3, <1>4, BarFacts
<1>5. CASE ~Reaches(dir, b.o, o.price)
  <2>1. Reaches(dir, Extreme(dir, b), o.price) /\ Fill(o, b) = o.price
    BY <1>3, <1>5
  <2> QED BY <2>1, <1>1, <1>2, <1>5, BarFacts DEF Reaches, Extreme
<1> QED BY <1>4, <1>5

\* So does a line, and the target only when the stop was not reached.
LEMMA ExitInBar ==
    ASSUME NEW p \in Position, NEW b \in Bar, Exit(p, b) # None
    PROVE  /\ Exit(p, b).price \in Int
           /\ b.l <= Exit(p, b).price /\ Exit(p, b).price <= b.h
           /\ Exit(p, b).reason \in {"sl", "tp", "slGap", "tpGap"}
           /\ Exit(p, b).reason = "tp" /\ p.sl # None => ~Reaches(-p.side, Extreme(-p.side, b), p.sl)
<1>1. /\ p.side \in {1, -1}
      /\ p.sl # None => p.sl \in Int
      /\ p.tp # None => p.tp \in Int
  BY DEF Position, Sides, Line
<1> QED BY <1>1, BarFacts DEF Exit, Reaches, Extreme

-----------------------------------------------------------------------------
(* Indexes.                                                                *)

\* A bar's index is one of the minutes, by either search.
LEMMA IndexFacts ==
    ASSUME NEW bs, DOMAIN bs \subseteq Times, NEW t \in DOMAIN bs
    PROVE  /\ Index(t, bs) \in Times
           /\ IndexAt(t, bs) = Index(t, bs)
<1> DEFINE D == DOMAIN bs
           Upto == {x \in D : x <= t}
           Below == {x \in D : x < t}
<1>1. /\ IsFiniteSet(Times) /\ Cardinality(Times) = MaxTime
      /\ t \in 1..MaxTime
  <2>1. MaxTime \in Int /\ t \in 1..MaxTime
    BY BoundsAssumption DEF Times
  <2> QED BY <2>1, FS_Interval DEF Times
<1>2. IsFiniteSet(D) /\ Cardinality(D) <= MaxTime
  BY <1>1, FS_Subset
<1>3. /\ IsFiniteSet(Upto) /\ Cardinality(Upto) <= Cardinality(D)
      /\ IsFiniteSet(Below)
  BY <1>2, FS_Subset
<1>4. Cardinality(Upto) = Cardinality(Below) + 1
  <2>1. D \subseteq Int
    BY BoundsAssumption DEF Times
  <2>2. Upto = Below \cup {t} /\ t \notin Below
    BY <2>1
  <2> HIDE DEF Upto, Below
  <2> QED BY <2>2, <1>3, FS_AddElement
<1>5. Cardinality(Below) \in Nat /\ Cardinality(D) \in Nat /\ Cardinality(Upto) \in Nat
  BY <1>2, <1>3, FS_CardinalityType
<1>6. Index(t, bs) = Cardinality(Upto)
  BY DEF Index
<1>7. IndexAt(t, bs) = IF Cardinality(Below) + 1 > Cardinality(D) THEN Cardinality(D) ELSE Cardinality(Below) + 1
  BY DEF IndexAt
<1> HIDE DEF D, Upto, Below
<1>8. Index(t, bs) \in 1..MaxTime
  BY <1>2, <1>3, <1>4, <1>5, <1>6, BoundsAssumption
<1>9. IndexAt(t, bs) = Index(t, bs)
  BY <1>3, <1>4, <1>5, <1>6, <1>7
<1> QED BY <1>8, <1>9 DEF Times

-----------------------------------------------------------------------------
(* The steps.                                                              *)

\* The bars of a step: those there were, unchanged.
Keeps(bs) == /\ DOMAIN bs \subseteq Times /\ \A t \in DOMAIN bs : bs[t] \in Bar
             /\ DOMAIN bars \subseteq DOMAIN bs /\ \A t \in DOMAIN bars : bs[t] = bars[t]

\* One more bar, after all the others, moves no index.
LEMMA IndexKept ==
    ASSUME TypeOK, NEW bs, Keeps(bs), NEW t \in DOMAIN bars,
           \A x \in DOMAIN bs \ DOMAIN bars : x > t
    PROVE  Index(t, bs) = Index(t, bars)
<1>1. DOMAIN bs \subseteq Int /\ DOMAIN bars \subseteq DOMAIN bs /\ t \in Int
  BY BoundsAssumption DEF Keeps, TypeOK, Times
<1>2. {x \in DOMAIN bs : x <= t} = {x \in DOMAIN bars : x <= t}
  BY <1>1
<1> QED BY <1>2 DEF Index

\* A new position is well made.
LEMMA Opened ==
    ASSUME NEW bs, Keeps(bs), NEW t \in DOMAIN bs, NEW side \in Sides, NEW price \in Prices,
           NEW slPts \in Points, NEW tpPts \in Points, NEW fresh \in BOOLEAN
    PROVE  OpenPosition(side, price, t, bs, slPts, tpPts, fresh) \in Position
<1>1. Index(t, bs) \in Times /\ t \in Times
  BY IndexFacts DEF Keeps
<1>2. price \in Int /\ slPts \in Int /\ tpPts \in Int /\ side \in Int
  BY PricesAssumption DEF Sides
<1>3. price - side * slPts \in Int /\ price + side * tpPts \in Int
  BY <1>2
<1> QED BY <1>1, <1>3 DEF OpenPosition, Position, Line

\* A trade closed in bar t at a price of that bar.
LEMMA Closed ==
    ASSUME NEW bs, Keeps(bs), NEW t \in DOMAIN bs, NEW p \in Position, p.t0 \in DOMAIN bs,
           NEW price \in Int, NEW reason \in {"sl", "tp", "slGap", "tpGap", "manual"}
    PROVE  ClosePosition(p, t, bs, price, reason) \in Trade
<1>1. Index(t, bs) \in Times /\ t \in Times
  BY IndexFacts DEF Keeps
<1> QED BY <1>1 DEF ClosePosition, Trade, Position

\* Bars that are added behind all the others leave the trades sound.
LEMMA LaterBars ==
    ASSUME TypeOK, NEW bs, Keeps(bs), NEW x, TradeSound(x, bars),
           \A t \in DOMAIN bars, u \in DOMAIN bs \ DOMAIN bars : u > t
    PROVE  TradeSound(x, bs)
<1>1. Index(x.t0, bs) = Index(x.t0, bars) /\ Index(x.t1, bs) = Index(x.t1, bars)
  BY IndexKept DEF TradeSound
<1>2. bs[x.t0] = bars[x.t0] /\ bs[x.t1] = bars[x.t1]
      /\ x.t0 \in DOMAIN bs /\ x.t1 \in DOMAIN bs
  BY DEF Keeps, TradeSound
<1> QED BY <1>1, <1>2 DEF TradeSound

\* The bar that comes next fills, closes or leaves alone.
LEMMA ShowStep ==
    ASSUME OrdersInv, NEW bs, Keeps(bs), NEW t \in DOMAIN bs, t > now,
           \A x \in DOMAIN bars, y \in DOMAIN bs \ DOMAIN bars : y > x,
           Show(t, bs)
    PROVE  OrdersInv'
<1> DEFINE b == bs[t]
           fill == IF pending = None THEN None ELSE Fill(pending, b)
           opened == IF fill = None THEN pos
                     ELSE OpenPosition(pending.side, fill, t, bs, pending.slPts, pending.tpPts, TRUE)
           exit == IF opened = None THEN None ELSE IF opened.fresh THEN None ELSE Exit(opened, b)
           trade == IF exit = None THEN <<>> ELSE <<ClosePosition(opened, t, bs, exit.price, exit.reason)>>
<1>1. /\ bars' = bs /\ now' = t /\ drag' = drag /\ since' = since /\ late' = late
      /\ pos' = IF exit # None \/ opened = None THEN None ELSE [opened EXCEPT !.fresh = FALSE]
      /\ pending' = IF fill = None THEN pending ELSE None
      /\ trades' = trades \o trade
  BY DEF Show, ProcessBar
<1>2. /\ TypeOK /\ PosSound /\ DragSound /\ \A k \in DOMAIN trades : TradeSound(trades[k], bars)
      /\ b \in Bar /\ t \in Int /\ now \in Int /\ t \in DOMAIN bs
  BY BoundsAssumption DEF OrdersInv, Keeps, TypeOK, Times
<1>3. fill # None => /\ pending \in Pending /\ fill \in Prices /\ b.l <= fill /\ fill <= b.h
                     /\ opened = OpenPosition(pending.side, fill, t, bs, pending.slPts, pending.tpPts, TRUE)
                     /\ opened \in Position
  <2> SUFFICES ASSUME fill # None
               PROVE  /\ pending \in Pending /\ fill \in Prices /\ b.l <= fill /\ fill <= b.h
                      /\ opened \in Position
    OBVIOUS
  <2>1. pending \in Pending /\ fill = Fill(pending, b)
    BY <1>2 DEF TypeOK
  <2>2. fill \in Prices /\ b.l <= fill /\ fill <= b.h
    BY <2>1, <1>2, FillInBar
  <2>3. pending.side \in Sides /\ pending.slPts \in Points /\ pending.tpPts \in Points
    BY <2>1 DEF Pending
  <2>4. opened \in Position
    <3> HIDE DEF fill
    <3> QED BY <2>2, <2>3, Opened
  <2> QED BY <2>1, <2>2, <2>4
<1>4. fill = None => opened = pos
  OBVIOUS
<1>5. opened # None => /\ opened \in Position
                       /\ opened.t0 \in DOMAIN bs /\ opened.t0 <= t
                       /\ bs[opened.t0].l <= opened.entry /\ opened.entry <= bs[opened.t0].h
                       /\ opened.i0 = Index(opened.t0, bs)
                       /\ ~opened.fresh => opened.t0 < t
  <2>1. CASE fill # None
    BY <2>1, <1>2, <1>3 DEF OpenPosition
  <2>2. CASE fill = None
    <3> SUFFICES ASSUME pos # None
                 PROVE  /\ pos \in Position
                        /\ pos.t0 \in DOMAIN bs /\ pos.t0 <= t /\ pos.t0 < t
                        /\ bs[pos.t0].l <= pos.entry /\ pos.entry <= bs[pos.t0].h
                        /\ pos.i0 = Index(pos.t0, bs)
      BY <1>4, <2>2
    <3>1. pos \in Position /\ pos.t0 \in DOMAIN bars /\ pos.t0 <= now /\ Traded(pos.entry, pos.t0) /\ pos.i0 = Index(pos.t0, bars)
      BY <1>2 DEF PosSound, TypeOK
    <3>2. Index(pos.t0, bs) = Index(pos.t0, bars)
      BY <3>1, <1>2, IndexKept
    <3>3. pos.t0 \in Int /\ pos.t0 \in DOMAIN bs /\ bs[pos.t0] = bars[pos.t0]
      BY <3>1, BoundsAssumption DEF Keeps, Times
    <3> QED BY <1>2, <3>1, <3>2, <3>3 DEF Traded
  <2> QED BY <2>1, <2>2
<1> HIDE DEF fill, opened
<1>6. exit # None =>
        LET x == ClosePosition(opened, t, bs, exit.price, exit.reason) IN x \in Trade /\ TradeSound(x, bs)
  <2> SUFFICES ASSUME exit # None
               PROVE  LET x == ClosePosition(opened, t, bs, exit.price, exit.reason)
                      IN  x \in Trade /\ TradeSound(x, bs)
    OBVIOUS
  <2>1. opened # None /\ ~opened.fresh /\ exit = Exit(opened, b)
    OBVIOUS
  <2>2. /\ exit.price \in Int
        /\ b.l <= exit.price /\ exit.price <= b.h
        /\ exit.reason \in {"sl", "tp", "slGap", "tpGap"}
        /\ exit.reason = "tp" /\ opened.sl # None => ~Reaches(-opened.side, Extreme(-opened.side, b), opened.sl)
    BY <1>2, <1>5, <2>1, ExitInBar
  <2> HIDE DEF exit
  <2>3. ClosePosition(opened, t, bs, exit.price, exit.reason) \in Trade
    BY <1>5, <2>1, <2>2, Closed
  <2>4. TradeSound(ClosePosition(opened, t, bs, exit.price, exit.reason), bs)
    BY <1>5, <2>1, <2>2 DEF TradeSound, ClosePosition
  <2> QED BY <2>3, <2>4
<1> HIDE DEF exit
<1>7. /\ trades' \in Seq(Trade)
      /\ \A k \in DOMAIN trades' : TradeSound(trades'[k], bs)
  <2>1. trades \in Seq(Trade) /\ \A k \in DOMAIN trades : TradeSound(trades[k], bs)
    BY <1>1, <1>2, LaterBars DEF TypeOK
  <2>2. CASE exit = None
    BY <1>1, <2>1, <2>2, ConcatEmptySeq
  <2>3. CASE exit # None
    <3> DEFINE x == ClosePosition(opened, t, bs, exit.price, exit.reason)
    <3>1. trades' = trades \o <<x>> /\ x \in Trade /\ TradeSound(x, bs)
      BY <1>1, <1>6, <2>3
    <3> HIDE DEF x
    <3>2. trades' = Append(trades, x)
      BY <2>1, <3>1, AppendIsConcat
    <3> QED BY <2>1, <3>1, <3>2, AppendProperties
  <2> QED BY <2>2, <2>3
<1>8. PosSound' /\ pos' \in Position \cup {None}
  <2>1. CASE exit # None \/ opened = None
    BY <1>1, <2>1 DEF PosSound
  <2>2. CASE ~(exit # None \/ opened = None)
    <3>1. pos' = [opened EXCEPT !.fresh = FALSE]
      BY <1>1, <2>2
    <3>2. /\ pos' \in Position /\ ~pos'.fresh /\ pos'.t0 = opened.t0
          /\ pos'.entry = opened.entry /\ pos'.i0 = opened.i0
      BY <1>5, <2>2, <3>1 DEF Position
    <3> QED BY <1>1, <1>5, <2>2, <3>2 DEF PosSound, Traded
  <2> QED BY <2>1, <2>2
<1>9. TypeOK' /\ DragSound'
  BY <1>1, <1>2, <1>7, <1>8 DEF TypeOK, DragSound, Keeps
<1> QED BY <1>1, <1>7, <1>8, <1>9 DEF OrdersInv

\* Bars added anywhere, and the indexes looked up again.
LEMMA IndexesStep ==
    ASSUME OrdersInv, NEW bs, Keeps(bs), bars' = bs, Indexes(bs),
           UNCHANGED <<now, pending, since>>, late' \subseteq Times,
           drag' = drag \/ drag' = None
    PROVE  OrdersInv'
<1>1. /\ TypeOK /\ PosSound /\ DragSound /\ \A k \in DOMAIN trades : TradeSound(trades[k], bars)
      /\ bars' = bs /\ Keeps(bs)
  BY DEF OrdersInv
<1>2. /\ pos' \in Position \cup {None}
      /\ PosSound'
  <2>1. CASE pos = None
    BY <2>1 DEF Indexes, PosSound
  <2>2. CASE pos # None
    <3>1. /\ pos \in Position /\ pos' = [pos EXCEPT !.i0 = IndexAt(pos.t0, bs)]
          /\ pos.t0 \in DOMAIN bars /\ pos.t0 <= now /\ ~pos.fresh /\ Traded(pos.entry, pos.t0)
      BY <1>1, <2>2 DEF Indexes, TypeOK, PosSound
    <3>2. /\ pos.t0 \in DOMAIN bs /\ bs[pos.t0] = bars[pos.t0]
          /\ IndexAt(pos.t0, bs) = Index(pos.t0, bs) /\ Index(pos.t0, bs) \in Times
      BY <3>1, IndexFacts DEF Keeps
    <3>3. /\ pos' \in Position /\ ~pos'.fresh /\ pos'.t0 = pos.t0
          /\ pos'.entry = pos.entry /\ pos'.i0 = Index(pos.t0, bs)
      BY <3>1, <3>2 DEF Position
    <3> QED BY <1>1, <3>1, <3>2, <3>3 DEF PosSound, Traded
  <2> QED BY <2>1, <2>2
<1>3. /\ trades' \in Seq(Trade)
      /\ \A k \in DOMAIN trades' : TradeSound(trades'[k], bs)
  <2>1. trades' = [k \in DOMAIN trades |->
           [trades[k] EXCEPT !.i0 = IndexAt(trades[k].t0, bs), !.i1 = IndexAt(trades[k].t1, bs)]]
    BY DEF Indexes
  <2>2. ASSUME NEW k \in DOMAIN trades
        PROVE  trades'[k] \in Trade /\ TradeSound(trades'[k], bs)
    <3> DEFINE x == trades[k]
    <3>1. x \in Trade /\ TradeSound(x, bars)
      BY <1>1, ElementOfSeq, LenProperties DEF TypeOK
    <3>2. trades'[k] = [x EXCEPT !.i0 = IndexAt(x.t0, bs), !.i1 = IndexAt(x.t1, bs)]
      BY <2>1
    <3> HIDE DEF x
    <3>3. /\ x.t0 \in DOMAIN bs /\ bs[x.t0] = bars[x.t0]
          /\ x.t1 \in DOMAIN bs /\ bs[x.t1] = bars[x.t1]
      BY <3>1 DEF Keeps, TradeSound
    <3>4. /\ IndexAt(x.t0, bs) = Index(x.t0, bs) /\ Index(x.t0, bs) \in Times
          /\ IndexAt(x.t1, bs) = Index(x.t1, bs) /\ Index(x.t1, bs) \in Times
      BY <3>3, IndexFacts DEF Keeps
    <3>5. /\ trades'[k] \in Trade
          /\ trades'[k] = [x EXCEPT !.i0 = Index(x.t0, bs), !.i1 = Index(x.t1, bs)]
      <4>1. trades'[k] = [x EXCEPT !.i0 = Index(x.t0, bs), !.i1 = Index(x.t1, bs)]
        BY <3>2, <3>4
      <4>2. ASSUME NEW i \in Times, NEW j \in Times PROVE [x EXCEPT !.i0 = i, !.i1 = j] \in Trade
        BY <3>1 DEF Trade
      <4> QED BY <3>4, <4>1, <4>2
    <3>6. /\ trades'[k].side = x.side /\ trades'[k].entry = x.entry /\ trades'[k].exit = x.exit
          /\ trades'[k].t0 = x.t0 /\ trades'[k].t1 = x.t1 /\ trades'[k].reason = x.reason /\ trades'[k].stop = x.stop
          /\ trades'[k].i0 = Index(x.t0, bs) /\ trades'[k].i1 = Index(x.t1, bs)
      BY <3>1, <3>5 DEF Trade
    <3> QED BY <3>1, <3>3, <3>5, <3>6 DEF TradeSound
  <2>3. trades' \in [1..Len(trades) -> Trade] /\ DOMAIN trades' = DOMAIN trades /\ Len(trades) \in Nat
    BY <1>1, <2>1, <2>2, LenProperties DEF TypeOK
  <2>4. trades' \in Seq(Trade)
    BY <2>3, SeqDef
  <2> QED BY <2>2, <2>3, <2>4
<1>4. TypeOK' /\ DragSound'
  BY <1>1, <1>2, <1>3 DEF TypeOK, DragSound, Keeps
<1> QED BY <1>1, <1>2, <1>3, <1>4 DEF OrdersInv

\* A drag moves a line, or the order that waits.
LEMMA DragStep ==
    ASSUME OrdersInv, NEW key \in {"sl", "tp", "pend"}, NEW v \in Int, key = "pend" => v \in Prices,
           DragTo(key, v)
    PROVE  /\ pos' \in Position \cup {None} /\ pending' \in Pending \cup {None}
           /\ pos' # None => /\ pos # None
                             /\ pos'.t0 = pos.t0 /\ pos'.fresh = pos.fresh
                             /\ pos'.entry = pos.entry /\ pos'.i0 = pos.i0
<1>1. pos \in Position \cup {None} /\ pending \in Pending \cup {None}
  BY DEF OrdersInv, TypeOK
<1>2. pending' \in Pending \cup {None}
  BY <1>1 DEF DragTo, Pending
<1>3. CASE key # "pend" /\ pos # None
  <2>1. pos \in Position /\ pos' = [pos EXCEPT ![key] = v] /\ key \in {"sl", "tp"}
    BY <1>1, <1>3 DEF DragTo
  <2>2. /\ pos' \in Position
        /\ pos'.t0 = pos.t0 /\ pos'.fresh = pos.fresh /\ pos'.entry = pos.entry /\ pos'.i0 = pos.i0
    BY <2>1 DEF Position, Line
  <2> QED BY <1>2, <1>3, <2>2
<1>4. CASE ~(key # "pend" /\ pos # None)
  BY <1>1, <1>2, <1>4 DEF DragTo
<1> QED BY <1>3, <1>4

\* No bar is lost or changed when one is added.
LEMMA OneMoreBar ==
    ASSUME TypeOK, NEW t \in Times \ DOMAIN bars, NEW b \in Bar
    PROVE  LET bs == [x \in DOMAIN bars \cup {t} |-> IF x = t THEN b ELSE bars[x]]
           IN  Keeps(bs) /\ DOMAIN bs = DOMAIN bars \cup {t}
  BY DEF Keeps, TypeOK

\* The clock moves on by one bar, known or new.
LEMMA AdvanceStep == OrdersInv /\ Advance => OrdersInv'
<1> SUFFICES ASSUME OrdersInv, Advance
             PROVE  OrdersInv'
  OBVIOUS
<1>1. /\ TypeOK /\ Keeps(bars) /\ now \in Int /\ DOMAIN bars \subseteq Int
  BY BoundsAssumption DEF OrdersInv, TypeOK, Keeps, Times
<1>2. CASE \E t \in Later : (\A x \in Later : t <= x) /\ Show(t, bars)
  <2>1. PICK t \in Later : Show(t, bars)
    BY <1>2
  <2>2. t \in DOMAIN bars /\ t > now
    BY DEF Later
  <2> QED BY <1>1, <2>1, <2>2, ShowStep
<1>3. CASE Later = {} /\ \E t \in (now + 1)..MaxTime, b \in Bar :
             Show(t, [x \in DOMAIN bars \cup {t} |-> IF x = t THEN b ELSE bars[x]])
  <2>1. PICK t \in (now + 1)..MaxTime, b \in Bar :
             Show(t, [x \in DOMAIN bars \cup {t} |-> IF x = t THEN b ELSE bars[x]])
    BY <1>3
  <2> DEFINE bs == [x \in DOMAIN bars \cup {t} |-> IF x = t THEN b ELSE bars[x]]
  <2>2. \A x \in DOMAIN bars : x <= now
    BY <1>1, <1>3 DEF Later
  <2>3. now >= 1 /\ t > now /\ t \in Times /\ t \notin DOMAIN bars
    BY <1>1, <2>1, <2>2, BoundsAssumption DEF OrdersInv, TypeOK, Times
  <2>4. Keeps(bs) /\ DOMAIN bs = DOMAIN bars \cup {t}
    BY <1>1, <2>1, <2>3, OneMoreBar
  <2>5. Show(t, bs)
    BY <2>1
  <2> HIDE DEF bs
  <2>6. \A x \in DOMAIN bars, y \in DOMAIN bs \ DOMAIN bars : y > x
    BY <1>1, <2>2, <2>3, <2>4
  <2> QED BY <2>3, <2>4, <2>5, <2>6, ShowStep
<1> QED BY <1>2, <1>3 DEF Advance

\* OrdersInv holds in the first minute, before any order ...
LEMMA OrdersInit == Init => OrdersInv
<1> SUFFICES ASSUME Init
             PROVE  OrdersInv
  OBVIOUS
<1>1. TypeOK
  BY BoundsAssumption, EmptySeq DEF Init, TypeOK, Times
<1> QED BY <1>1 DEF Init, OrdersInv, PosSound, DragSound

\* ... and after every step.
LEMMA OrdersStep == OrdersInv /\ [Next]_vars => OrdersInv'
<1> SUFFICES ASSUME OrdersInv, [Next]_vars
             PROVE  OrdersInv'
  OBVIOUS
<1>0. TypeOK /\ PosSound /\ DragSound /\ Keeps(bars) /\ \A k \in DOMAIN trades : TradeSound(trades[k], bars)
  BY DEF OrdersInv, TypeOK, Keeps
<1>1. CASE Advance
  BY <1>1, AdvanceStep
<1>2. CASE SeekTo
  BY <1>0, <1>2 DEF SeekTo, OrdersInv, TypeOK, PosSound, DragSound
<1>3. CASE ReplaceBars
  <2>1. PICK t \in Times \ DOMAIN bars, b \in Bar :
          LET bs == [x \in DOMAIN bars \cup {t} |-> IF x = t THEN b ELSE bars[x]]
          IN  bars' = bs /\ Indexes(bs) /\ late' = IF t < now THEN late \cup {t} ELSE late
    BY <1>3 DEF ReplaceBars
  <2>2. late' \subseteq Times
    BY <1>0, <2>1 DEF TypeOK
  <2> DEFINE bs == [x \in DOMAIN bars \cup {t} |-> IF x = t THEN b ELSE bars[x]]
  <2>3. Keeps(bs)
    BY <1>0, OneMoreBar
  <2>4. bars' = bs /\ Indexes(bs) /\ UNCHANGED <<now, pending, since, drag>>
    BY <1>3, <2>1 DEF ReplaceBars
  <2> HIDE DEF bs
  <2> QED BY <2>2, <2>3, <2>4, IndexesStep
<1>4. CASE PlaceOrder
  <2>1. PICK side \in Sides, slPts \in Points, tpPts \in Points :
         \/ /\ pos' = OpenPosition(side, LastPrice, now, bars, slPts, tpPts, FALSE)
            /\ UNCHANGED pending
         \/ \E type \in {"limit", "stop"}, price \in Prices :
              /\ ~PendingError(side, type, price, LastPrice)
              /\ pending' = [side |-> side, type |-> type, price |-> price, slPts |-> slPts, tpPts |-> tpPts]
              /\ UNCHANGED pos
    BY <1>4 DEF PlaceOrder
  <2>2. /\ bars' = bars /\ now' = now /\ trades' = trades /\ drag' = drag /\ late' = late /\ since' = now
        /\ now \in DOMAIN bars /\ now \in Times /\ now \in Int /\ bars[now] \in Bar
    BY <1>0, <1>4, BoundsAssumption DEF PlaceOrder, ByHand, TypeOK, Times
  <2>3. pending' \in Pending \cup {None}
    <3>1. CASE UNCHANGED pending
      BY <1>0, <3>1 DEF TypeOK
    <3>2. CASE ~UNCHANGED pending
      <4>1. PICK type \in {"limit", "stop"}, price \in Prices :
              pending' = [side |-> side, type |-> type, price |-> price, slPts |-> slPts, tpPts |-> tpPts]
        BY <2>1, <3>2
      <4> QED BY <4>1 DEF Pending
    <3> QED BY <3>1, <3>2
  <2>4. pos' \in Position \cup {None} /\ PosSound'
    <3>1. CASE pos' = pos
      BY <1>0, <2>2, <3>1 DEF TypeOK, PosSound, Traded
    <3>2. CASE pos' = OpenPosition(side, LastPrice, now, bars, slPts, tpPts, FALSE)
      <4>1. LastPrice \in Prices /\ bars[now].l <= LastPrice /\ LastPrice <= bars[now].h
        BY <2>2, BarFacts DEF LastPrice
      <4>2. pos' \in Position
        BY <1>0, <2>2, <3>2, <4>1, Opened
      <4> QED BY <2>2, <3>2, <4>1, <4>2 DEF OpenPosition, PosSound, Traded
    <3> QED BY <2>1, <3>1, <3>2
  <2> QED BY <1>0, <2>2, <2>3, <2>4 DEF OrdersInv, TypeOK, DragSound
<1>5. CASE CloseNow
  <2> DEFINE x == ClosePosition(pos, now, bars, LastPrice, "manual")
  <2>1. /\ pos # None /\ trades' = Append(trades, x) /\ pos' = None
        /\ UNCHANGED <<bars, now, pending, drag, since, late>>
    BY <1>5 DEF CloseNow
  <2>2. /\ pos \in Position /\ pos.t0 \in DOMAIN bars /\ pos.t0 <= now
        /\ bars[pos.t0].l <= pos.entry /\ pos.entry <= bars[pos.t0].h /\ pos.i0 = Index(pos.t0, bars)
        /\ now \in DOMAIN bars /\ bars[now] \in Bar
    BY <1>0, <2>1 DEF TypeOK, PosSound, Traded
  <2>3. LastPrice \in Int /\ bars[now].l <= LastPrice /\ LastPrice <= bars[now].h
    BY <2>2, BarFacts DEF LastPrice
  <2>4. x \in Trade
    BY <1>0, <2>2, <2>3, Closed
  <2>5. TradeSound(x, bars)
    BY <2>2, <2>3 DEF TradeSound, ClosePosition
  <2> HIDE DEF x
  <2>6. trades' \in Seq(Trade) /\ \A k \in DOMAIN trades' : TradeSound(trades'[k], bars)
    BY <1>0, <2>1, <2>4, <2>5, AppendProperties DEF TypeOK
  <2> QED BY <1>0, <2>1, <2>6 DEF OrdersInv, TypeOK, PosSound, DragSound
<1>6. CASE CancelPending
  BY <1>0, <1>6 DEF CancelPending, OrdersInv, TypeOK, PosSound, DragSound, Traded
<1>7. CASE BreakEven
  <2>1. pos \in Position /\ pos' = [pos EXCEPT !.sl = pos.entry] /\ pos.entry \in Int
    BY <1>0, <1>7, PricesAssumption DEF BreakEven, TypeOK, Position
  <2>2. /\ pos' \in Position /\ pos'.t0 = pos.t0 /\ pos'.fresh = pos.fresh /\ pos'.entry = pos.entry /\ pos'.i0 = pos.i0
    BY <2>1 DEF Position, Line
  <2> QED BY <1>0, <1>7, <2>2 DEF BreakEven, ByHand, OrdersInv, TypeOK, PosSound, DragSound, Traded
<1>8. CASE UpdateSlTp
  <2>1. PICK sl \in Prices \cup {None}, tp \in Prices \cup {None} : pos' = [pos EXCEPT !.sl = sl, !.tp = tp]
    BY <1>8 DEF UpdateSlTp
  <2>2. pos \in Position /\ sl \in Line /\ tp \in Line
    BY <1>0, <1>8, PricesAssumption DEF UpdateSlTp, TypeOK, Line
  <2>3. /\ pos' \in Position /\ pos'.t0 = pos.t0 /\ pos'.fresh = pos.fresh /\ pos'.entry = pos.entry /\ pos'.i0 = pos.i0
    BY <2>1, <2>2 DEF Position
  <2> QED BY <1>0, <1>8, <2>3 DEF UpdateSlTp, ByHand, OrdersInv, TypeOK, PosSound, DragSound, Traded
<1>9. CASE StartDrag
  <2>1. PICK key \in {"sl", "tp", "pend"} : DragPrice(key) # None /\ drag' = [key |-> key, orig |-> DragPrice(key)]
    BY <1>9 DEF StartDrag
  <2>2. DragPrice(key) \in Int /\ (key = "pend" => DragPrice(key) \in Prices)
    <3>1. CASE key = "pend"
      <4>1. pending \in Pending /\ DragPrice(key) = pending.price
        BY <1>0, <2>1, <3>1 DEF DragPrice, TypeOK
      <4>2. pending.price \in Prices
        BY <4>1 DEF Pending
      <4>3. \A price \in Prices : price \in Int
        BY PricesAssumption
      <4> QED BY <4>1, <4>2, <4>3
    <3>2. CASE key # "pend"
      <4>1. pos \in Position /\ DragPrice(key) = pos[key] /\ key \in {"sl", "tp"} /\ pos[key] # None
        BY <1>0, <2>1, <3>2 DEF DragPrice, TypeOK
      <4>2. pos.sl \in Int \cup {None} /\ pos.tp \in Int \cup {None} /\ (pos[key] = pos.sl \/ pos[key] = pos.tp)
        BY <4>1 DEF Position, Line
      <4> QED BY <3>2, <4>1, <4>2
    <3> QED BY <3>1, <3>2
  <2>3. drag' \in Drag /\ DragSound'
    BY <2>1, <2>2 DEF Drag, DragSound
  <2> QED BY <1>0, <1>9, <2>3 DEF StartDrag, OrdersInv, TypeOK, PosSound, Traded
<1>10. CASE DragLine
  <2>1. PICK v \in Prices : DragTo(drag.key, v)
    BY <1>10 DEF DragLine
  <2>2. drag.key \in {"sl", "tp", "pend"} /\ v \in Int
    BY <1>0, <1>10, PricesAssumption DEF DragLine, TypeOK, Drag
  <2> QED BY <1>0, <1>10, <2>1, <2>2, DragStep DEF DragLine, ByHand, OrdersInv, TypeOK, PosSound, DragSound, Traded
<1>11. CASE EndDragLine
  <2>1. drag \in Drag /\ drag.key \in {"sl", "tp", "pend"} /\ drag.orig \in Int
        /\ (drag.key = "pend" => drag.orig \in Prices) /\ drag' = None
        /\ UNCHANGED <<bars, now, trades, late>>
    BY <1>0, <1>11 DEF EndDragLine, TypeOK, Drag, DragSound
  <2>2. \/ DragTo(drag.key, drag.orig) /\ since' = now
        \/ UNCHANGED <<pos, pending, since>>
    BY <1>11 DEF EndDragLine, ByHand
  <2> QED BY <1>0, <2>1, <2>2, DragStep DEF OrdersInv, TypeOK, PosSound, DragSound, Traded
<1>12. CASE Reload
  <2>1. bars' = bars /\ Indexes(bars) /\ UNCHANGED <<now, pending, since, late>> /\ drag' = None
    BY <1>12 DEF Reload
  <2>2. late' \subseteq Times
    BY <1>0, <2>1 DEF TypeOK
  <2> QED BY <1>0, <2>1, <2>2, IndexesStep
<1>13. CASE ResetTrades
  BY <1>0, <1>13, EmptySeq DEF ResetTrades, OrdersInv, TypeOK, PosSound, DragSound
<1>14. CASE UNCHANGED vars
  BY <1>0, <1>14 DEF vars, OrdersInv, TypeOK, PosSound, DragSound, Traded
<1> QED BY <1>1, <1>2, <1>3, <1>4, <1>5, <1>6, <1>7, <1>8, <1>9, <1>10, <1>11, <1>12, <1>13, <1>14 DEF Next

-----------------------------------------------------------------------------
(* No touch is missed.                                                     *)

\* The bar b of minute t, which neither the position p nor the order o reacts to.
Quiet(p, o, t, b) == /\ p # None => t <= p.t0 \/ ~Touches(p, b)
                     /\ o # None => Fill(o, b) = None

\* Only the lines and the side of a position say whether a bar touches it.
LEMMA SameLines ==
    ASSUME NEW p, NEW q, NEW b, p.sl = q.sl, p.tp = q.tp, p.side = q.side
    PROVE  Touches(p, b) <=> Touches(q, b)
  BY DEF Touches, Exit

\* The bar that comes next was reacted to, and those before it still are.
LEMMA ShowMissesNothing ==
    ASSUME OrdersInv, NothingMissed, NEW bs, Keeps(bs), NEW t \in DOMAIN bs, t > now,
           \A x \in DOMAIN bs : x = t \/ x > t \/ (x \in DOMAIN bars /\ x <= now),
           Show(t, bs)
    PROVE  NothingMissed'
<1> DEFINE b == bs[t]
           fill == IF pending = None THEN None ELSE Fill(pending, b)
           opened == IF fill = None THEN pos
                     ELSE OpenPosition(pending.side, fill, t, bs, pending.slPts, pending.tpPts, TRUE)
           exit == IF opened = None THEN None ELSE IF opened.fresh THEN None ELSE Exit(opened, b)
<1>1. /\ bars' = bs /\ now' = t /\ since' = since /\ late' = late
      /\ pos' = IF exit # None \/ opened = None THEN None ELSE [opened EXCEPT !.fresh = FALSE]
      /\ pending' = IF fill = None THEN pending ELSE None
  BY DEF Show, ProcessBar
<1>2. fill # None => opened.t0 = t
  BY DEF OpenPosition
<1>3. pos' # None => /\ exit = None /\ opened # None
                     /\ pos'.t0 = opened.t0 /\ pos'.sl = opened.sl /\ pos'.tp = opened.tp /\ pos'.side = opened.side
  <2>1. fill = None => opened = pos /\ pos \in Position \cup {None}
    BY DEF OrdersInv, TypeOK
  <2>2. pos' # None => exit = None /\ opened # None /\ pos' = [opened EXCEPT !.fresh = FALSE]
    BY <1>1
  <2>3. CASE fill = None
    <3> HIDE DEF fill, exit
    <3> QED BY <2>1, <2>2, <2>3 DEF Position
  <2>4. CASE fill # None
    <3>1. opened = OpenPosition(pending.side, fill, t, bs, pending.slPts, pending.tpPts, TRUE)
      BY <2>4
    <3> HIDE DEF fill, exit, opened
    <3> QED BY <2>2, <3>1 DEF OpenPosition
  <2> QED BY <2>3, <2>4
<1>4. exit = None /\ opened # None => opened.t0 = t \/ ~Touches(opened, b)
  <2>1. CASE fill # None
    BY <1>2, <2>1
  <2>2. CASE fill = None
    BY <2>2 DEF OrdersInv, PosSound, Touches
  <2> QED BY <2>1, <2>2
<1>5. ASSUME NEW u \in DOMAIN bs \ late, since < u, u <= t
      PROVE  Quiet(pos', pending', u, bs[u])
  <2>0. u \in Int /\ t \in Int /\ now \in Int
    BY BoundsAssumption DEF Keeps, OrdersInv, TypeOK, Times
  <2>1. CASE u = t
    <3>1. pending' # None => Fill(pending', b) = None
      BY <1>1
    <3>2. pos' # None => pos'.t0 = t \/ ~Touches(pos', b)
      <4> HIDE DEF opened, exit
      <4> QED BY <1>3, <1>4, SameLines
    <3> QED BY <2>0, <2>1, <3>1, <3>2 DEF Quiet
  <2>2. CASE u # t
    <3>1. u \in DOMAIN bars /\ u <= now /\ bs[u] = bars[u]
      BY <1>5, <2>0, <2>2 DEF Keeps
    <3>2. Quiet(pos, pending, u, bs[u])
      BY <1>5, <3>1 DEF NothingMissed, Quiet
    <3>3. pending' # None => pending' = pending
      BY <1>1
    <3>4. CASE fill # None
      <4> HIDE DEF fill, opened, exit
      <4> QED BY <1>1, <1>2, <1>3, <1>5, <2>0, <3>4 DEF Quiet
    <3>5. CASE fill = None
      <4>1. opened = pos
        BY <3>5
      <4> HIDE DEF fill, opened, exit
      <4> QED BY <1>3, <3>2, <3>3, <4>1, SameLines DEF Quiet
    <3> QED BY <3>4, <3>5
  <2> QED BY <2>1, <2>2
<1> QED BY <1>1, <1>5 DEF NothingMissed, Quiet

\* Nor do the orders, the seeks and the updates hide one.
LEMMA MissedStep == OrdersInv /\ NothingMissed /\ [Next]_vars => NothingMissed'
<1> SUFFICES ASSUME OrdersInv, NothingMissed, [Next]_vars
             PROVE  NothingMissed'
  OBVIOUS
<1>0. /\ TypeOK /\ Keeps(bars) /\ now \in DOMAIN bars /\ now \in Int /\ DOMAIN bars \subseteq Int /\ since \in Int
      /\ pos \in Position \cup {None}
  BY BoundsAssumption DEF OrdersInv, TypeOK, Keeps, Times
<1>1. CASE Advance
  <2>1. CASE \E t \in Later : (\A x \in Later : t <= x) /\ Show(t, bars)
    <3>1. PICK t \in Later : (\A x \in Later : t <= x) /\ Show(t, bars)
      BY <2>1
    <3>2. t \in DOMAIN bars /\ t > now /\ \A x \in DOMAIN bars : x = t \/ x > t \/ (x \in DOMAIN bars /\ x <= now)
      BY <1>0, <3>1 DEF Later
    <3> QED BY <1>0, <3>1, <3>2, ShowMissesNothing
  <2>2. CASE Later = {} /\ \E t \in (now + 1)..MaxTime, b \in Bar :
             Show(t, [x \in DOMAIN bars \cup {t} |-> IF x = t THEN b ELSE bars[x]])
    <3>1. PICK t \in (now + 1)..MaxTime, b \in Bar :
             Show(t, [x \in DOMAIN bars \cup {t} |-> IF x = t THEN b ELSE bars[x]])
      BY <2>2
    <3> DEFINE bs == [x \in DOMAIN bars \cup {t} |-> IF x = t THEN b ELSE bars[x]]
    <3>2. \A x \in DOMAIN bars : x <= now
      BY <1>0, <2>2 DEF Later
    <3>3. t > now /\ t \in Times /\ t \notin DOMAIN bars
      BY <1>0, <3>1, <3>2, BoundsAssumption DEF TypeOK, Times
    <3>4. Keeps(bs) /\ DOMAIN bs = DOMAIN bars \cup {t} /\ Show(t, bs)
      BY <1>0, <3>1, <3>3, OneMoreBar
    <3> HIDE DEF bs
    <3> QED BY <3>2, <3>3, <3>4, ShowMissesNothing
  <2> QED BY <1>1, <2>1, <2>2 DEF Advance
<1>2. CASE SeekTo
  BY <1>2 DEF SeekTo, NothingMissed
<1>3. CASE ReplaceBars
  <2>1. PICK t \in Times \ DOMAIN bars, b \in Bar :
          LET bs == [x \in DOMAIN bars \cup {t} |-> IF x = t THEN b ELSE bars[x]]
          IN  bars' = bs /\ Indexes(bs) /\ late' = IF t < now THEN late \cup {t} ELSE late
    BY <1>3 DEF ReplaceBars
  <2>2. \A u \in DOMAIN bars' \ late' : u <= now' => u \in DOMAIN bars \ late /\ bars'[u] = bars[u]
    BY <1>0, <1>3, <2>1, BoundsAssumption DEF ReplaceBars, Times
  <2>3. pos' # None => /\ pos # None
                       /\ pos'.t0 = pos.t0 /\ pos'.sl = pos.sl /\ pos'.tp = pos.tp /\ pos'.side = pos.side
    BY <1>0, <2>1 DEF Indexes, Position
  <2> QED BY <1>3, <2>2, <2>3, SameLines DEF ReplaceBars, NothingMissed
<1>4. CASE since' = now /\ UNCHANGED <<bars, now>>
  BY <1>0, <1>4 DEF NothingMissed
<1>5. CASE /\ UNCHANGED <<bars, now, since, late>>
           /\ pos' \in {pos, None} /\ pending' \in {pending, None}
  BY <1>5 DEF NothingMissed
<1>6. CASE Reload
  <2>1. pos' # None => /\ pos # None
                       /\ pos'.t0 = pos.t0 /\ pos'.sl = pos.sl /\ pos'.tp = pos.tp /\ pos'.side = pos.side
    BY <1>0, <1>6 DEF Reload, Indexes, Position
  <2> QED BY <1>6, <2>1, SameLines DEF Reload, NothingMissed
<1>7. CASE PlaceOrder \/ BreakEven \/ UpdateSlTp \/ DragLine
  BY <1>4, <1>7 DEF PlaceOrder, BreakEven, UpdateSlTp, DragLine, ByHand
<1>8. CASE CloseNow \/ CancelPending \/ StartDrag \/ ResetTrades \/ UNCHANGED vars
  BY <1>5, <1>8 DEF CloseNow, CancelPending, StartDrag, ResetTrades, vars
<1>9. CASE EndDragLine
  BY <1>4, <1>5, <1>9 DEF EndDragLine, ByHand
<1> QED BY <1>1, <1>2, <1>3, <1>6, <1>7, <1>8, <1>9 DEF Next

-----------------------------------------------------------------------------
(* The theorems.                                                           *)

\* The inductive invariant of the orders holds in every reachable state.
THEOREM OrdersInvariant == Spec => []OrdersInv
  BY OrdersInit, OrdersStep, PTL DEF Spec

\* A position, an order, a closed trade or a line under the mouse always has
\* the shape of engine/trading.ts, its indexes among the bars there are.
THEOREM OrdersTyped == Spec => []TypeOK
<1>1. OrdersInv => TypeOK
  BY DEF OrdersInv
<1> QED BY <1>1, OrdersInvariant, PTL

\* Every fill and every exit processBar makes is at a price its bar traded.
THEOREM FillsAreReal == Spec => []TradesAreReal
<1>1. OrdersInv => TradesAreReal
  BY DEF OrdersInv, PosSound, TradesAreReal, TradeSound, Traded
<1> QED BY <1>1, OrdersInvariant, PTL

\* A bar that reached the stop and the target is counted as the stop.
THEOREM StopComesFirst == Spec => []NeverOptimistic
<1>1. OrdersInv => NeverOptimistic
  BY DEF OrdersInv, NeverOptimistic, TradeSound
<1> QED BY <1>1, OrdersInvariant, PTL

\* After any update of the bars the indexes name the bars of their minutes.
THEOREM IndexesFollow == Spec => []IndexesMatch
<1>1. OrdersInv => IndexesMatch
  BY DEF OrdersInv, PosSound, IndexesMatch, TradeSound
<1> QED BY <1>1, OrdersInvariant, PTL

\* No bar shown since the lines were placed reached one of them unseen.
THEOREM EveryBarRuns == Spec => []NothingMissed
<1>1. Init => NothingMissed
  BY DEF Init, NothingMissed
<1> QED BY <1>1, MissedStep, OrdersInvariant, PTL DEF Spec
===========================================================================
