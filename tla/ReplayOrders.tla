---------------------------- MODULE ReplayOrders ----------------------------
(***************************************************************************)
(* The simulated orders of a replay: engine/trading.ts and the order and   *)
(* clock operations of ReplayStore, for one symbol.                        *)
(*                                                                         *)
(* Time is counted in minutes, a bar is named by its minute, and the bars  *)
(* nobody has seen yet are undetermined.  A position or a trade keeps the  *)
(* index of its bars as the program does, beside the minute.  Quantity,    *)
(* commission and money are left out.                                      *)
(***************************************************************************)
EXTENDS Integers, Sequences, FiniteSets

CONSTANTS
    MaxTime,    \* bound: the last minute
    Prices,     \* the prices of bars and orders
    Bar,        \* the bars there may be
    Points,     \* the distances of a stop loss or take profit, 0 for none
    None,       \* no position, no order, no line
    MaxTrades   \* bound: closed trades in the table when an order is placed, plus one

ASSUME BoundsAssumption == MaxTime \in Nat \ {0} /\ MaxTrades \in Nat
ASSUME PricesAssumption == Prices \subseteq Nat \ {0} /\ Points \subseteq Nat
ASSUME BarAssumption ==
    Bar \subseteq {b \in [o : Prices, h : Prices, l : Prices, c : Prices] :
                     b.l <= b.o /\ b.l <= b.c /\ b.o <= b.h /\ b.c <= b.h}
ASSUME NoneAssumption == None \notin Int

VARIABLES
    bars,     \* bars[t]: the bar of minute t, for the minutes known so far
    now,      \* the replay clock
    pos,      \* the open position
    pending,  \* the limit or stop order that waits
    trades,   \* the closed trades
    drag,     \* the line under the mouse, and its price before
    since,    \* history: when a line or the order was last placed by hand
    late      \* history: the bars that came from an update, after their minute

vars == <<bars, now, pos, pending, trades, drag, since, late>>

-----------------------------------------------------------------------------
Times == 1..MaxTime
Sides == {1, -1}
Line == Int \cup {None}
Position == [side : Sides, entry : Prices, i0 : Times, t0 : Times, sl : Line, tp : Line, fresh : BOOLEAN]
Pending == [side : Sides, type : {"limit", "stop"}, price : Prices, slPts : Points, tpPts : Points]
\* stop: the stop loss the position had when it was closed.
Trade == [side : Sides, entry : Prices, exit : Int, i0 : Times, i1 : Times, t0 : Times, t1 : Times,
          reason : {"sl", "tp", "slGap", "tpGap", "manual"}, stop : Line]
Drag == [key : {"sl", "tp", "pend"}, orig : Int]

TypeOK ==
    /\ DOMAIN bars \subseteq Times /\ \A t \in DOMAIN bars : bars[t] \in Bar
    /\ now \in DOMAIN bars
    /\ pos \in Position \cup {None}
    /\ pending \in Pending \cup {None}
    /\ trades \in Seq(Trade)
    /\ drag \in Drag \cup {None}
    /\ since \in Times
    /\ late \subseteq Times

\* Bounds: the clock starts in the first minute, on a bar with one price.
Init ==
    /\ \E b \in Bar : b.l = b.h /\ bars = [t \in {1} |-> b]
    /\ now = 1 /\ since = 1
    /\ pos = None /\ pending = None /\ trades = <<>> /\ drag = None
    /\ late = {}

-----------------------------------------------------------------------------
(* engine/series.ts, engine/trading.ts                                     *)

\* upperIdx at the minute of a bar, and lowerBound cut off at the last bar.
Index(t, bs) == Cardinality({x \in DOMAIN bs : x <= t})
IndexAt(t, bs) == LET i == Cardinality({x \in DOMAIN bs : x < t}) + 1
                  IN  IF i > Cardinality(DOMAIN bs) THEN Cardinality(DOMAIN bs) ELSE i

\* A price at a level or past it, going up (dir = 1) or down (dir = -1).
Reaches(dir, price, level) == IF dir > 0 THEN price >= level ELSE price <= level
Extreme(dir, b) == IF dir > 0 THEN b.h ELSE b.l

LastPrice == bars[now].c

PendingError(side, type, price, last) ==
    LET below == (type = "limit") = (side > 0) IN IF below THEN price >= last ELSE price <= last
LineError(side, key, v, px) == Reaches(IF key = "sl" THEN side ELSE -side, v, px)

OpenPosition(side, price, t, bs, slPts, tpPts, fresh) ==
    [side |-> side, entry |-> price, i0 |-> Index(t, bs), t0 |-> t, fresh |-> fresh,
     sl |-> IF slPts > 0 THEN price - side * slPts ELSE None,
     tp |-> IF tpPts > 0 THEN price + side * tpPts ELSE None]

ClosePosition(p, t, bs, price, reason) ==
    [side |-> p.side, entry |-> p.entry, exit |-> price, i0 |-> p.i0, i1 |-> Index(t, bs),
     t0 |-> p.t0, t1 |-> t, reason |-> reason, stop |-> p.sl]

\* Mutant: an order that the open has jumped over fills at its own price.
FillAtOrder(o, b) ==
    LET dir == IF o.type = "limit" THEN -o.side ELSE o.side
    IN  IF Reaches(dir, Extreme(dir, b), o.price) THEN o.price ELSE None

\* The price a waiting order fills at in bar b: the open when the bar opens
\* past it, the order's own price when the bar gets there.
Fill(o, b) ==
    LET dir == IF o.type = "limit" THEN -o.side ELSE o.side
    IN  IF Reaches(dir, b.o, o.price) THEN b.o
        ELSE IF Reaches(dir, Extreme(dir, b), o.price) THEN o.price ELSE None

\* Mutant: with both lines in reach the take profit wins.
ExitAtBest(p, b) ==
    LET gap(line, dir) == line # None /\ Reaches(dir, b.o, line)
        hit(line, dir) == line # None /\ Reaches(dir, Extreme(dir, b), line)
    IN  CASE gap(p.sl, -p.side) -> [price |-> b.o, reason |-> "slGap"]
          [] gap(p.tp, p.side) /\ ~gap(p.sl, -p.side) -> [price |-> b.o, reason |-> "tpGap"]
          [] OTHER -> IF hit(p.tp, p.side) THEN [price |-> p.tp, reason |-> "tp"]
                      ELSE IF hit(p.sl, -p.side) THEN [price |-> p.sl, reason |-> "sl"] ELSE None

\* How bar b closes position p, None when it does not: an open past a line,
\* then the stop loss, then the take profit.
Exit(p, b) ==
    LET gap(line, dir) == line # None /\ Reaches(dir, b.o, line)
        hit(line, dir) == line # None /\ Reaches(dir, Extreme(dir, b), line)
    IN  IF gap(p.sl, -p.side) THEN [price |-> b.o, reason |-> "slGap"]
        ELSE IF gap(p.tp, p.side) THEN [price |-> b.o, reason |-> "tpGap"]
        ELSE IF hit(p.sl, -p.side) THEN [price |-> p.sl, reason |-> "sl"]
        ELSE IF hit(p.tp, p.side) THEN [price |-> p.tp, reason |-> "tp"]
        ELSE None

\* Mutant: the stop loss and take profit are tried in the bar of the fill.
ProcessAtOnce(t, b, bs) ==
    LET fill == IF pending = None THEN None ELSE Fill(pending, b)
        opened == IF fill = None THEN pos
                  ELSE OpenPosition(pending.side, fill, t, bs, pending.slPts, pending.tpPts, TRUE)
        exit == IF opened = None THEN None ELSE Exit(opened, b)
    IN  [pos |-> IF exit # None \/ opened = None THEN None ELSE [opened EXCEPT !.fresh = FALSE],
         pending |-> IF fill = None THEN pending ELSE None,
         trade |-> IF exit = None THEN <<>> ELSE <<ClosePosition(opened, t, bs, exit.price, exit.reason)>>]

\* processBar: fill the waiting order, then try the lines of a position that
\* is not fresh; the next bar finds it no longer fresh.
ProcessBar(t, b, bs) ==
    LET fill == IF pending = None THEN None ELSE Fill(pending, b)
        opened == IF fill = None THEN pos
                  ELSE OpenPosition(pending.side, fill, t, bs, pending.slPts, pending.tpPts, TRUE)
        exit == IF opened = None THEN None ELSE IF opened.fresh THEN None ELSE Exit(opened, b)
    IN  [pos |-> IF exit # None \/ opened = None THEN None ELSE [opened EXCEPT !.fresh = FALSE],
         pending |-> IF fill = None THEN pending ELSE None,
         trade |-> IF exit = None THEN <<>> ELSE <<ClosePosition(opened, t, bs, exit.price, exit.reason)>>]

-----------------------------------------------------------------------------
(* The clock                                                               *)

\* advanceTo, one bar: a step, a tick of play, or one of the bars of a jump.
Show(t, bs) ==
    LET r == ProcessBar(t, bs[t], bs)
    IN  /\ bars' = bs /\ now' = t
        /\ pos' = r.pos /\ pending' = r.pending /\ trades' = trades \o r.trade
        /\ UNCHANGED <<drag, since, late>>

Later == {t \in DOMAIN bars : t > now}

Advance ==
    \/ \E t \in Later : (\A x \in Later : t <= x) /\ Show(t, bars)
    \/ Later = {} /\ \E t \in (now + 1)..MaxTime, b \in Bar :
         Show(t, [x \in DOMAIN bars \cup {t} |-> IF x = t THEN b ELSE bars[x]])

\* Mutant: a seek does not look at the orders.
SeekAnyway ==
    /\ drag = None
    /\ now' \in DOMAIN bars
    /\ UNCHANGED <<bars, pos, pending, trades, drag, since, late>>

\* seekTo: with nothing open the clock goes to any bar.
SeekTo ==
    /\ pos = None /\ pending = None /\ drag = None
    /\ now' \in DOMAIN bars
    /\ UNCHANGED <<bars, pos, pending, trades, drag, since, late>>

\* Mutant: the indexes are left as they are.
IndexesLeft(bs) == UNCHANGED <<pos, trades>>

Indexes(bs) ==
    /\ pos' = IF pos = None THEN None ELSE [pos EXCEPT !.i0 = IndexAt(pos.t0, bs)]
    /\ trades' = [k \in DOMAIN trades |->
         [trades[k] EXCEPT !.i0 = IndexAt(trades[k].t0, bs), !.i1 = IndexAt(trades[k].t1, bs)]]

\* refreshLive, replaceBars: the update brings a bar for a minute that had
\* none, in front of, between or after the ones that were there.
ReplaceBars ==
    /\ \E t \in Times \ DOMAIN bars, b \in Bar :
         LET bs == [x \in DOMAIN bars \cup {t} |-> IF x = t THEN b ELSE bars[x]]
         IN  /\ bars' = bs
             /\ Indexes(bs)
             /\ late' = IF t < now THEN late \cup {t} ELSE late
    /\ UNCHANGED <<now, pending, drag, since>>

-----------------------------------------------------------------------------
(* Orders                                                                  *)

ByHand == since' = now

\* placeOrder, with B or S also while a line is dragged.
PlaceOrder ==
    /\ pos = None /\ pending = None /\ Len(trades) < MaxTrades
    /\ \E side \in Sides, slPts \in Points, tpPts \in Points :
         \/ /\ pos' = OpenPosition(side, LastPrice, now, bars, slPts, tpPts, FALSE)
            /\ UNCHANGED pending
         \/ \E type \in {"limit", "stop"}, price \in Prices :
              /\ ~PendingError(side, type, price, LastPrice)
              /\ pending' = [side |-> side, type |-> type, price |-> price, slPts |-> slPts, tpPts |-> tpPts]
              /\ UNCHANGED pos
    /\ ByHand
    /\ UNCHANGED <<bars, now, trades, drag, late>>

CloseNow ==
    /\ pos # None
    /\ trades' = Append(trades, ClosePosition(pos, now, bars, LastPrice, "manual"))
    /\ pos' = None
    /\ UNCHANGED <<bars, now, pending, drag, since, late>>

CancelPending ==
    /\ pending # None /\ drag = None
    /\ pending' = None
    /\ UNCHANGED <<bars, now, pos, trades, drag, since, late>>

\* breakEven: whatever side of the price the entry is on.
BreakEven ==
    /\ pos # None /\ drag = None
    /\ pos' = [pos EXCEPT !.sl = pos.entry]
    /\ ByHand
    /\ UNCHANGED <<bars, now, pending, trades, drag, late>>

UpdateSlTp ==
    /\ pos # None /\ drag = None
    /\ \E sl \in Prices \cup {None}, tp \in Prices \cup {None} :
         /\ sl # None => ~LineError(pos.side, "sl", sl, LastPrice)
         /\ tp # None => ~LineError(pos.side, "tp", tp, LastPrice)
         /\ pos' = [pos EXCEPT !.sl = sl, !.tp = tp]
    /\ ByHand
    /\ UNCHANGED <<bars, now, pending, trades, drag, late>>

\* dragPrices: the lines there are to take hold of.
DragPrice(key) ==
    IF key = "pend" THEN (IF pending = None THEN None ELSE pending.price)
    ELSE IF pos = None THEN None ELSE pos[key]

\* lineAt, down: the mouse goes down on one of the lines; the replay stops.
StartDrag ==
    /\ drag = None
    /\ \E key \in {"sl", "tp", "pend"} :
         DragPrice(key) # None /\ drag' = [key |-> key, orig |-> DragPrice(key)]
    /\ UNCHANGED <<bars, now, pos, pending, trades, since, late>>

DragTo(key, v) ==
    /\ pending' = IF key = "pend" /\ pending # None THEN [pending EXCEPT !.price = v] ELSE pending
    /\ pos' = IF key # "pend" /\ pos # None THEN [pos EXCEPT ![key] = v] ELSE pos

\* dragLine: the price is not looked at.  The mouse stopped the replay, but its
\* keys (a step, play) go on working while the button is down.
DragLine ==
    /\ drag # None
    /\ \E v \in Prices : DragTo(drag.key, v)
    /\ ByHand
    /\ UNCHANGED <<bars, now, trades, drag, late>>

\* endDragLine: on the wrong side the line goes back to where it was.
EndDragLine ==
    /\ drag # None
    /\ LET v == DragPrice(drag.key)
           wrong == IF v = None THEN FALSE
                    ELSE IF drag.key = "pend" THEN PendingError(pending.side, pending.type, v, LastPrice)
                    ELSE LineError(pos.side, drag.key, v, LastPrice)
       IN  IF wrong THEN DragTo(drag.key, drag.orig) /\ ByHand ELSE UNCHANGED <<pos, pending, since>>
    /\ drag' = None
    /\ UNCHANGED <<bars, now, trades, late>>

\* The page goes away in the middle of a drag and the session is resumed.
Reload ==
    /\ drag # None
    /\ drag' = None
    /\ Indexes(bars)
    /\ UNCHANGED <<bars, now, pending, since, late>>

ResetTrades ==
    /\ pos = None /\ pending = None /\ drag = None
    /\ trades' = <<>>
    /\ UNCHANGED <<bars, now, pos, pending, drag, since, late>>

-----------------------------------------------------------------------------
Next ==
    \/ Advance \/ SeekTo \/ ReplaceBars
    \/ PlaceOrder \/ CloseNow \/ CancelPending \/ BreakEven \/ UpdateSlTp
    \/ StartDrag \/ DragLine \/ EndDragLine \/ Reload \/ ResetTrades

Spec == Init /\ [][Next]_vars

-----------------------------------------------------------------------------
(* Properties                                                              *)

Traded(price, t) == bars[t].l <= price /\ price <= bars[t].h

\* Every entry and every exit is at a price its bar really traded, also when a
\* key moved the replay on while a line was dragged across the price; only the
\* user closes a position in the bar it was opened in.
TradesAreReal ==
    /\ pos # None => Traded(pos.entry, pos.t0)
    /\ \A k \in DOMAIN trades : LET x == trades[k] IN
         /\ Traded(x.entry, x.t0) /\ Traded(x.exit, x.t1)
         /\ x.t0 <= x.t1 /\ (x.reason # "manual" => x.t0 < x.t1)

\* The rule of processBar, "stop loss and take profit in one bar counts as the
\* stop loss": nobody takes profit inside a bar that also got to the stop.
NeverOptimistic ==
    \A k \in DOMAIN trades : LET x == trades[k] IN
        x.reason = "tp" /\ x.stop # None => ~Reaches(-x.side, Extreme(-x.side, bars[x.t1]), x.stop)

Touches(p, b) == Exit(p, b) # None

\* jumpNext: "open and pending orders still run through every bar".  No bar
\* shown since the lines were last placed by hand, and after the bar of the
\* entry, reached a line of the position that is still open or the price of
\* the order that still waits, unless it came late, from an update.
NothingMissed ==
    \A t \in DOMAIN bars \ late : since < t /\ t <= now =>
        /\ pos # None => t <= pos.t0 \/ ~Touches(pos, bars[t])
        /\ pending # None => Fill(pending, bars[t]) = None

\* replaceBars: "indexes are computed anew, since new bars may get in between":
\* the markers of trades and of the position stay on the bars of their minutes.
IndexesMatch ==
    /\ pos # None => pos.i0 = Index(pos.t0, bars)
    /\ \A k \in DOMAIN trades : /\ trades[k].i0 = Index(trades[k].t0, bars)
                               /\ trades[k].i1 = Index(trades[k].t1, bars)
=============================================================================
