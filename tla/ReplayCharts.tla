--------------------------- MODULE ReplayCharts ---------------------------
(***************************************************************************)
(* What the replay page shows: the candles of its two charts, the marks of *)
(* the indicators (killzones, opening levels, SMT divergence), the places  *)
(* of the drawings on the time axis, and the ways the clock moves forward: *)
(* one step, the end of a candle, the next session, a chosen candle.       *)
(* engine/series.ts, time.ts, nav.ts, ict.ts, smt.ts and projector.ts, the *)
(* view operations of ReplayStore, ChartPane.tsx and the two dialogs.      *)
(*                                                                         *)
(* One unit of time is an hour, and a bar covers one: the code's bars are  *)
(* minutes.  All its constants (the day of 24 hours, the shifts of the New *)
(* York candles, the clock change, the gap of six hours) are those of the  *)
(* source in that unit.  Bars are numbered from 1 and cur = 0 is "no bar   *)
(* yet".  The orders the clock runs through are ReplayOrders'; here none   *)
(* is open, so a seek is never refused.                                    *)
(***************************************************************************)
EXTENDS Integers, Sequences, SequencesExt, FiniteSetsExt, Functions, TLC

CONSTANTS
    Symbols,        \* the symbols of the session
    Bars,           \* [Symbols -> sequence of [t, o, h, l, c]], in UTC
    Zones,          \* the time zones the user switches between
    Timeframes,     \* the timeframes he switches between, in hours
    DstStart,       \* New York's summer time: from this hour
    DstEnd,         \* ... to this one
    MaxCandles,     \* MAX_CANDLES
    LiveLimit,      \* LIVE_LIMIT: more bars than this at once rebuild the charts
    TfMax,          \* the largest timeframe the killzones are drawn on
    Killzones,      \* the sessions of the indicator, [start, end] in NY hours
    LevelTimes,     \* the hours of the opening levels
    Keep,           \* how many runs of each kind are kept (maxDays)
    PivotLen,       \* bars on each side of a pivot of the SMT
    NavItems,       \* the moments of the navigation menu
    DefaultNav,     \* [slots : [NavItems -> hour], skip : set of weekdays]
    NavTimes,       \* the hours the user tries in its dialog
    SkipChoices,    \* the sets of weekdays he tries there
    MaxEdits,       \* bound: changes of the view, the settings, the menu
    None            \* no dialog, no typed timeframe, no target

Looks == [prevClose : BOOLEAN, ict : BOOLEAN]
Panes == {1, 2}
Day == 24

ASSUME BarsAssumption ==
    Bars \in [Symbols -> Seq([t : Int, o : Int, h : Int, l : Int, c : Int])]
ASSUME ChoicesAssumption ==
    /\ "NY" \in Zones /\ Timeframes \subseteq Nat \ {0} /\ Timeframes # {} /\ MaxCandles \in Nat \ {0}
    /\ Keep \in Nat /\ PivotLen \in Nat
    /\ Symbols # {} /\ \A s \in Symbols : Symbols # {s} /\ Bars[s] # <<>>
\* Bars are of 1970 and later; New York's clock is put forward at two in the morning.
ASSUME TimesAssumption ==
    /\ \A s \in Symbols : \A i \in DOMAIN Bars[s] : Bars[s][i].t >= Day
    /\ DstStart \in Int /\ DstEnd \in Int /\ (DstStart - 5) % Day = 2
ASSUME NavAssumption ==
    /\ "dayOpen" \in NavItems /\ NavTimes \subseteq 0 .. 23 /\ SkipChoices \subseteq SUBSET (0 .. 6)
    /\ DefaultNav \in [slots : [NavItems -> 0 .. 23], skip : SUBSET (0 .. 6)]
ASSUME NoneIsNoChoice == None \notin Timeframes /\ None \notin [look : Looks, zone : Zones]

VARIABLES
    cur,            \* [Symbols -> bars shown], d.cur
    view,           \* [zone, layout, active, panes : [Panes -> [tf, ds]]]
    candles,        \* [Panes -> sequence of candles], store.candles
    series,         \* [Panes -> what the chart library was given]
    look,           \* [prevClose, ict]: chartStyle and the indicator's switch
    prefs,          \* the look kept in localStorage
    snap,           \* None, or look and zone when the settings were opened
    nav,            \* the settings of the menu
    draft,          \* None, or the copy its dialog edits
    typed,          \* None, or the timeframe being typed on the keyboard
    edits           \* how many changes of the view were made

vars == <<cur, view, candles, series, look, prefs, snap, nav, draft, typed, edits>>

---------------------------------------------------------------------------
(* Times. *)

ZoneOffset(t, zone) ==
    CASE zone = "UTC" -> 0
      [] zone = "VN" -> 7
      [] OTHER -> IF t >= DstStart /\ t < DstEnd THEN -4 ELSE -5

ToLocal(t, zone) == t + ZoneOffset(t, zone)

\* Only nearly the inverse of ToLocal: the offset is looked up with a local
\* time, so it is wrong for the four or five hours after a clock change.
LocalToUtc(lt, zone) == lt - ZoneOffset(lt, zone)

DayShift(tf, zone) == IF tf >= Day /\ zone = "NY" THEN 6 ELSE 0

BucketOf(lt, tf, zone) ==
    CASE tf >= Day -> ((lt + DayShift(tf, zone)) \div Day) * Day
      [] tf = 4 /\ zone = "NY" -> ((lt + 2) \div 4) * 4 - 2
      [] OTHER -> (lt \div tf) * tf

Bucket(B, i, tf, zone) == BucketOf(ToLocal(B[i].t, zone), tf, zone)

\* The bars of a symbol come one after the other in every zone: its market
\* is closed in the hour a clock change repeats,
ASSUME BarsAscend ==
    \A s \in Symbols, z \in Zones : \A i, j \in DOMAIN Bars[s] :
        i < j => ToLocal(Bars[s][i].t, z) < ToLocal(Bars[s][j].t, z)

\* ... and no candle opens in the hours after one, for which LocalToUtc is wrong.
ASSUME NoneOpensAtAChange ==
    \A s \in Symbols, z \in Zones, tf \in Timeframes : \A i \in DOMAIN Bars[s] :
        LET lt == Bucket(Bars[s], i, tf, z) - DayShift(tf, z)
        IN  ToLocal(LocalToUtc(lt, z), z) = lt

---------------------------------------------------------------------------
(* Bars and candles. *)

UpperIdx(B, t) == Cardinality({i \in DOMAIN B : B[i].t <= t})

LowerBound(B, t) == Cardinality({i \in DOMAIN B : B[i].t < t}) + 1

FirstBucketAfter(B, time, tf, zone) ==
    Cardinality({i \in DOMAIN B : Bucket(B, i, tf, zone) <= time}) + 1

\* The last bar of the candle bar i is in.
CandleEnd(B, i, tf, zone) ==
    Max({j \in i .. Len(B) : Bucket(B, j, tf, zone) = Bucket(B, i, tf, zone)})

PushBar(cs, B, i, tf, zone) ==
    LET b == Bucket(B, i, tf, zone)
        n == Len(cs)
    IN  IF n > 0 /\ cs[n].time = b
        THEN [cs EXCEPT ![n].high = Max({@, B[i].h}), ![n].low = Min({@, B[i].l}), ![n].close = B[i].c]
        ELSE Append(cs, [time |-> b, open |-> B[i].o, high |-> B[i].h, low |-> B[i].l, close |-> B[i].c])

PushBars(cs, B, from, to, tf, zone) ==
    LET f[i \in (from - 1) .. to] == IF i < from THEN cs ELSE PushBar(f[i - 1], B, i, tf, zone)
    IN  f[to]

\* The first bar candles are built from: it may stand inside a candle.
WindowStart(c, tf) == Max({1, c - (IF tf < Day THEN tf ELSE Day) * MaxCandles})

BuildCandles(B, c, tf, zone) ==
    IF c = 0 THEN <<>> ELSE PushBars(<<>>, B, WindowStart(c, tf), c, tf, zone)

---------------------------------------------------------------------------
(* Where the clock goes. *)

\* The hour after k steps of tf counted on symbol s, or None at the end.
StepTarget(s, tf, k, zone) ==
    LET B == Bars[s]
        at[n \in 0 .. k] ==
            IF n = 0 THEN cur[s]
            ELSE IF at[n - 1] < Len(B) THEN CandleEnd(B, at[n - 1] + 1, tf, zone) ELSE at[n - 1]
        c == at[k]
        others == {Bars[x][cur[x] + 1].t : x \in {x \in Symbols : cur[x] < Len(Bars[x])}}
    IN  CASE c > cur[s] -> B[c].t
          [] c = cur[s] /\ others # {} -> Min(others)
          [] OTHER -> None

NyLocal(t) == ToLocal(t, "NY")
NyToUtc(lt) == lt - ZoneOffset(lt + 5, "NY")
TradingDay(lt, open) == ((lt - open) \div Day) + (IF open >= 12 THEN 1 ELSE 0)
Weekday(day) == (day + 4) % 7

ActionItems(a) == IF a = "nextSession" THEN NavItems \ {"dayOpen"} ELSE {a}

\* The local hours one of the times comes round at, on days not skipped.
Moments(times, open, skip, from, to) ==
    {lt \in {d * Day + m : d \in from .. to, m \in times} : Weekday(TradingDay(lt, open)) \notin skip}

\* Mutant: any bar after the moment will do, the next day's too.
AnyDay(t, lt, open) == t >= 0

SameDay(t, lt, open) == TradingDay(NyLocal(t), open) = TradingDay(lt, open)

NextJump(B, c, times, open, skip) ==
    LET tNow == B[Max({1, c})].t
        hits == {lt \in Moments(times, open, skip, NyLocal(tNow) \div Day, NyLocal(Last(B).t) \div Day) :
                    /\ NyToUtc(lt) > tNow
                    /\ LET i == LowerBound(B, NyToUtc(lt))
                       IN  i > Len(B) \/ (i > c /\ SameDay(B[i].t, lt, open))}
    IN  IF c = Len(B) \/ skip = 0 .. 6 \/ hits = {} THEN None
        ELSE LET i == LowerBound(B, NyToUtc(Min(hits))) IN IF i > Len(B) THEN None ELSE i

JumpFrom(s, a) ==
    NextJump(Bars[s], cur[s], {nav.slots[x] : x \in ActionItems(a)}, nav.slots["dayOpen"], nav.skip)

---------------------------------------------------------------------------
(* The indicator: killzones with their pivots, opening levels. *)

\* A bar counts as the opening of the candle that holds it.
OpenTime(B, i, tf, zone) == B[i].t - (ToLocal(B[i].t, zone) - Bucket(B, i, tf, zone))
HourOf(B, i, tf, zone) == NyLocal(OpenTime(B, i, tf, zone)) % Day
HoursBetween(a, b) ==
    IF a <= b THEN {h \in 0 .. (Day - 1) : h >= a /\ h < b} ELSE {h \in 0 .. (Day - 1) : h >= a \/ h < b}

IctFrom(c) == Max({1, c - Day * (Keep + 2)})

\* The stretches of bars whose hour is one of hours, none across a gap of
\* more than six hours.
Runs(B, c, tf, zone, hours) ==
    LET In(i) == HourOf(B, i, tf, zone) \in hours
        Starts == {i \in IctFrom(c) .. c :
                     /\ In(i)
                     /\ \/ i = IctFrom(c) \/ ~In(i - 1)
                        \/ OpenTime(B, i, tf, zone) - OpenTime(B, i - 1, tf, zone) > 6}
    IN  {[k0 |-> a, k1 |-> Max({b \in a .. c : \A i \in (a + 1) .. b : In(i) /\ i \notin Starts})] : a \in Starts}

\* slice(-keep)
Latest(runs) == {r \in runs : Cardinality({q \in runs : q.k0 > r.k0}) < Keep}

\* The bar before the next run of the same kind, or the last one shown.
Stop(runs, r, c) ==
    LET later == {q.k0 : q \in {q \in runs : q.k0 > r.k0}}
    IN  IF later = {} THEN c ELSE Min(later) - 1

\* Mutant: the pivots of a run look one bar past it.
HighestAhead(B, r) == Max({B[i].h : i \in r.k0 .. Min({r.k1 + 1, Len(B)})})

Highest(B, r) == Max({B[i].h : i \in r.k0 .. r.k1})
Lowest(B, r) == Min({B[i].l : i \in r.k0 .. r.k1})

\* Mutant: the line goes on to the last bar that breaks it.
PivotEndLast(r, stop, c, breaking) ==
    LET broken == breaking \cap (r.k1 + 1) .. stop
    IN  IF r.k1 = c THEN c ELSE IF broken = {} THEN Max({r.k1, stop}) ELSE Max(broken)

\* A pivot is drawn to the first bar that breaks it, while its run is the last.
PivotEnd(r, stop, c, breaking) ==
    LET broken == breaking \cap (r.k1 + 1) .. stop
    IN  IF r.k1 = c THEN c ELSE IF broken = {} THEN Max({r.k1, stop}) ELSE Min(broken)

KillzoneMarks(B, c, tf, zone, z) ==
    LET runs == Runs(B, c, tf, zone, HoursBetween(z.start, z.end))
        At(i) == OpenTime(B, i, tf, zone)
        Marks(r) ==
            LET hi == Highest(B, r)
                lo == Lowest(B, r)
                stop == Stop(runs, r, c)
            IN  {[kind |-> <<"box", z>>, from |-> At(r.k0), to |-> At(r.k1), hi |-> hi, lo |-> lo],
                 [kind |-> <<"pivot", z>>, from |-> At(r.k0), to |-> At(PivotEnd(r, stop, c, {i \in 1 .. c : B[i].h > hi})), hi |-> hi, lo |-> hi],
                 [kind |-> <<"pivot", z>>, from |-> At(r.k0), to |-> At(PivotEnd(r, stop, c, {i \in 1 .. c : B[i].l < lo})), hi |-> lo, lo |-> lo]}
    IN  UNION {Marks(r) : r \in Latest(runs)}

LevelMarks(B, c, tf, zone, a) ==
    LET runs == Runs(B, c, tf, zone, {a})
    IN  {[kind |-> <<"level", a>>, from |-> OpenTime(B, r.k0, tf, zone), to |-> OpenTime(B, Stop(runs, r, c), tf, zone),
          hi |-> B[r.k0].o, lo |-> B[r.k0].o] : r \in Latest(runs)}

IctModel(B, c, tf, zone) ==
    IF ~look.ict \/ c = 0 \/ tf > TfMax THEN {}
    ELSE UNION {KillzoneMarks(B, c, tf, zone, z) : z \in Killzones} \cup
         UNION {LevelMarks(B, c, tf, zone, a) : a \in LevelTimes}

---------------------------------------------------------------------------
(* The divergence of two symbols (SMT). *)

PickOther(s) == CHOOSE x \in Symbols : x # s

\* The extremes of the other symbol around candle k of this one.
OtherNear(cs, OB, oc, tf, zone, k, hi) ==
    LET near == {cs[j].time : j \in Max({1, k - PivotLen}) .. Min({Len(cs), k + PivotLen})}
    IN  {IF hi THEN OB[i].h ELSE OB[i].l : i \in {i \in 1 .. oc : Bucket(OB, i, tf, zone) \in near}}

SmtModel(cs, OB, oc, tf, zone) ==
    LET Of(hi, k) == IF hi THEN cs[k].high ELSE -cs[k].low
        Inner == (PivotLen + 1) .. (Len(cs) - PivotLen)
        Pivots(hi) == {k \in Inner : \A j \in (k - PivotLen) .. (k + PivotLen) : j # k =>
                          /\ Of(hi, j) <= Of(hi, k)
                          /\ j < k => Of(hi, j) # Of(hi, k)}
        Near(hi, k) == LET v == OtherNear(cs, OB, oc, tf, zone, k, hi)
                       IN  IF hi THEN Max(v) ELSE -Min(v)
        Pair(hi, a, b) ==
            /\ a < b /\ \A p \in Pivots(hi) : ~(a < p /\ p < b)
            /\ OtherNear(cs, OB, oc, tf, zone, a, hi) # {} /\ OtherNear(cs, OB, oc, tf, zone, b, hi) # {}
            /\ \/ Of(hi, b) > Of(hi, a) /\ Near(hi, b) < Near(hi, a)
               \/ Of(hi, b) < Of(hi, a) /\ Near(hi, b) > Near(hi, a)
            /\ \A j \in (a + 1) .. (b - 1) :
                  (Of(hi, j) - Of(hi, a)) * (b - a) <= (Of(hi, b) - Of(hi, a)) * (j - a)
    IN  IF cs = <<>> \/ oc = 0 THEN {}
        ELSE UNION {{[k0 |-> p[1], k1 |-> p[2], bull |-> ~hi] :
                        p \in {p \in Pivots(hi) \X Pivots(hi) : Pair(hi, p[1], p[2])}} : hi \in BOOLEAN}

---------------------------------------------------------------------------
(* The axis of time: the drawings' times to places among the candles. *)

\* A place is the pair <<n, d>> for n / d candles from the first.
TimeToLogical(cs, tf, ct) ==
    LET n == Len(cs)
        i == Max({j \in 1 .. n : cs[j].time <= ct} \cup {0})
    IN  CASE i = 0 -> <<ct - cs[1].time, tf>>
          [] i = n -> <<(n - 1) * tf + ct - cs[n].time, tf>>
          [] OTHER -> LET w == cs[i + 1].time - cs[i].time IN <<(i - 1) * w + ct - cs[i].time, w>>

\* Mutant: the day the New York candle is named after is not taken off.
XOfTimeUnshifted(cs, tf, zone, t) == TimeToLogical(cs, tf, ToLocal(t, zone))

XOfTime(cs, tf, zone, t) == TimeToLogical(cs, tf, ToLocal(t, zone) + DayShift(tf, zone))

\* The UTC time of candle k, where the magnet and a click put a point.
CandleAt(cs, tf, zone, k) == LocalToUtc(cs[k].time - DayShift(tf, zone), zone)

---------------------------------------------------------------------------
(* The charts. *)

ShownIn(v) == IF v.layout = 2 THEN Panes ELSE {1}
Shown == ShownIn(view)

\* styleCandle: with prevClose a candle is coloured against the one before.
StyleCandle(cs, j, lk) ==
    [candle |-> cs[j],
     up |-> IF ~lk.prevClose THEN None
            ELSE IF j > 1 THEN cs[j].close >= cs[j - 1].close ELSE cs[j].close >= cs[j].open]

Styled(cs, lk) == [j \in DOMAIN cs |-> StyleCandle(cs, j, lk)]

\* The library's update: it replaces the last candle or appends one.
SeriesUpdate(ser, cs) ==
    LET c == StyleCandle(cs, Len(cs), look)
    IN  IF ser # <<>> /\ Last(ser).candle.time = c.candle.time
        THEN [ser EXCEPT ![Len(ser)] = c] ELSE Append(ser, c)

\* The charts in which are built again from cur', the mounted ones drawn.
Redraw(v, lk, which) ==
    LET built == [k \in Panes |->
                    IF k \in which
                    THEN BuildCandles(Bars[v.panes[k].ds], cur'[v.panes[k].ds], v.panes[k].tf, v.zone)
                    ELSE candles[k]]
    IN  /\ candles' = built
        /\ series' = [k \in Panes |->
                        CASE k \notin ShownIn(v) -> <<>>
                          [] k \in which \/ lk # look -> Styled(built[k], lk)
                          [] OTHER -> series[k]]

\* One bar after the other into the charts of its symbol.
Stream(k, from, to) ==
    LET p == view.panes[k]
        f[i \in from .. to] ==
            IF i = from THEN [cs |-> candles[k], ser |-> series[k]]
            ELSE LET cs == PushBar(f[i - 1].cs, Bars[p.ds], i, p.tf, view.zone)
                 IN  [cs |-> cs, ser |-> SeriesUpdate(f[i - 1].ser, cs)]
    IN  f[to]

---------------------------------------------------------------------------
(* The clock. *)

NoDialog == snap = None /\ draft = None
ActiveDs == view.panes[view.active].ds
UntouchedView == UNCHANGED <<view, look, prefs, snap, nav, draft, typed, edits>>

AdvanceTo(t) ==
    LET end == [s \in Symbols |-> Max({cur[s], UpperIdx(Bars[s], t)})]
        fed == [k \in Shown |-> Stream(k, cur[view.panes[k].ds], end[view.panes[k].ds])]
    IN  /\ cur' = end
        /\ IF FoldFunction(+, 0, [s \in Symbols |-> end[s] - cur[s]]) <= LiveLimit
           THEN /\ candles' = [k \in Panes |-> IF k \in Shown THEN fed[k].cs ELSE candles[k]]
                /\ series' = [k \in Panes |-> IF k \in Shown THEN fed[k].ser ELSE series[k]]
           ELSE Redraw(view, look, Shown)
        /\ UntouchedView

\* A step, the end of a candle, or k steps of a clock that plays.
StepBy(tf, k) ==
    /\ NoDialog
    /\ StepTarget(ActiveDs, tf, k, view.zone) # None
    /\ AdvanceTo(StepTarget(ActiveDs, tf, k, view.zone))

JumpNext(a) ==
    /\ NoDialog
    /\ JumpFrom(ActiveDs, a) # None
    /\ AdvanceTo(Bars[ActiveDs][JumpFrom(ActiveDs, a)].t)

SeekTo(t) ==
    /\ NoDialog
    /\ cur' = [s \in Symbols |-> UpperIdx(Bars[s], t)]
    /\ Redraw(view, look, Shown)
    /\ UntouchedView

\* A date from the box, a random one, or the first bar of an empty chart.
SeekDate(i) == i \in DOMAIN Bars[ActiveDs] /\ SeekTo(Bars[ActiveDs][i].t)

\* A click on candle j while choosing where to cut: its last bar.
SelectTarget(k, j) ==
    LET p == view.panes[k]
    IN  FirstBucketAfter(Bars[p.ds], candles[k][j].time, p.tf, view.zone) - 1

SelectBar(k, j) ==
    /\ k \in Shown /\ j \in DOMAIN candles[k]
    /\ SelectTarget(k, j) >= 1
    /\ SeekTo(Bars[view.panes[k].ds][SelectTarget(k, j)].t)

---------------------------------------------------------------------------
(* The view. *)

Edit == edits < MaxEdits /\ edits' = edits + 1

SetPaneTf(tf) ==
    LET v == [view EXCEPT !.panes[view.active].tf = tf]
    IN  /\ cur' = cur /\ view' = v
        /\ Redraw(v, look, {view.active})
        /\ UNCHANGED <<look, prefs, snap, nav, draft>>

ClickTf(tf) == NoDialog /\ Edit /\ SetPaneTf(tf) /\ UNCHANGED typed

\* Digits typed on the keyboard wait for Enter or for a second and a half.
TypeTf(tf) ==
    /\ NoDialog /\ Edit /\ typed = None
    /\ typed' = tf
    /\ UNCHANGED <<cur, view, candles, series, look, prefs, snap, nav, draft>>

\* The timer asks neither for a dialog nor for the chart that was active.
ApplyTyped == typed # None /\ SetPaneTf(typed) /\ typed' = None /\ UNCHANGED edits

SetPaneSymbol(s) ==
    LET v == [view EXCEPT !.panes[view.active].ds = s]
    IN  /\ NoDialog /\ Edit
        /\ cur' = cur /\ view' = v
        /\ Redraw(v, look, {view.active})
        /\ UNCHANGED <<look, prefs, snap, nav, draft, typed>>

SetActive(k) ==
    /\ NoDialog /\ Edit
    /\ k # view.active /\ k \in Shown
    /\ view' = [view EXCEPT !.active = k]
    /\ UNCHANGED <<cur, candles, series, look, prefs, snap, nav, draft, typed>>

\* Mutant: the second chart appears with the candles it was left with.
SetLayoutStale(n) ==
    LET v == [view EXCEPT !.layout = n, !.active = IF n = 1 THEN 1 ELSE @]
    IN  /\ NoDialog /\ Edit /\ n # view.layout
        /\ cur' = cur /\ view' = v
        /\ candles' = candles
        /\ series' = [k \in Panes |-> IF k \in ShownIn(v) THEN Styled(candles[k], look) ELSE <<>>]
        /\ UNCHANGED <<look, prefs, snap, nav, draft, typed>>

SetLayout(n) ==
    LET v == [view EXCEPT !.layout = n, !.active = IF n = 1 THEN 1 ELSE @]
    IN  /\ NoDialog /\ Edit /\ n # view.layout
        /\ cur' = cur /\ view' = v
        /\ Redraw(v, look, IF n = 2 THEN {2} ELSE {})
        /\ UNCHANGED <<look, prefs, snap, nav, draft, typed>>

ToggleIct ==
    /\ NoDialog /\ Edit
    /\ look' = [look EXCEPT !.ict = ~@]
    /\ prefs' = [prefs EXCEPT !.ict = ~look.ict]
    /\ UNCHANGED <<cur, view, candles, series, snap, nav, draft, typed>>

---------------------------------------------------------------------------
(* The settings: shown as they are edited, kept by OK, put back by Cancel. *)

OpenSettings ==
    /\ NoDialog /\ Edit
    /\ snap' = [look |-> look, zone |-> view.zone]
    /\ UNCHANGED <<cur, view, candles, series, look, prefs, nav, draft, typed>>

\* A new zone rebuilds the charts that are shown, and no other.
Restyle(lk, zone) ==
    LET v == [view EXCEPT !.zone = zone]
    IN  /\ cur' = cur /\ view' = v /\ look' = lk
        /\ Redraw(v, lk, IF zone = view.zone THEN {} ELSE Shown)

\* Any control of the two tabs about the look: it shows at once.
EditLook(lk) ==
    /\ snap # None /\ Edit
    /\ Restyle(lk, view.zone)
    /\ UNCHANGED <<prefs, snap, nav, draft, typed>>

\* The zone, in the tab of the symbol.
SetZone(zone) ==
    /\ snap # None /\ Edit /\ zone # view.zone
    /\ Restyle(look, zone)
    /\ UNCHANGED <<prefs, snap, nav, draft, typed>>

CloseSettings(save) ==
    /\ snap # None
    /\ snap' = None
    /\ IF save
       THEN prefs' = look /\ UNCHANGED <<cur, view, candles, series, look>>
       ELSE Restyle(snap.look, snap.zone) /\ UNCHANGED prefs
    /\ UNCHANGED <<nav, draft, typed, edits>>

---------------------------------------------------------------------------
(* The dialog of the navigation menu. *)

NavFrame == UNCHANGED <<cur, view, candles, series, look, prefs, snap, typed>>

OpenNav == NoDialog /\ Edit /\ draft' = nav /\ nav' = nav /\ NavFrame

SetSlot(x, h) == draft # None /\ Edit /\ draft' = [draft EXCEPT !.slots[x] = h] /\ nav' = nav /\ NavFrame

SkipDays(days) == draft # None /\ Edit /\ draft' = [draft EXCEPT !.skip = days] /\ nav' = nav /\ NavFrame

ResetNav == draft # None /\ draft' = DefaultNav /\ UNCHANGED <<nav, edits>> /\ NavFrame

\* A week of skipped days is refused and the dialog stays.
SaveNav ==
    /\ draft # None /\ draft.skip # 0 .. 6
    /\ nav' = draft /\ draft' = None
    /\ UNCHANGED edits /\ NavFrame

CancelNav == draft # None /\ draft' = None /\ UNCHANGED <<nav, edits>> /\ NavFrame

---------------------------------------------------------------------------
\* A session of one or two charts, opened early in its data.
Init ==
    /\ \E s \in Symbols, n \in Panes :
          view = [zone |-> "NY", layout |-> n, active |-> 1,
                  panes |-> [k \in Panes |-> [tf |-> Min(Timeframes), ds |-> IF k = 1 THEN s ELSE PickOther(s)]]]
    /\ cur = [x \in Symbols |-> UpperIdx(Bars[x], Min({Bars[y][1].t : y \in Symbols}))]
    /\ candles = [k \in Panes |-> BuildCandles(Bars[view.panes[k].ds], cur[view.panes[k].ds], view.panes[k].tf, view.zone)]
    /\ look = [prevClose |-> FALSE, ict |-> TRUE] /\ prefs = look
    /\ series = [k \in Panes |-> Styled(candles[k], look)]
    /\ snap = None /\ nav = DefaultNav /\ draft = None /\ typed = None
    /\ edits = 0

Clock ==
    \/ \E tf \in Timeframes, k \in 1 .. 2 : StepBy(tf, k)
    \/ \E a \in NavItems \cup {"nextSession"} : JumpNext(a)
    \/ \E i \in UNION {DOMAIN Bars[s] : s \in Symbols} : SeekDate(i)
    \/ \E k \in Panes : \E j \in DOMAIN candles[k] : SelectBar(k, j)

Viewing ==
    \/ \E tf \in Timeframes : ClickTf(tf) \/ TypeTf(tf)
    \/ ApplyTyped
    \/ \E s \in Symbols : SetPaneSymbol(s)
    \/ \E k \in Panes : SetActive(k) \/ SetLayout(k)
    \/ ToggleIct

Dialogs ==
    \/ OpenSettings
    \/ \E lk \in Looks : EditLook(lk)
    \/ \E z \in Zones : SetZone(z)
    \/ \E save \in BOOLEAN : CloseSettings(save)
    \/ OpenNav
    \/ \E x \in NavItems, h \in NavTimes : SetSlot(x, h)
    \/ \E days \in SkipChoices : SkipDays(days)
    \/ ResetNav \/ SaveNav \/ CancelNav

Next == Clock \/ Viewing \/ Dialogs

Spec == Init /\ [][Next]_vars

---------------------------------------------------------------------------
(* Properties. *)

\* The candle of a bucket, from the bars from .. to: the first opens, the last closes.
CandleOf(B, b, from, to, tf, zone) ==
    LET mine == {i \in from .. to : Bucket(B, i, tf, zone) = b}
    IN  [time |-> b, open |-> B[Min(mine)].o, close |-> B[Max(mine)].c,
         high |-> Max({B[i].h : i \in mine}), low |-> Min({B[i].l : i \in mine})]

\* Whatever the user switched and however the clock got there - bar by bar
\* or by a rebuild -, a chart that is on the screen holds the candles of its
\* symbol, timeframe and zone up to the clock, only the first of them cut
\* short, and the chart library draws exactly these in their colours
\* (rebuildPane, pushBar, onCandles, ChartPane).
CandlesAreTrue ==
    \A k \in Shown :
        LET p == view.panes[k]
            B == Bars[p.ds]
            c == cur[p.ds]
            cs == candles[k]
        IN  /\ c = 0 => cs = <<>>
            /\ c > 0 => \E f \in 1 .. WindowStart(c, p.tf) :
                  LET times == {Bucket(B, i, p.tf, view.zone) : i \in f .. c}
                  IN  /\ {cs[j].time : j \in DOMAIN cs} = times
                      /\ Len(cs) = Cardinality(times)
                      /\ \A j \in DOMAIN cs : /\ cs[j] = CandleOf(B, cs[j].time, f, c, p.tf, view.zone)
                                              /\ j > 1 => cs[j - 1].time < cs[j].time
            /\ series[k] = Styled(cs, look)

\* The indicators know nothing the clock has not shown: cut every symbol's
\* bars off at the clock and they draw the same ("không bao giờ lộ giá
\* tương lai", ict.ts and smt.ts).
NothingAhead ==
    \A k \in Shown :
        LET p == view.panes[k]
            Past(s) == SubSeq(Bars[s], 1, cur[s])
            o == PickOther(p.ds)
        IN  /\ IctModel(Bars[p.ds], cur[p.ds], p.tf, view.zone) = IctModel(Past(p.ds), cur[p.ds], p.tf, view.zone)
            /\ SmtModel(candles[k], Bars[o], cur[o], p.tf, view.zone) = SmtModel(candles[k], Past(o), cur[o], p.tf, view.zone)

\* What is drawn of the divergences, by the candles it joins.
SmtMarks(cs, lines) ==
    {[from |-> cs[l.k0].time, to |-> cs[l.k1].time, bull |-> l.bull] : l \in lines}

\* One bar more, streamed into the chart, and every killzone, broken pivot and
\* replaced level that ended before the candle under way is drawn again as it
\* was, unless Keep newer runs of the same kind have come (ict.ts).
RunsStay ==
    \A k \in Shown :
        LET p == view.panes[k]
            B == Bars[p.ds]
            c == cur[p.ds]
            marks == IctModel(B, c, p.tf, view.zone)
            later == IctModel(B, c + 1, p.tf, view.zone)
        IN  c \in 1 .. (Len(B) - 1) =>
              \A m \in marks : m.to < OpenTime(B, c, p.tf, view.zone) =>
                 m \in later \/ Cardinality({n.from : n \in {n \in later : n.kind = m.kind /\ n.from > m.from}}) >= Keep

\* One bar more, and every divergence whose last pivot is followed by PivotLen
\* whole candles is drawn again as it was ("Pivot chỉ được xác nhận sau len nến
\* bên phải", smt.ts - true of finished candles only).
LinesStay ==
    \A k \in Shown :
        LET p == view.panes[k]
            B == Bars[p.ds]
            c == cur[p.ds]
            O == Bars[PickOther(p.ds)]
            cs == candles[k]
            next == PushBar(cs, B, c + 1, p.tf, view.zone)
            lines == SmtModel(cs, O, UpperIdx(O, B[c].t), p.tf, view.zone)
            linesLater == SmtModel(next, O, UpperIdx(O, B[c + 1].t), p.tf, view.zone)
        IN  c \in 1 .. (Len(B) - 1) =>
              SmtMarks(cs, {l \in lines : l.k1 + PivotLen < Len(cs)}) \subseteq SmtMarks(next, linesLater)

\* What is drawn of the finished part does not change afterwards (ict.ts, smt.ts).
MarksStay == RunsStay /\ LinesStay

\* Bar i is the first at or after a wanted moment of its own trading day.
Opens(B, i, times, open, skip) ==
    \E d \in 0 .. (NyLocal(B[i].t) \div Day) : \E m \in times :
        LET lt == d * Day + m
        IN  /\ NyToUtc(lt) <= B[i].t /\ (i > 1 => B[i - 1].t < NyToUtc(lt))
            /\ TradingDay(lt, open) = TradingDay(NyLocal(B[i].t), open)
            /\ Weekday(TradingDay(lt, open)) \notin skip

\* A step: at the nearest end of a candle of the active symbol.
StepsLandRight ==
    \A tf \in Timeframes :
        LET B == Bars[ActiveDs]
            c == cur[ActiveDs]
        IN  c < Len(B) => StepTarget(ActiveDs, tf, 1, view.zone) =
               B[Min({j \in (c + 1) .. Len(B) : j = Len(B) \/ Bucket(B, j, tf, view.zone) # Bucket(B, j + 1, tf, view.zone)})].t

\* A jump: at the next bar that opens a wanted session on a day not skipped,
\* nowhere if there is none.
JumpsLandRight ==
    \A a \in NavItems \cup {"nextSession"} :
        LET B == Bars[ActiveDs]
            next == {i \in (Max({1, cur[ActiveDs]}) + 1) .. Len(B) :
                       Opens(B, i, {nav.slots[x] : x \in ActionItems(a)}, nav.slots["dayOpen"], nav.skip)}
        IN  JumpFrom(ActiveDs, a) = IF next = {} THEN None ELSE Min(next)

\* A chosen candle: at its last bar.
ChoicesLandRight ==
    \A k \in Shown : \A j \in DOMAIN candles[k] :
        LET p == view.panes[k]
            i == SelectTarget(k, j)
        IN  /\ Bucket(Bars[p.ds], i, p.tf, view.zone) = candles[k][j].time
            /\ i < Len(Bars[p.ds]) => Bucket(Bars[p.ds], i + 1, p.tf, view.zone) > candles[k][j].time

\* The clock stops where the buttons say (stepTarget, nextJump, selectBar).
ClockLandsRight == StepsLandRight /\ JumpsLandRight /\ ChoicesLandRight

\* A point put on a candle is drawn on that candle, in every zone and on
\* every timeframe, across a clock change too (makeProjector: candleAt and
\* xOfTime undo each other).
AnchorsHold ==
    \A k \in Shown : \A j \in DOMAIN candles[k] :
        LET p == view.panes[k]
            x == XOfTime(candles[k], p.tf, view.zone, CandleAt(candles[k], p.tf, view.zone, j))
        IN  x[1] = (j - 1) * x[2]
===========================================================================
