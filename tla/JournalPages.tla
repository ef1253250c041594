---------------------------- MODULE JournalPages ----------------------------
(***************************************************************************)
(* The pages that read the journal: the dashboard with its month calendar  *)
(* and the dialog of a day, and the trades page with its filters, tabs,    *)
(* pages of rows and export.  Everything a page shows is asked for by the  *)
(* parameters of its URL, answered by the server at some later time and    *)
(* kept in the query cache; the URLs visited form the browser's history.   *)
(*                                                                         *)
(* The account stays the same; a filter has one chosen field (a symbol)    *)
(* and two dates, 0 where it is empty; days count from the first day of    *)
(* the month Origin, months are numbered year * 12 + month - 1.  A change  *)
(* of the journal is one step here: its request, its failure and the sweep *)
(* of the cache are JournalClient's.                                       *)
(***************************************************************************)
EXTENDS Integers, Sequences, FiniteSets, FiniteSetsExt

CONSTANTS Trades,        \* the trades there may be, in the order of their stt
          DayOf, SymbolOf, NetOf,   \* what a trade is, as functions
          StartRows,     \* the trades the journal starts with
          Symbols, Days, \* what the fields of the filter offer
          Origin,        \* the month of day 0, and
          OriginWeekday, \* the day of the week of day 0 (0 is Sunday)
          Months,        \* the months with trades
          DefaultSize, PageSizes, MaxPageSize,
          DialogPage, TooltipTrades,
          FirstUrls,     \* what a bookmark may ask for
          NoData,        \* nothing shown, nothing asked for
          MaxMoves,      \* bound of a run: moves of the user and changes of the journal,
          MaxChanges,    \* the changes among them, and
          MaxPages       \* the pages of the dialog of a day

ASSUME TradesAreNumbered == Trades \subseteq Nat \ {0}
ASSUME DaysAscend == \A s, t \in Trades : s < t => DayOf[s] <= DayOf[t]

\* What the URL can say: 0 and "" are absent parameters, "year" is any other word.
Filters == [symbol : Nat, from : Nat, to : Nat]
Urls == [path : {"/", "/trades"}, filter : Filters, page : Nat, size : Nat,
         view : {"", "trades", "day", "week", "year"}]

ASSUME TradesAreKnown ==
  /\ DayOf \in [Trades -> Nat \ {0}] /\ StartRows \subseteq Trades /\ IsFiniteSet(StartRows)
  /\ Months \subseteq Nat
ASSUME SizesAreSane ==
  DefaultSize \in 1 .. MaxPageSize /\ MaxPageSize \in Nat /\ PageSizes \subseteq Nat
ASSUME UrlsAreRead == FirstUrls \subseteq Urls /\ Symbols \subseteq Nat /\ Days \subseteq Nat

VARIABLES rows,      \* the trades of the journal, at the server
          hist, at,  \* the URLs visited and the one shown
          deferred,  \* the filter React has rendered so far
          cache,     \* the answers kept, by query
          kept,      \* what an observer goes on showing while it waits
          card,      \* the calendar: the month chosen, the day hovered, the day opened, its pages,
                     \* and whether it was opened before the page followed its filter (history)
          removing,  \* the trade whose removal is being confirmed, or 0
          exporting, \* the filter an export under way asks for
          moves, changes,
          stray      \* the page in the URL was chosen for other rows

pagesVars == <<rows, hist, at, deferred, cache, kept, card, removing, exporting, moves, changes, stray>>
page == <<deferred, cache, kept, card, removing>>

NoTrade == 0
EmptyFilter == [symbol |-> 0, from |-> 0, to |-> 0]
Closed == [month |-> 0, hovered |-> 0, opened |-> 0, pages |-> 1, early |-> FALSE]
Unkept == [list |-> NoData, stats |-> NoData, day |-> NoData]

----------------------------------------------------------------------------
(* The URL. *)

url == hist[at]
ReadFilter(u) == u.filter
ReadPage(u) == IF u.page >= 1 THEN u.page ELSE 1
ReadSize(u) == IF u.size < 1 THEN DefaultSize ELSE Min({u.size, MaxPageSize})
ReadView(u) == IF u.view \in {"day", "week"} THEN u.view ELSE "trades"

\* Absent parameters are 0 and "".
WriteParams(path, f, p, size, view) ==
  [path |-> path, filter |-> f,
   page |-> IF p > 1 THEN p ELSE 0,
   size |-> IF size # DefaultSize THEN size ELSE 0,
   view |-> IF view # "trades" THEN view ELSE ""]

\* Mutant: a new filter keeps the page.
FilteredKeepingPage(f) == WriteParams(url.path, f, ReadPage(url), DefaultSize, ReadView(url))
Filtered(f) == WriteParams(url.path, f, 1, DefaultSize, ReadView(url))

----------------------------------------------------------------------------
(* The server's answers. *)

Matches(f, t) == /\ f.symbol \in {0, SymbolOf[t]}
                 /\ f.from = 0 \/ f.from <= DayOf[t]
                 /\ f.to = 0 \/ DayOf[t] <= f.to
Matching(f) == {t \in rows : Matches(f, t)}

\* The rows of one page, the newest trade first.
Paginate(S, p, size) ==
  LET n == IF size < 1 THEN DefaultSize ELSE Min({size, MaxPageSize})
      Place(t) == Cardinality({s \in S : s >= t})
  IN  {t \in S : (p - 1) * n < Place(t) /\ Place(t) <= p * n}

Query(q, f, p, size) == [q |-> q, f |-> f, page |-> p, size |-> size]
ListQuery(u, f) == Query("trades", f, ReadPage(u), ReadSize(u))
StatsQuery(f) == Query("stats", f, 1, DefaultSize)
ChartsQuery(f) == Query("charts", f, 1, DefaultSize)

\* Mutant: the day only opens the range.
DayFilterFrom(f, d) == [f EXCEPT !.from = d]
DayFilter(f, d) == [f EXCEPT !.from = d, !.to = d]
TipQuery == Query("trades", DayFilter(deferred, card.hovered), 1, TooltipTrades)
DialogQuery == Query("trades", DayFilter(deferred, card.opened), 1, DialogPage * card.pages)

Cached(k) == k \in DOMAIN cache
Answered(k) == [query |-> k, rows |-> cache[k]]
Fresh(k) == Cached(k) /\ cache[k] = Matching(k.f)

\* What an observer with placeholderData: keepPreviousData shows.
Shown(k, previous) == IF Cached(k) THEN Answered(k) ELSE previous
ListShown == Shown(ListQuery(url, deferred), kept.list)
StatsShown == Shown(StatsQuery(deferred), kept.stats)
DayShown == IF card.opened = 0 THEN NoData ELSE Shown(DialogQuery, kept.day)
Items(data) == Paginate(data.rows, data.query.page, data.query.size)

OnTrades == url.path = "/trades"
OnDashboard == url.path = "/"
Modal == removing # NoTrade \/ card.opened # 0

\* The dashboard has all it needs to draw; without it the card is not there.
BoardDrawn == OnDashboard /\ Cached(ChartsQuery(deferred)) /\ StatsShown # NoData
CardDrawn == BoardDrawn /\ StatsShown.rows # {}
StillDrawn == IF CardDrawn' THEN card ELSE Closed

----------------------------------------------------------------------------
(* The calendar of a month. *)

Leap(y) == y % 4 = 0 /\ (y % 100 # 0 \/ y % 400 = 0)
DaysIn(m) == CASE m % 12 = 1 -> IF Leap(m \div 12) THEN 29 ELSE 28
               [] m % 12 \in {3, 5, 8, 10} -> 30
               [] OTHER -> 31
FirstDay(m) == MapThenSumSet(DaysIn, Origin .. (m - 1))
DaysOfMonth(m) == FirstDay(m) .. (FirstDay(m) + DaysIn(m) - 1)
Weekday(d) == (OriginWeekday + d) % 7

Net(S) == MapThenSumSet(LAMBDA t : NetOf[t], S)
OnDay(S, d) == {t \in S : DayOf[t] = d}
Abs(n) == IF n < 0 THEN -n ELSE n

\* The months of the answer and the days of a month that have trades.
Charted == cache[ChartsQuery(deferred)]
Available == {m \in Months : \E t \in Charted : DayOf[t] \in DaysOfMonth(m)}
CellDays(m) == {DayOf[t] : t \in {s \in Charted : DayOf[s] \in DaysOfMonth(m)}}
MonthDrawn == CardDrawn /\ Available # {}
Current == IF card.month \in Available THEN card.month ELSE Max(Available)

\* The sizes of the days that won or lost, each as often as it occurs.
Ranked(m) == {d \in CellDays(m) : Net(OnDay(Charted, d)) # 0}
Size(d) == Abs(Net(OnDay(Charted, d)))
Smaller(m, d) == Cardinality({e \in Ranked(m) : Size(e) < Size(d)})

\* Mutant: divides by the number of days.
StepByCount(m, d) == IF Cardinality(Ranked(m)) = 1 THEN 5
                     ELSE (Smaller(m, d) * 4) \div Cardinality(Ranked(m)) + 1
StepByRank(m, d) == IF Cardinality(Ranked(m)) = 1 THEN 5
                    ELSE Min({5, (Smaller(m, d) * 4) \div (Cardinality(Ranked(m)) - 1) + 1})
RankByMagnitude(m, d) == Cardinality({e \in Ranked(m) : Size(e) > Size(d)}) + 1

\* A cell of the grid; one that pads it to whole weeks has no day (-1).
DayCell(m, d) ==
  IF d \notin DaysOfMonth(m) THEN [day |-> -1, net |-> 0, count |-> 0, step |-> 0, rank |-> 0]
  ELSE [day |-> d, net |-> Net(OnDay(Charted, d)), count |-> Cardinality(OnDay(Charted, d)),
        step |-> IF d \in Ranked(m) THEN StepByRank(m, d) ELSE 0,
        rank |-> IF d \in Ranked(m) THEN RankByMagnitude(m, d) ELSE 0]

GridStart(m) == FirstDay(m) - Weekday(FirstDay(m))
GridEnd(m) == LET last == Max(DaysOfMonth(m)) IN last + 6 - Weekday(last)
Weeks(m) == [w \in 1 .. (GridEnd(m) - GridStart(m) + 1) \div 7 |->
               [i \in 1 .. 7 |-> DayCell(m, GridStart(m) + (w - 1) * 7 + i - 1)]]
SumOver(S, f(_)) == MapThenSumSet(f, S)
WeekNet(week) == SumOver(1 .. 7, LAMBDA i : week[i].net)
MonthNet(m) == SumOver(CellDays(m), LAMBDA d : Net(OnDay(Charted, d)))
TradingDays(m) == Cardinality(CellDays(m))

----------------------------------------------------------------------------
(* The pages of rows. *)

PageCount == LET n == IF ListShown = NoData THEN 0 ELSE Cardinality(ListShown.rows)
             IN  Max({1, (n + ReadSize(url) - 1) \div ReadSize(url)})

\* The pages the footer links to; the gaps between them are drawn as dots.
PageHref(p, total) ==
  IF total <= 7 THEN 1 .. total
  ELSE {1, total, p} \cup (IF p <= 4 THEN 2 .. 5
                           ELSE IF p >= total - 3 THEN (total - 4) .. (total - 1)
                           ELSE {p - 1, p + 1})
Neighbours(p, total) == {q \in {p - 1} : p > 1} \cup {q \in {p + 1} : p < total}

TableDrawn == /\ OnTrades /\ ReadView(url) = "trades"
              /\ ListShown # NoData
EmptyState == TableDrawn /\ Items(ListShown) = {}

----------------------------------------------------------------------------
PagesInit == /\ rows = StartRows
        /\ \E u \in FirstUrls : hist = <<u>> /\ deferred = ReadFilter(u)
        /\ at = 1
        /\ cache = [k \in {} |-> {}] /\ kept = Unkept
        /\ card = Closed /\ removing = NoTrade
        /\ exporting = NoData
        /\ moves = 0 /\ changes = 0
        /\ stray = TRUE

\* What waits to be answered keeps showing what it showed.
Hold == kept' = [list |-> ListShown, stats |-> StatsShown, day |-> DayShown]

\* The bound on a run.
Room == moves + changes < MaxMoves

\* The page of the URL is rendered: another page is mounted anew, the same one
\* has other queries and keeps what it showed, its filter rendered a little later.
Visit(u) ==
  /\ Room
  /\ moves' = moves + 1
  /\ IF u.path = url.path
     THEN /\ Hold
          /\ UNCHANGED <<deferred, card, removing>>
     ELSE /\ kept' = Unkept /\ card' = Closed /\ removing' = NoTrade
          /\ deferred' = ReadFilter(u)
  /\ UNCHANGED <<rows, cache, exporting, changes>>

Push(u) == /\ hist' = Append(SubSeq(hist, 1, at), u)
           /\ at' = at + 1
           /\ Visit(u)
Replace(u) == /\ hist' = [hist EXCEPT ![at] = u]
              /\ UNCHANGED at
              /\ Visit(u)

Back == /\ at > 1 /\ at' = at - 1
        /\ Visit(hist[at - 1]) /\ stray' = TRUE
        /\ UNCHANGED hist
Forward == /\ at < Len(hist) /\ at' = at + 1
           /\ Visit(hist[at + 1]) /\ stray' = TRUE
           /\ UNCHANGED hist

\* What the fields of the bar offer, 0 for all; any two may exclude each other.
Offered == [symbol : Symbols \cup {0}, from : Days \cup {0}, to : Days \cup {0}]

\* One field of the filter: chosen, emptied by its chip, or all of them.
SetField == /\ ~Modal
            /\ \E f \in Offered :
                 /\ f = EmptyFilter \/ Cardinality({k \in DOMAIN f : f[k] # ReadFilter(url)[k]}) = 1
                 /\ f # ReadFilter(url)
                 /\ Replace(Filtered(f))
            /\ stray' = FALSE

SetView == /\ OnTrades /\ ~Modal
           /\ \E v \in {"trades", "day", "week"} \ {ReadView(url)} :
                Replace(WriteParams("/trades", ReadFilter(url), 1, ReadSize(url), v))
           /\ stray' = FALSE

SetPageSize == /\ TableDrawn /\ ~EmptyState /\ ~Modal
               /\ \E n \in PageSizes \ {ReadSize(url)} :
                    Replace(WriteParams("/trades", ReadFilter(url), 1, n, ReadView(url)))
               /\ stray' = FALSE

\* A link of the footer, whose last page may be of other rows.
GoToPage ==
  /\ TableDrawn /\ ~EmptyState /\ ~Modal
  /\ \E p \in (PageHref(ReadPage(url), PageCount) \cup Neighbours(ReadPage(url), PageCount)) \ {ReadPage(url)} :
       Push(WriteParams("/trades", ReadFilter(url), p, ReadSize(url), ReadView(url)))
  /\ stray' = ~(Fresh(ListQuery(url, ReadFilter(url))) /\ deferred = ReadFilter(url))

\* The links between the pages carry no parameters.
OpenPage == /\ ~Modal
            /\ \E path \in {"/", "/trades"} \ {url.path} :
                 Push(WriteParams(path, EmptyFilter, 1, DefaultSize, "trades"))
            /\ stray' = FALSE

\* useDeferredValue: the rest of the page follows the filter.  Charts keep
\* nothing while they wait, so the card goes and comes back closed.
CatchUp == /\ deferred # ReadFilter(url)
           /\ deferred' = ReadFilter(url)
           /\ Hold
           /\ UNCHANGED <<rows, hist, at, cache, removing, exporting, moves, changes, stray>>
           /\ card' = StillDrawn

\* An answer to a query of the page, asked for the first time or again.
Load(k) == /\ ~Fresh(k)
           /\ cache' = [q \in DOMAIN cache \cup {k} |-> IF q = k THEN Matching(k.f) ELSE cache[q]]
           /\ UNCHANGED <<rows, hist, at, deferred, kept, removing, exporting, moves, changes, stray>>

LoadList == OnTrades /\ Load(ListQuery(url, deferred)) /\ UNCHANGED card
LoadStats == OnDashboard /\ Load(StatsQuery(deferred)) /\ card' = StillDrawn
\* The month chosen is forgotten when it has no trades left.
LoadCharts == /\ OnDashboard /\ Load(ChartsQuery(deferred))
              /\ card' = IF \E t \in Matching(deferred) : DayOf[t] \in DaysOfMonth(card.month)
                         THEN card ELSE [card EXCEPT !.month = 0]
LoadDay == card.opened # 0 /\ Load(DialogQuery) /\ UNCHANGED card
\* The tooltip of a day without trades asks for nothing.
LoadTip == MonthDrawn /\ card.hovered \in CellDays(Current) /\ Load(TipQuery) /\ UNCHANGED card

----------------------------------------------------------------------------
(* The calendar. *)

Look(c) == /\ Room
           /\ moves' = moves + 1
           /\ card' = c
           /\ UNCHANGED <<rows, hist, at, deferred, cache, removing, exporting, changes, stray>>

TurnMonth == /\ MonthDrawn /\ card.opened = 0
             /\ \E m \in Available :
                  /\ Cardinality({n \in Available : (n < m) # (n < Current)}) <= 1 /\ m # Current
                  /\ Look([card EXCEPT !.month = m, !.hovered = 0])
             /\ UNCHANGED kept
HoverDay == /\ MonthDrawn /\ card.opened = 0
            /\ \E d \in CellDays(Current) \ {card.hovered} : Look([card EXCEPT !.hovered = d])
            /\ UNCHANGED kept
OpenDay == /\ MonthDrawn /\ card.opened = 0
           /\ \E d \in CellDays(Current) : 
                Look([card EXCEPT !.hovered = 0, !.opened = d, !.pages = 1, !.early = deferred # ReadFilter(url)])
           /\ kept' = [kept EXCEPT !.day = NoData]
CloseDay == /\ MonthDrawn /\ card.opened # 0
            /\ Look([card EXCEPT !.opened = 0, !.pages = 1, !.early = FALSE])
            /\ kept' = [kept EXCEPT !.day = NoData]

Remaining(data) == Cardinality(data.rows) - Cardinality(Items(data))
LoadMore == /\ MonthDrawn /\ DayShown # NoData /\ Items(DayShown) # {} /\ Remaining(DayShown) > 0
            /\ card.pages < MaxPages
            /\ Look([card EXCEPT !.pages = @ + 1])
            /\ kept' = [kept EXCEPT !.day = DayShown]

\* A row of the day leads to the journal of that day.
FollowRow == /\ MonthDrawn /\ DayShown # NoData /\ Items(DayShown) # {}
             /\ Push(WriteParams("/trades", DayFilter(deferred, card.opened), 1, DefaultSize, "trades"))
             /\ stray' = FALSE

----------------------------------------------------------------------------
(* Changes of the journal, and the export. *)

Change(S) == /\ Room /\ changes < MaxChanges
             /\ changes' = changes + 1
             /\ rows' = S
             /\ stray' = TRUE
             /\ UNCHANGED <<hist, at, deferred, cache, kept, card, exporting, moves>>

AskRemove == /\ TableDrawn /\ ~Modal /\ Room /\ changes < MaxChanges
             /\ \E t \in Items(ListShown) : removing' = t
             /\ UNCHANGED <<rows, hist, at, deferred, cache, kept, card, exporting, moves, changes, stray>>
Cancel == /\ removing # NoTrade
          /\ removing' = NoTrade
          /\ UNCHANGED <<rows, hist, at, deferred, cache, kept, card, exporting, moves, changes, stray>>
RemoveTrade == /\ removing # NoTrade
               /\ removing' = NoTrade
               /\ Change(rows \ {removing})
\* The form has saved a new trade.
Add == /\ OnTrades /\ ~Modal
       /\ \E t \in Trades \ rows : Change(rows \cup {t})
       /\ UNCHANGED removing

ExportPath(u) == ReadFilter(u)
Export == /\ OnTrades /\ ~Modal /\ exporting = NoData
          /\ ListShown # NoData /\ ListShown.rows # {}
          /\ exporting' = ExportPath(url)
          /\ UNCHANGED <<rows, hist, at, page, moves, changes, stray>>
\* The file is saved, or the export has failed.
Download == /\ exporting # NoData
            /\ exporting' = NoData
            /\ UNCHANGED <<rows, hist, at, page, moves, changes, stray>>

PagesNext == \/ Back \/ Forward \/ SetField \/ SetView \/ SetPageSize \/ GoToPage \/ OpenPage \/ CatchUp
        \/ LoadList \/ LoadStats \/ LoadCharts \/ LoadDay \/ LoadTip
        \/ TurnMonth \/ HoverDay \/ OpenDay \/ CloseDay \/ LoadMore \/ FollowRow
        \/ AskRemove \/ Cancel \/ RemoveTrade \/ Add \/ Export \/ Download

PagesSpec == PagesInit /\ [][PagesNext]_pagesVars

----------------------------------------------------------------------------
(* Properties. *)

\* The trades page says that there is nothing only when there is nothing: a
\* move of the user never ends on a page past the last one, as long as the
\* link was of the rows shown and nothing was removed since (setFilter,
\* setView, setPageSize and path of TradesPage).
EmptyMeansEmpty ==
  EmptyState /\ ~stray /\ deferred = ReadFilter(url) /\ Fresh(ListQuery(url, deferred))
    => Matching(ReadFilter(url)) = {}

\* The tooltip of a day lists the trades its cell counts.
TipAgrees ==
  card.hovered \in CellDays(Current) /\ Fresh(TipQuery) => cache[TipQuery] = OnDay(Charted, card.hovered)

\* So do the dialog of a day and the journal a row of it leads to, unless it was
\* opened before the page followed its filter: the day may be out of it by then.
DialogAgrees ==
  card.opened # 0 /\ ~card.early /\ Fresh(DialogQuery) =>
    /\ Cardinality(DayShown.rows) = Cardinality(OnDay(Charted, card.opened))
    /\ Remaining(DayShown) = 0 => Net(Items(DayShown)) = Net(OnDay(Charted, card.opened))
    /\ Matching(DayFilter(deferred, card.opened)) = OnDay(Charted, card.opened)

\* Once everything is answered, a cell of the calendar, its tooltip, the dialog
\* of the day and the journal a row of it leads to count the same trades
\* (DayTradeList, DayTradesBody and prepareMonthGrid).
NumbersAgree ==
  MonthDrawn /\ Fresh(ChartsQuery(deferred)) => TipAgrees /\ DialogAgrees

\* The grid of a month holds each of its days once, under its day of the week;
\* its weeks add up to the month, the bars grow with the days' results and the
\* best or worst day has the highest one; the cells of all the months hold the
\* trades of the page's figures (prepareMonthGrid, stepByRank, rankByMagnitude).
GridIsTheMonth ==
  MonthDrawn =>
    LET m == Current
        grid == Weeks(m)
        cells == {grid[w][i] : w \in DOMAIN grid, i \in 1 .. 7}
        place == {x \in (DOMAIN grid) \X (1 .. 7) : grid[x[1]][x[2]].day >= 0}
        ranked == {c \in cells : c.step > 0}
    IN  /\ {grid[x[1]][x[2]].day : x \in place} = DaysOfMonth(m)
        /\ Cardinality(place) = DaysIn(m)
        /\ \A x \in place : Weekday(grid[x[1]][x[2]].day) = x[2] - 1
        /\ \A w \in DOMAIN grid : \E i \in 1 .. 7 : <<w, i>> \in place
        /\ SumOver(DOMAIN grid, LAMBDA w : WeekNet(grid[w])) = MonthNet(m)
        /\ TradingDays(m) = Cardinality({c \in cells : c.count > 0})
        /\ \A c \in cells : c.net = 0 <=> c.step = 0
        /\ \A b, c \in ranked : /\ Abs(b.net) <= Abs(c.net) => b.step <= c.step
                                /\ Abs(b.net) < Abs(c.net) <=> b.rank > c.rank
        /\ ranked # {} => \E c \in ranked : c.step = 5 /\ c.rank = 1
        /\ Fresh(ChartsQuery(deferred)) /\ Fresh(StatsQuery(deferred)) =>
             SumOver(Available, LAMBDA n : SumOver(CellDays(n), LAMBDA d : Cardinality(OnDay(Charted, d))))
               = Cardinality(StatsShown.rows)
=============================================================================
