------------------------------ MODULE LiveBars ------------------------------
(***************************************************************************)
(* One-minute bars of one symbol: LiveBarService of the backend, the table *)
(* replay_bars and the "Update" button of the browsers.                    *)
(*                                                                         *)
(* A minute is a natural number, now the minute being traded.  A bar is    *)
(* the minute it opens at and the source it came from; prices are not      *)
(* modelled.  Fetches, the two writes, the publication in the cache and    *)
(* every page a browser reads are separate steps; every one of them can    *)
(* fail.                                                                   *)
(***************************************************************************)
EXTENDS Naturals, FiniteSets, FiniteSetsExt

CONSTANTS
    Browsers,
    Market,     \* the minutes in which the market is open
    Bundle,     \* the bars every browser starts with
    Week,       \* LiveOverlap, yahooButtonBack and the reach of TradingView
    Month,      \* yahoofeed.MaxBack: the reach of Yahoo for the cron
    YahooLacks, \* the minutes Yahoo never has
    MaxGap,     \* liveMaxGap
    TTL,        \* liveTTL
    ErrTTL,     \* liveErrTTL
    PageSize,   \* LivePageSize
    CronAt,     \* bound: the minutes in which Vercel calls the weekly job
    Start,      \* bound: the minute the behaviour starts in
    MaxTime     \* bound: the last minute

ASSUME TimeAssumption ==
    /\ {Week, Month, MaxGap, TTL, ErrTTL, PageSize, Start, MaxTime} \subseteq Nat
    /\ PageSize > 0 /\ Week <= Month
    /\ Start <= MaxTime /\ Market \subseteq 1..MaxTime
    /\ Bundle \subseteq {t \in Market : t < Start} /\ Bundle # {}

VARIABLES
    now,       \* the current minute
    db,        \* db[t]: the source of the stored bar of minute t, or "none"
    cache,     \* LiveBarService.cache of this symbol, or NoCache
    flight,    \* flight[k]: the singleflight call with key k, or NoFlight
    cron,      \* the weekly job
    bars,      \* bars[b]: the minutes browser b holds
    browser    \* browser[b]: where the Update button of b is

vars == <<now, db, cache, flight, cron, bars, browser>>

-----------------------------------------------------------------------------
(* Types                                                                   *)

Minutes == 1..MaxTime
Times == 0..MaxTime
Kinds == {"button", "cron"}

\* liveEntry: the bars of each source ({} when it failed) and whether the
\* writes failed; the cache adds when they were fetched.
Entry == [tv : SUBSET Minutes, yahoo : SUBSET Minutes, saveErr : BOOLEAN]
NoEntry == [tv |-> {}, yahoo |-> {}, saveErr |-> FALSE]
Cache == [at : Times, e : Entry]
NoCache == [at |-> 0, e |-> NoEntry]

Flight == [step : {"fetch", "upsert", "fill", "publish"}, from : Times, back : {Week, Month},
           at : Times, e : Entry]
NoFlight == [step |-> "none"]

\* RefreshAll: since when it runs, and whether its last run reported success.
Cron == [step : {"idle", "wait"}, from : Times, ok : BOOLEAN]

\* A press of the button: when it was (history), the entry the server answers
\* from and hands over (NoEntry when it hands over what is stored), the bars
\* that were received so far, and the page cursor.
Press == [step : {"idle", "wait", "answer", "page", "older"}, at : Times, e : Entry,
          got : SUBSET Minutes, older : SUBSET Minutes, after : Times]

TypeOK ==
    /\ now \in Times
    /\ db \in [Minutes -> {"none", "tradingview", "yahoo"}]
    /\ cache \in Cache
    /\ flight \in [Kinds -> Flight \cup {NoFlight}]
    /\ cron \in Cron
    /\ bars \in [Browsers -> SUBSET Minutes]
    /\ browser \in [Browsers -> Press]

-----------------------------------------------------------------------------
(* Bars                                                                    *)

Stored == {t \in Minutes : db[t] # "none"}

\* MinuteBars of an entry: TradingView's, its gaps filled with Yahoo's.
BarsOf(e) == e.tv \cup e.yahoo
\* MinuteBars.Except: the minutes of Yahoo that TradingView does not have.
Gaps(e) == e.yahoo \ e.tv

\* liveEntry.err: no source has a bar.
Failed(e) == BarsOf(e) = {}

\* The closed bars a source has from `back` minutes before `from`.
Reach(from, back) == {t \in Market : t + back > from /\ t < now}

\* What TradingView may answer: nothing, or its week, cut short when asking
\* for older bars fails, less one minute that it will only return later.
TradingViewAnswers(from) ==
    LET week == Reach(from, Week)
    IN  {{}} \cup {{u \in week : u >= first /\ u # late} : first \in week, late \in week \cup {0}}
YahooAnswers(from, back) == {{}, Reach(from, back) \ YahooLacks}

\* ReplayBarRepo.After: the first PageSize stored bars after one minute and
\* before another (0 for no bound), and whether there are more.
Rows(after, before) == {t \in Stored : t > after /\ (before = 0 \/ t < before)}
Page(after, before) ==
    LET rows == Rows(after, before)
    IN  {t \in rows : Cardinality({u \in rows : u < t}) < PageSize}
More(after, before) == Page(after, before) # Rows(after, before)

\* The stored bars the button asks the server for when the last bar is `last`
\* are those after it, less LiveOverlap.
Since(last) == IF last > Week THEN last - Week ELSE 0

\* LiveBarService.cached: an entry is good for TTL, an error for ErrTTL.
Fresh(c, time) == c # NoCache /\ time < c.at + (IF Failed(c.e) THEN ErrTTL ELSE TTL)

NotPressed ==
    [step |-> "idle", at |-> 0, e |-> NoEntry, got |-> {}, older |-> {}, after |-> 0]

Init ==
    /\ now = Start
    /\ db = [t \in Minutes |-> "none"]
    /\ cache = NoCache
    /\ flight = [k \in Kinds |-> NoFlight]
    /\ cron = [step |-> "idle", from |-> 0, ok |-> FALSE]
    /\ bars = [b \in Browsers |-> Bundle]
    /\ browser = [b \in Browsers |-> NotPressed]

-----------------------------------------------------------------------------
(* load: the cache, and one shared fetch per key                           *)

\* Mutant: one flight for the button and the weekly job.
KeyOfSymbol(kind) == "button"

\* The key of the singleflight call: the symbol and how far back Yahoo goes.
Key(kind) == kind
Back(kind) == IF kind = "cron" THEN Month ELSE Week

\* singleflight.Group.DoChan: join the call of this key or begin it.
Join(kind) ==
    IF flight[Key(kind)] # NoFlight THEN UNCHANGED flight
    ELSE flight' = [flight EXCEPT ![Key(kind)] =
           [step |-> "fetch", from |-> now, back |-> Back(kind),
            at |-> now, e |-> NoEntry]]

\* Both sources have answered or failed; what failed counts as no bars.
Fetch(k) ==
    /\ flight[k].step = "fetch"
    /\ \E tv \in TradingViewAnswers(flight[k].from),
          yahoo \in YahooAnswers(flight[k].from, flight[k].back) :
         flight' = [flight EXCEPT ![k].e = [tv |-> tv, yahoo |-> yahoo, saveErr |-> FALSE], ![k].at = now,
                                  ![k].step = IF tv \cup yahoo = {} THEN "publish" ELSE "upsert"]
    /\ UNCHANGED <<now, db, cache, cron, bars, browser>>

\* One INSERT ... ON CONFLICT statement.  A deadline may cut the wait for its
\* answer: then the statement has an error and may still have been executed.
Write(k, written, next) ==
    \E answered \in BOOLEAN :
        /\ \E executed \in {TRUE, answered} : db' = IF executed THEN written ELSE db
        /\ flight' = [flight EXCEPT ![k].step = next, ![k].e.saveErr = @ \/ ~answered]

\* ReplayBarRepo.Upsert: TradingView's bars, over whatever is stored.
Upsert(k) ==
    /\ flight[k].step = "upsert"
    /\ IF flight[k].e.tv = {}
       THEN flight' = [flight EXCEPT ![k].step = "fill"] /\ UNCHANGED db
       ELSE Write(k, [t \in Minutes |-> IF t \in flight[k].e.tv THEN "tradingview" ELSE db[t]], "fill")
    /\ UNCHANGED <<now, cache, cron, bars, browser>>

\* Mutant: Yahoo's bars overwrite.
FillOverwrites(k) ==
    /\ flight[k].step = "fill"
    /\ IF flight[k].e.yahoo = {}
       THEN flight' = [flight EXCEPT ![k].step = "publish"] /\ UNCHANGED db
       ELSE Write(k, [t \in Minutes |-> IF t \in flight[k].e.yahoo THEN "yahoo" ELSE db[t]], "publish")
    /\ UNCHANGED <<now, cache, cron, bars, browser>>

\* ReplayBarRepo.Fill: Yahoo's bars, where nothing is stored.
Fill(k) ==
    /\ flight[k].step = "fill"
    /\ IF Gaps(flight[k].e) = {}
       THEN flight' = [flight EXCEPT ![k].step = "publish"] /\ UNCHANGED db
       ELSE Write(k, [t \in Minutes |-> IF t \in Gaps(flight[k].e) \ Stored THEN "yahoo" ELSE db[t]],
                  "publish")
    /\ UNCHANGED <<now, cache, cron, bars, browser>>

\* The entry goes into the cache, over the entry of the other key if need be,
\* and to everyone who waits for this flight.
Publish(k) ==
    /\ flight[k].step = "publish"
    /\ LET e == flight[k].e IN
         /\ cache' = [at |-> flight[k].at, e |-> e]
         /\ browser' = [b \in Browsers |->
              IF browser[b].step = "wait" /\ k = Key("button")
              THEN [browser[b] EXCEPT !.step = "answer", !.e = e] ELSE browser[b]]
         /\ cron' = IF cron.step = "wait" /\ k = Key("cron")
                    THEN [step |-> "idle", from |-> 0, ok |-> e.tv # {} /\ e.yahoo # {} /\ ~e.saveErr]
                    ELSE cron
    /\ flight' = [flight EXCEPT ![k] = NoFlight]
    /\ UNCHANGED <<now, db, bars>>

\* RefreshAll: the weekly job never uses the cache.
StartCron ==
    /\ cron.step = "idle"
    /\ now \in CronAt
    /\ cron' = [step |-> "wait", from |-> now, ok |-> FALSE]
    /\ Join("cron")
    /\ UNCHANGED <<now, db, cache, bars, browser>>

-----------------------------------------------------------------------------
(* The Update button: refreshLive and fetchLiveBars against Latest, Stored *)

Last(b) == Max(bars[b])
First(b) == Min(bars[b])

Click(b) ==
    /\ browser[b].step = "idle"
    /\ IF Fresh(cache, now)
       THEN /\ browser' = [browser EXCEPT ![b] = [NotPressed EXCEPT !.step = "answer", !.at = now,
                                                                        !.e = cache.e]]
            /\ UNCHANGED flight
       ELSE /\ browser' = [browser EXCEPT ![b] = [NotPressed EXCEPT !.step = "wait", !.at = now]]
            /\ Join("button")
    /\ UNCHANGED <<now, db, cache, cron, bars>>

\* The press ends without bars: an error answer, or the user left.
GiveUp(b) ==
    /\ browser[b].step # "idle"
    /\ browser' = [browser EXCEPT ![b] = NotPressed]
    /\ UNCHANGED <<now, db, cache, flight, cron, bars>>

\* A page arrived, of the entry e or of what is stored (NoEntry): read the next
\* one, or the bars older than the first.
Received(p, e, page, more) ==
    [p EXCEPT !.e = e, !.got = @ \cup page,
              !.step = IF more THEN "page" ELSE "older",
              !.after = IF more THEN Max(page) ELSE 0]
Receive(b, e, page, more) ==
    browser' = [browser EXCEPT ![b] = Received(@, e, page, more)]

\* Latest, its database read succeeding: the stored page; when no source
\* answered it must not be empty.
AnswerStored(b) ==
    /\ browser[b].step = "answer"
    /\ ~browser[b].e.saveErr
    /\ LET since == Since(Last(b)) IN
         /\ Failed(browser[b].e) => Page(since, 0) # {}
         /\ Receive(b, NoEntry, Page(since, 0), More(since, 0))
    /\ UNCHANGED <<now, db, cache, flight, cron, bars>>

\* Mutant: the fetched bars are returned whatever the browser holds.
AnswerFetchedAnyway(b) ==
    /\ browser[b].step = "answer"
    /\ ~Failed(browser[b].e)
    /\ Receive(b, browser[b].e, {t \in BarsOf(browser[b].e) : t > Since(Last(b))}, FALSE)
    /\ UNCHANGED <<now, db, cache, flight, cron, bars>>

\* Latest, the bars not saved or the database read failing: the fetched bars,
\* when they follow what the browser holds.
AnswerFetched(b) ==
    /\ browser[b].step = "answer"
    /\ LET e == browser[b].e IN
           /\ ~Failed(e)
           /\ Min(BarsOf(e)) <= Last(b) + MaxGap
           /\ Receive(b, e, {t \in BarsOf(e) : t > Since(Last(b))}, FALSE)
    /\ UNCHANGED <<now, db, cache, flight, cron, bars>>

\* Stored: the next page after the last bar of the one before.
NextPage(b) ==
    /\ browser[b].step = "page"
    /\ Receive(b, NoEntry, Page(browser[b].after, 0), More(browser[b].after, 0))
    /\ UNCHANGED <<now, db, cache, flight, cron, bars>>

\* mergeBars: the bars received are added to those held.
Merge(b, fresh) ==
    /\ bars' = [bars EXCEPT ![b] = @ \cup fresh]
    /\ browser' = [browser EXCEPT ![b] = NotPressed]

\* The bars before the first one, page by page; a failure drops all of them
\* and keeps the rest.
OlderPage(b) ==
    /\ browser[b].step = "older"
    /\ LET page == Page(browser[b].after, First(b))
       IN  IF More(browser[b].after, First(b))
           THEN /\ browser' = [browser EXCEPT ![b].older = @ \cup page, ![b].after = Max(page)]
                /\ UNCHANGED bars
           ELSE Merge(b, browser[b].got \cup browser[b].older \cup page)
    /\ UNCHANGED <<now, db, cache, flight, cron>>

OlderFails(b) ==
    /\ browser[b].step = "older"
    /\ Merge(b, browser[b].got)
    /\ UNCHANGED <<now, db, cache, flight, cron>>

-----------------------------------------------------------------------------
(* Time and crashes                                                        *)

\* A whole flight takes less than a minute (cronBudget is 9 seconds), so it
\* sees at most one change of the minute.  An entry that has expired is a
\* miss for ever and is forgotten here.
Tick ==
    /\ now < MaxTime
    /\ \A k \in Kinds : flight[k] # NoFlight => flight[k].from = now
    /\ now' = now + 1
    /\ cache' = IF Fresh(cache, now') THEN cache ELSE NoCache
    /\ UNCHANGED <<db, flight, cron, bars, browser>>

\* The process stops: the cache and the flights are gone, the callers get an
\* error.
Restart ==
    /\ cache # NoCache \/ \E k \in Kinds : flight[k] # NoFlight
    /\ cache' = NoCache
    /\ flight' = [k \in Kinds |-> NoFlight]
    /\ cron' = IF cron.step = "wait" THEN [step |-> "idle", from |-> 0, ok |-> FALSE] ELSE cron
    /\ browser' = [b \in Browsers |-> IF browser[b].step \in {"wait", "answer"} THEN NotPressed
                                      ELSE browser[b]]
    /\ UNCHANGED <<now, db, bars>>

-----------------------------------------------------------------------------
Serve(k) == Fetch(k) \/ Upsert(k) \/ Fill(k) \/ Publish(k)
Browse(b) ==
    \/ AnswerStored(b) \/ AnswerFetched(b) \/ NextPage(b)
    \/ OlderPage(b) \/ OlderFails(b) \/ GiveUp(b)

Next ==
    \/ Tick \/ Restart \/ StartCron
    \/ \E k \in Kinds : Serve(k)
    \/ \E b \in Browsers : Click(b) \/ Browse(b)

Spec == Init /\ [][Next]_vars

-----------------------------------------------------------------------------
(* Properties                                                              *)

\* Yahoo only fills: a stored TradingView bar is never replaced by Yahoo's and
\* no stored bar disappears, whichever flights write at once.
TradingViewWins ==
    [][\A t \in Minutes : db[t] # "none" =>
         db'[t] = "tradingview" \/ db'[t] = db[t]]_vars

\* A weekly job that reports success has stored every bar Yahoo had for the
\* month, not just the week of a button's flight or of the cache.
CronOkMeansSaved ==
    [][cron.step = "wait" /\ cron'.ok =>
         \A t \in Market \ YahooLacks : t + Month > cron.from /\ t < cron.from => t \in Stored]_vars

\* The stored bars that lie among those a browser holds, and that the button
\* will not ask for again.
Missed(b) == {t \in Stored \ bars[b] : First(b) < t /\ t <= Since(Last(b))}

\* A stored bar gets out of reach of a browser's button in three ways only:
\* Yahoo stored it more than a week after its minute; the browser was handed
\* fetched bars that start behind it, at most MaxGap after the browser's last,
\* or a month of Yahoo's that lacks it; or it was stored behind a page the
\* browser had read, and the press then went on until the bar was a week old.
OnlyBackfillIsMissed ==
    [][\A b \in Browsers : \A t \in Missed(b)' \ Missed(b) :
         \/ db'[t] = "yahoo" /\ t + Week < now
         \/ LET fetched == BarsOf(browser[b].e) IN
            /\ bars'[b] # bars[b] /\ fetched # {} /\ t \notin fetched
            /\ IF t < Min(fetched) THEN Min(fetched) <= Last(b) + MaxGap ELSE t \in YahooLacks
         \/ bars'[b] # bars[b] /\ browser[b].at <= t + Week]_vars
=============================================================================
