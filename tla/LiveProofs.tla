----------------------------- MODULE LiveProofs -----------------------------
(***************************************************************************)
(* What LiveBars promises, for any market, any reach of the two sources,   *)
(* any page size and any number of browsers: TradingView's bars win, a     *)
(* weekly job that reports success has saved the month, and a stored bar   *)
(* gets out of reach of the Update button in three ways only.              *)
(***************************************************************************)
EXTENDS LiveBars, FiniteSetTheorems, WellFoundedInduction, TLAPS

\* An entry fetched before minute m: its bars are minutes of the market that
\* have passed, and what is missing deep between them Yahoo does not have.
EntrySound(e, m) ==
    /\ BarsOf(e) \subseteq Market
    /\ \A t \in BarsOf(e) : t < m
    /\ \A t \in Market \ BarsOf(e), u, v \in BarsOf(e) : u < t /\ t + Week <= v => t \in YahooLacks

\* A call f under way in minute m: it is young, its entry is sound, and what
\* it has written without an error is among the bars in store.
FlightSound(k, f, store, m) ==
    /\ f.back = Back(k) /\ f.from <= m /\ m <= f.from + 1 /\ f.at <= m
    /\ EntrySound(f.e, m)
    /\ \A t \in f.e.tv : t + Week > f.from
    /\ f.e.yahoo # {} => \A t \in Market \ YahooLacks : t + f.back > f.from /\ t < f.from => t \in f.e.yahoo
    /\ f.step \in {"fill", "publish"} /\ ~f.e.saveErr => f.e.tv \subseteq store
    /\ f.step = "publish" /\ ~f.e.saveErr => f.e.yahoo \subseteq store

FlightsInv == \A k \in Kinds : flight[k] # NoFlight => FlightSound(k, flight[k], Stored, now)

\* The weekly job waits as long as its call runs.
CronInv ==
    /\ cron.step = "wait" <=> flight["cron"] # NoFlight
    /\ cron.step = "wait" => ~cron.ok /\ flight["cron"].from = cron.from

\* Bars are minutes of the market that have passed; a browser has some.
BarsInv ==
    /\ Stored \subseteq Market
    /\ \A t \in Stored : t < now
    /\ \A b \in Browsers : bars[b] # {} /\ \A t \in bars[b] : t < now

\* Bar t was stored while the press p lasted, or too late by Yahoo.
Late(p, t, table, m) == p.at <= t + Week \/ (table[t] = "yahoo" /\ t + Week < m)

\* What a press was handed, over the bars `held`: from the store, every bar up
\* to its cursor but the late ones; otherwise the fetched ones, which follow.
NewerSound(p, held, table, m) ==
    /\ \A t \in p.got : t > Since(Max(held))
    /\ p.step = "page" => p.e = NoEntry /\ p.after > Since(Max(held))
    /\ p.step \in {"page", "older"} /\ p.e = NoEntry =>
         \A t \in Minutes : /\ table[t] # "none" /\ t > Since(Max(held))
                            /\ p.step = "page" => t <= p.after
                            => t \in p.got \/ Late(p, t, table, m)
    /\ p.step = "older" /\ p.e # NoEntry =>
         /\ BarsOf(p.e) # {} /\ Min(BarsOf(p.e)) <= Max(held) + MaxGap
         /\ p.got = {t \in BarsOf(p.e) : t > Since(Max(held))}
OlderSound(p, held, table, m) ==
    /\ \A t \in p.older : t < Min(held)
    /\ p.step = "older" => \A t \in Minutes : table[t] # "none" /\ t < Min(held) /\ t <= p.after
                                              => t \in p.older \/ Late(p, t, table, m)
PressSound(p, held, table, m) ==
    /\ p.at <= m /\ EntrySound(p.e, m)
    /\ \A t \in p.got \cup p.older : t < m
    /\ p.step \in {"wait", "answer"} => p.got = {}
    /\ NewerSound(p, held, table, m) /\ OlderSound(p, held, table, m)

PressInv == \A b \in Browsers : PressSound(browser[b], bars[b], db, now)

LiveInv == TypeOK /\ FlightsInv /\ CronInv /\ EntrySound(cache.e, now) /\ BarsInv /\ PressInv

-----------------------------------------------------------------------------
(* The operators the model is built from.                                  *)

\* The constants are numbers, the market is some of the minutes.
LEMMA Numbers ==
    /\ Week \in Nat /\ Month \in Nat /\ MaxGap \in Nat /\ TTL \in Nat /\ ErrTTL \in Nat
    /\ PageSize \in Nat /\ PageSize > 0 /\ Start \in Nat /\ MaxTime \in Nat /\ Start <= MaxTime
    /\ Market \subseteq Minutes /\ Minutes \subseteq Nat /\ Times \subseteq Nat
    /\ Bundle \subseteq Market /\ Bundle # {} /\ \A t \in Bundle : t < Start
    /\ \A t \in Minutes : t > 0 /\ t <= MaxTime
<1>1. {Week, Month, MaxGap, TTL, ErrTTL, PageSize, Start, MaxTime} \subseteq Nat
  BY TimeAssumption
<1>2. /\ Week \in Nat /\ Month \in Nat /\ MaxGap \in Nat /\ TTL \in Nat /\ ErrTTL \in Nat
      /\ PageSize \in Nat /\ Start \in Nat /\ MaxTime \in Nat
  BY <1>1
<1> QED BY <1>2, TimeAssumption DEF Minutes, Times

\* A set of minutes that is not empty has a least minute, and Min is it.
LEMMA MinIsLeast ==
    ASSUME NEW S \in SUBSET Minutes, S # {}
    PROVE  Min(S) \in S /\ \A x \in S : Min(S) <= x
<1>1. S \subseteq Nat
  BY Numbers
<1>2. PICK x \in S : \A y \in S : ~(<<y, x>> \in OpToRel(<, Nat))
  <2>1. IsWellFoundedOn(OpToRel(<, Nat), Nat)
    BY NatLessThanWellFounded
  <2> QED BY <1>1, <2>1, WFMin
<1>3. \A y \in S : x <= y
  <2> TAKE y \in S
  <2>1. y \in Nat /\ x \in Nat
    BY <1>1
  <2>2. ~(y < x)
    BY <1>2, <2>1 DEF OpToRel
  <2> QED BY <2>1, <2>2
<1> QED BY <1>3 DEF Min

\* So has its mirror image, and Max is the greatest.
LEMMA MaxIsGreatest ==
    ASSUME NEW S \in SUBSET Minutes, S # {}
    PROVE  Max(S) \in S /\ \A x \in S : x <= Max(S)
<1> DEFINE Mirror == {MaxTime + 1 - t : t \in S}
<1>1. S \subseteq Nat /\ MaxTime \in Nat /\ \A t \in S : t > 0 /\ t <= MaxTime
  BY Numbers
<1>2. Mirror \in SUBSET Minutes
  <2> SUFFICES ASSUME NEW t \in S PROVE MaxTime + 1 - t \in 1..MaxTime
    BY DEF Minutes
  <2>1. t \in Nat /\ t > 0 /\ t <= MaxTime /\ MaxTime \in Nat
    BY <1>1
  <2> QED BY <2>1
<1>3. Min(Mirror) \in Mirror /\ \A x \in Mirror : Min(Mirror) <= x
  <2>1. Mirror # {}
    OBVIOUS
  <2> HIDE DEF Mirror
  <2> QED BY <1>2, <2>1, MinIsLeast
<1>4. PICK g \in S : Min(Mirror) = MaxTime + 1 - g
  BY <1>3
<1>5. \A x \in S : x <= g
  <2> TAKE x \in S
  <2>1. MaxTime + 1 - g <= MaxTime + 1 - x
    BY <1>3, <1>4
  <2>2. x \in Nat /\ g \in Nat /\ MaxTime \in Nat
    BY <1>1
  <2> QED BY <2>1, <2>2
<1> QED BY <1>5 DEF Max

\* Since(last) is a week before it.
LEMMA SinceIsAWeek ==
    ASSUME NEW last \in Minutes
    PROVE  Since(last) \in Nat /\ \A t \in Minutes : t <= Since(last) <=> t + Week <= last
<1>1. last \in Nat /\ Week \in Nat /\ last > 0
  BY Numbers
<1>2. Since(last) \in Nat
  BY <1>1 DEF Since
<1>3. ASSUME NEW t \in Minutes PROVE t <= Since(last) <=> t + Week <= last
  <2>1. t \in Nat /\ t > 0
    BY Numbers
  <2>2. CASE last > Week
    <3>1. Since(last) = last - Week
      BY <2>2 DEF Since
    <3> QED BY <3>1, <2>1, <1>1
  <2>3. CASE ~(last > Week)
    <3>1. Since(last) = 0
      BY <2>3 DEF Since
    <3> QED BY <3>1, <2>3, <2>1, <1>1
  <2> QED BY <2>2, <2>3
<1> QED BY <1>2, <1>3

\* What is in store are minutes.
LEMMA StoredTyped == Stored \subseteq Minutes
BY DEF Stored

\* A page is the first rows: with a row it has all earlier ones, and it has
\* one when there are any.
LEMMA PageIsFirst ==
    ASSUME NEW after, NEW before
    PROVE  /\ Page(after, before) \subseteq Rows(after, before)
           /\ Rows(after, before) \subseteq Stored
           /\ \A t \in Rows(after, before), u \in Page(after, before) : t <= u => t \in Page(after, before)
           /\ Rows(after, before) # {} => Page(after, before) # {}
<1> DEFINE rows == Rows(after, before)
           Below(t) == {u \in rows : u < t}
<1>1. rows \subseteq Stored /\ rows \in SUBSET Minutes /\ rows \subseteq Nat
  BY StoredTyped, Numbers DEF Rows
<1>2. Page(after, before) = {t \in rows : Cardinality(Below(t)) < PageSize}
  BY DEF Page
<1>3. IsFiniteSet(rows)
  <2>1. IsFiniteSet(Minutes)
    BY Numbers, FS_Interval DEF Minutes
  <2> QED BY <2>1, <1>1, FS_Subset
<1>4. ASSUME NEW t \in rows, NEW u \in Page(after, before), t <= u PROVE t \in Page(after, before)
  <2>1. u \in rows /\ Cardinality(Below(u)) < PageSize
    BY <1>2
  <2>2. Below(t) \subseteq Below(u)
    <3> SUFFICES ASSUME NEW x \in rows, x < t PROVE x < u
      OBVIOUS
    <3> QED BY <1>1, <1>4, <2>1
  <2>3. IsFiniteSet(Below(u))
    <3>1. Below(u) \subseteq rows
      OBVIOUS
    <3> QED BY <3>1, <1>3, FS_Subset
  <2>4. Cardinality(Below(t)) <= Cardinality(Below(u)) /\ Cardinality(Below(t)) \in Nat /\ Cardinality(Below(u)) \in Nat
    <3> HIDE DEF Below
    <3>1. IsFiniteSet(Below(t))
      BY <2>2, <2>3, FS_Subset
    <3> QED BY <2>2, <2>3, <3>1, FS_Subset, FS_CardinalityType
  <2>5. Cardinality(Below(t)) < PageSize
    <3> HIDE DEF Below
    <3>1. PageSize \in Nat
      BY Numbers
    <3> QED BY <2>1, <2>4, <3>1
  <2> QED BY <1>2, <2>5
<1>5. ASSUME rows # {} PROVE Page(after, before) # {}
  <2>1. Min(rows) \in rows /\ \A x \in rows : Min(rows) <= x
    <3> HIDE DEF rows
    <3> QED BY <1>1, <1>5, MinIsLeast
  <2>2. Below(Min(rows)) = {}
    <3> SUFFICES ASSUME NEW x \in rows, x < Min(rows) PROVE FALSE
      OBVIOUS
    <3> HIDE DEF rows
    <3>1. Min(rows) <= x /\ x \in Nat /\ Min(rows) \in Nat
      BY <1>1, <2>1
    <3> QED BY <3>1
  <2>3. Cardinality(Below(Min(rows))) = 0
    BY <2>2, FS_EmptySet
  <2>4. 0 < PageSize
    BY Numbers
  <2> QED BY <2>1, <2>3, <2>4, <1>2
<1> QED BY <1>1, <1>2, <1>4, <1>5

\* When there are more rows, the page has a last one, and all up to it.
LEMMA PageHasALast ==
    ASSUME NEW after, NEW before, More(after, before)
    PROVE  /\ Max(Page(after, before)) \in Minutes /\ Max(Page(after, before)) \in Page(after, before)
           /\ \A t \in Rows(after, before) : t <= Max(Page(after, before)) => t \in Page(after, before)
<1> DEFINE page == Page(after, before)
<1>1. page # {}
  BY PageIsFirst DEF More
<1>2. page \in SUBSET Minutes
  BY PageIsFirst, StoredTyped
<1>3. Max(page) \in page
  <2> HIDE DEF page
  <2> QED BY <1>1, <1>2, MaxIsGreatest
<1> QED BY <1>2, <1>3, PageIsFirst

-----------------------------------------------------------------------------
(* Types, and what the steps do to the records.                            *)

\* A call under way is a record, and its fields have their types.
LEMMA FlightRecord ==
    ASSUME TypeOK, NEW k \in Kinds, flight[k] # NoFlight
    PROVE  /\ flight[k] \in Flight
           /\ flight[k].step \in {"fetch", "upsert", "fill", "publish"}
           /\ flight[k].from \in Times /\ flight[k].back \in {Week, Month} /\ flight[k].at \in Times
           /\ flight[k].e \in Entry
           /\ flight[k].e.tv \in SUBSET Minutes /\ flight[k].e.yahoo \in SUBSET Minutes
           /\ flight[k].e.saveErr \in BOOLEAN
<1>1. flight[k] \in Flight
  BY DEF TypeOK
<1> QED BY <1>1 DEF Flight, Entry

\* No call has no step.
LEMMA NoFlightStep ==
    ASSUME NEW k \in Kinds, flight[k].step \in {"fetch", "upsert", "fill", "publish"}
    PROVE  flight[k] # NoFlight
BY DEF NoFlight

\* A press of the button is a record.
LEMMA PressRecord ==
    ASSUME TypeOK, NEW b \in Browsers
    PROVE  /\ browser[b] \in Press
           /\ browser[b].step \in {"idle", "wait", "answer", "page", "older"}
           /\ browser[b].at \in Times /\ browser[b].e \in Entry /\ browser[b].after \in Times
           /\ browser[b].got \in SUBSET Minutes /\ browser[b].older \in SUBSET Minutes
           /\ browser[b].e.tv \in SUBSET Minutes /\ browser[b].e.yahoo \in SUBSET Minutes
           /\ browser[b].e.saveErr \in BOOLEAN
           /\ bars[b] \in SUBSET Minutes
<1>1. browser[b] \in Press /\ bars[b] \in SUBSET Minutes
  BY DEF TypeOK
<1> QED BY <1>1 DEF Press, Entry

\* The sources answer with minutes of the market that have passed.
LEMMA AnswersTyped ==
    ASSUME NEW from, NEW back, NEW tv \in TradingViewAnswers(from), NEW yahoo \in YahooAnswers(from, back)
    PROVE  /\ tv \subseteq Reach(from, Week) /\ yahoo \subseteq Reach(from, back)
           /\ yahoo # {} => yahoo = Reach(from, back) \ YahooLacks
           /\ Reach(from, Week) \subseteq Market /\ Reach(from, back) \subseteq Market
           /\ tv \in SUBSET Minutes /\ yahoo \in SUBSET Minutes
<1>1. tv \subseteq Reach(from, Week)
  BY DEF TradingViewAnswers
<1>2. yahoo = {} \/ yahoo = Reach(from, back) \ YahooLacks
  BY DEF YahooAnswers
<1>3. Reach(from, Week) \subseteq Market /\ Reach(from, back) \subseteq Market
  BY DEF Reach
<1> QED BY <1>1, <1>2, <1>3, Numbers

\* Call f, taken to its next step, with or without an error in its writes.
Stepped(f, next, err) ==
    [step |-> next, from |-> f.from, back |-> f.back, at |-> f.at,
     e |-> [tv |-> f.e.tv, yahoo |-> f.e.yahoo, saveErr |-> err]]

\* Call f, when the sources have answered.
Fetched(f, tv, yahoo, time) ==
    [step |-> IF tv \cup yahoo = {} THEN "publish" ELSE "upsert", from |-> f.from, back |-> f.back,
     at |-> time, e |-> [tv |-> tv, yahoo |-> yahoo, saveErr |-> FALSE]]

\* A fetch moved on, as the code's assignments write it.
MovedOn(f, next, err) ==
    [f EXCEPT !.step = next, !.e.saveErr = err]

\* Replacing the step and the error of a call.
LEMMA Replaced ==
    ASSUME NEW f \in Flight, NEW next \in {"fetch", "upsert", "fill", "publish"}, NEW err \in BOOLEAN
    PROVE  /\ MovedOn(f, next, err) = Stepped(f, next, err)
           /\ [f EXCEPT !.step = next] = Stepped(f, next, f.e.saveErr)
<1>1. f.e \in Entry
  BY DEF Flight
<1> DEFINE r == [tv |-> f.e.tv, yahoo |-> f.e.yahoo, saveErr |-> err]
<1>2. [f.e EXCEPT !.saveErr = err] = r /\ r \in Entry
  BY <1>1 DEF Entry
<1>3. f.e = [tv |-> f.e.tv, yahoo |-> f.e.yahoo, saveErr |-> f.e.saveErr]
  BY <1>1 DEF Entry
<1>4. [f EXCEPT !.step = next] = [step |-> next, from |-> f.from, back |-> f.back, at |-> f.at, e |-> f.e]
  BY DEF Flight
<1> DEFINE g == [f EXCEPT !.step = next, !.e.saveErr = err]
<1>5. g.step = next /\ g.from = f.from /\ g.back = f.back /\ g.at = f.at /\ g.e = [f.e EXCEPT !.saveErr = err]
  BY DEF Flight
<1>6. g \in Flight
  BY <1>1, <1>2 DEF Flight
<1> HIDE DEF g
<1>7. g = [step |-> g.step, from |-> g.from, back |-> g.back, at |-> g.at, e |-> g.e]
  BY <1>6 DEF Flight
<1>8. [f EXCEPT !.step = next] = Stepped(f, next, f.e.saveErr)
  BY <1>3, <1>4 DEF Stepped
<1>9. g = Stepped(f, next, err)
  BY <1>2, <1>5, <1>7 DEF Stepped
<1> QED BY <1>8, <1>9 DEF g, MovedOn

\* What the call becomes when the sources have answered.
LEMMA FetchEffect ==
    ASSUME TypeOK, NEW k \in Kinds, Fetch(k)
    PROVE  \E tv \in TradingViewAnswers(flight[k].from), yahoo \in YahooAnswers(flight[k].from, flight[k].back) :
             flight' = [flight EXCEPT ![k] = Fetched(flight[k], tv, yahoo, now)]
<1>1. flight[k] # NoFlight
  BY NoFlightStep DEF Fetch
<1>2. flight[k] \in Flight
  BY <1>1, FlightRecord
<1>3. PICK tv \in TradingViewAnswers(flight[k].from), yahoo \in YahooAnswers(flight[k].from, flight[k].back) :
        flight' = [flight EXCEPT ![k].e = [tv |-> tv, yahoo |-> yahoo, saveErr |-> FALSE], ![k].at = now,
                                 ![k].step = IF tv \cup yahoo = {} THEN "publish" ELSE "upsert"]
  BY DEF Fetch
<1> DEFINE r == [tv |-> tv, yahoo |-> yahoo, saveErr |-> FALSE]
           next == IF tv \cup yahoo = {} THEN "publish" ELSE "upsert"
<1>4. flight' = [flight EXCEPT ![k] = [flight[k] EXCEPT !.e = r, !.at = now, !.step = next]]
  BY <1>3 DEF TypeOK
<1>5. r \in Entry /\ now \in Times
  BY AnswersTyped DEF TypeOK, Entry
<1>6. next \in {"fetch", "upsert", "fill", "publish"}
  OBVIOUS
<1>7. flight' = [flight EXCEPT ![k] = Fetched(flight[k], tv, yahoo, now)]
  <2>1. Fetched(flight[k], tv, yahoo, now)
          = [step |-> next, from |-> flight[k].from, back |-> flight[k].back, at |-> now, e |-> r]
    BY DEF Fetched
  <2> HIDE DEF r, next
  <2>2. [flight[k] EXCEPT !.e = r, !.at = now, !.step = next]
          = [step |-> next, from |-> flight[k].from, back |-> flight[k].back, at |-> now, e |-> r]
    <3> DEFINE g == [flight[k] EXCEPT !.e = r, !.at = now, !.step = next]
    <3>1. g \in Flight
      BY <1>2, <1>5, <1>6 DEF Flight
    <3>2. g.step = next /\ g.from = flight[k].from /\ g.back = flight[k].back /\ g.at = now /\ g.e = r
      BY <1>2 DEF Flight
    <3> HIDE DEF g
    <3>3. g = [step |-> g.step, from |-> g.from, back |-> g.back, at |-> g.at, e |-> g.e]
      BY <3>1 DEF Flight
    <3> QED BY <3>2, <3>3 DEF g
  <2> QED BY <1>4, <2>1, <2>2, Zenon
<1> QED BY <1>7

\* A statement was executed unless it has an error, and the error stays.
LEMMA WriteEffect ==
    ASSUME TypeOK, NEW k \in Kinds, flight[k] # NoFlight, NEW written,
           NEW next \in {"fetch", "upsert", "fill", "publish"},
           Write(k, written, next)
    PROVE  \E err \in BOOLEAN :
             /\ flight' = [flight EXCEPT ![k] = Stepped(flight[k], next, err)]
             /\ db' = written \/ (err /\ db' = db)
             /\ ~err => ~flight[k].e.saveErr
<1>1. flight[k] \in Flight /\ flight[k].e.saveErr \in BOOLEAN
  BY FlightRecord
<1>2. PICK answered \in BOOLEAN :
        /\ \E executed \in {TRUE, answered} : db' = IF executed THEN written ELSE db
        /\ flight' = [flight EXCEPT ![k].step = next, ![k].e.saveErr = @ \/ ~answered]
  BY Zenon DEF Write
<1> DEFINE err == flight[k].e.saveErr \/ ~answered
<1>3. err \in BOOLEAN /\ (~err => answered /\ ~flight[k].e.saveErr)
  BY <1>1, <1>2
<1>4. flight' = [flight EXCEPT ![k] = Stepped(flight[k], next, err)]
  <2>1. flight' = [flight EXCEPT ![k] = [flight[k] EXCEPT !.step = next, !.e.saveErr = @ \/ ~answered]]
    BY <1>2 DEF TypeOK
  <2>2. [flight[k] EXCEPT !.step = next, !.e.saveErr = @ \/ ~answered]
          = [flight[k] EXCEPT !.step = next, !.e.saveErr = err]
    OBVIOUS
  <2> HIDE DEF err
  <2>3. [flight[k] EXCEPT !.step = next, !.e.saveErr = err] = Stepped(flight[k], next, err)
    <3>1. flight[k] \in Flight /\ err \in BOOLEAN
      BY <1>1, <1>3
    <3>2. MovedOn(flight[k], next, err) = Stepped(flight[k], next, err)
      BY <3>1, Replaced
    <3> QED BY <3>2, Zenon DEF MovedOn
  <2> QED BY <2>1, <2>2, <2>3, Zenon
<1>5. db' = written \/ (~answered /\ db' = db)
  BY <1>2
<1>6. db' = written \/ (err /\ db' = db)
  BY <1>5
<1> HIDE DEF err
<1> QED BY <1>3, <1>4, <1>6

\* TradingView's bars go over what is stored.
LEMMA UpsertEffect ==
    ASSUME TypeOK, NEW k \in Kinds, Upsert(k)
    PROVE  \E err \in BOOLEAN :
             /\ flight' = [flight EXCEPT ![k] = Stepped(flight[k], "fill", err)]
             /\ db' \in [Minutes -> {"none", "tradingview", "yahoo"}]
             /\ \A t \in Minutes : \/ db'[t] = db[t]
                                   \/ t \in flight[k].e.tv /\ db'[t] = "tradingview"
             /\ ~err => ~flight[k].e.saveErr /\ \A t \in flight[k].e.tv : db'[t] # "none"
<1>1. flight[k] # NoFlight
  BY NoFlightStep DEF Upsert
<1>2. flight[k] \in Flight /\ flight[k].e.saveErr \in BOOLEAN /\ flight[k].e.tv \in SUBSET Minutes
  BY <1>1, FlightRecord
<1>3. db \in [Minutes -> {"none", "tradingview", "yahoo"}]
  BY DEF TypeOK
<1>4. CASE flight[k].e.tv = {}
  <2>1. flight' = [flight EXCEPT ![k].step = "fill"] /\ db' = db
    BY <1>4 DEF Upsert
  <2>2. flight' = [flight EXCEPT ![k] = Stepped(flight[k], "fill", flight[k].e.saveErr)]
    <3>1. flight' = [flight EXCEPT ![k] = [flight[k] EXCEPT !.step = "fill"]]
      BY <2>1 DEF TypeOK
    <3> QED BY <3>1, <1>2, Replaced
  <2> QED BY <2>1, <2>2, <1>2, <1>3, <1>4
<1>5. CASE flight[k].e.tv # {}
  <2> DEFINE written == [t \in Minutes |-> IF t \in flight[k].e.tv THEN "tradingview" ELSE db[t]]
  <2>1. Write(k, written, "fill")
    BY <1>5 DEF Upsert
  <2>2. written \in [Minutes -> {"none", "tradingview", "yahoo"}]
    BY <1>3
  <2>3. \A t \in Minutes : written[t] = IF t \in flight[k].e.tv THEN "tradingview" ELSE db[t]
    OBVIOUS
  <2> HIDE DEF written
  <2>4. PICK err \in BOOLEAN :
             /\ flight' = [flight EXCEPT ![k] = Stepped(flight[k], "fill", err)]
             /\ db' = written \/ (err /\ db' = db)
             /\ ~err => ~flight[k].e.saveErr
    BY <2>1, <1>1, WriteEffect
  <2>5. db' \in [Minutes -> {"none", "tradingview", "yahoo"}]
    BY <2>4, <2>2, <1>3
  <2>6. \A t \in Minutes : db'[t] = db[t] \/ (t \in flight[k].e.tv /\ db'[t] = "tradingview")
    BY <2>4, <2>3
  <2>7. ~err => \A t \in flight[k].e.tv : db'[t] # "none"
    BY <2>4, <2>3, <1>2
  <2> QED BY <2>4, <2>5, <2>6, <2>7
<1> QED BY <1>4, <1>5

\* Yahoo's bars go where nothing is stored.
LEMMA FillEffect ==
    ASSUME TypeOK, NEW k \in Kinds, Fill(k)
    PROVE  \E err \in BOOLEAN :
             /\ flight' = [flight EXCEPT ![k] = Stepped(flight[k], "publish", err)]
             /\ db' \in [Minutes -> {"none", "tradingview", "yahoo"}]
             /\ \A t \in Minutes : \/ db'[t] = db[t]
                                   \/ t \in Gaps(flight[k].e) /\ db[t] = "none" /\ db'[t] = "yahoo"
             /\ ~err => ~flight[k].e.saveErr /\ \A t \in Gaps(flight[k].e) : db'[t] # "none"
<1>1. flight[k] # NoFlight
  BY NoFlightStep DEF Fill
<1>2. flight[k] \in Flight /\ flight[k].e.saveErr \in BOOLEAN /\ Gaps(flight[k].e) \in SUBSET Minutes
  BY <1>1, FlightRecord DEF Gaps
<1>3. db \in [Minutes -> {"none", "tradingview", "yahoo"}]
  BY DEF TypeOK
<1>4. CASE Gaps(flight[k].e) = {}
  <2>1. flight' = [flight EXCEPT ![k].step = "publish"] /\ db' = db
    BY <1>4 DEF Fill
  <2>2. flight' = [flight EXCEPT ![k] = Stepped(flight[k], "publish", flight[k].e.saveErr)]
    <3>1. flight' = [flight EXCEPT ![k] = [flight[k] EXCEPT !.step = "publish"]]
      BY <2>1 DEF TypeOK
    <3> QED BY <3>1, <1>2, Replaced
  <2> QED BY <2>1, <2>2, <1>2, <1>3, <1>4
<1>5. CASE Gaps(flight[k].e) # {}
  <2> DEFINE written == [t \in Minutes |-> IF t \in Gaps(flight[k].e) \ Stored THEN "yahoo" ELSE db[t]]
  <2>1. Write(k, written, "publish")
    BY <1>5 DEF Fill
  <2>2. written \in [Minutes -> {"none", "tradingview", "yahoo"}]
    BY <1>3
  <2>3. \A t \in Minutes : /\ t \in Stored => written[t] = db[t] /\ db[t] # "none"
                           /\ t \notin Stored => db[t] = "none"
                           /\ t \notin Stored /\ t \in Gaps(flight[k].e) => written[t] = "yahoo"
                           /\ t \notin Gaps(flight[k].e) => written[t] = db[t]
    BY DEF Stored
  <2> HIDE DEF written
  <2>4. PICK err \in BOOLEAN :
             /\ flight' = [flight EXCEPT ![k] = Stepped(flight[k], "publish", err)]
             /\ db' = written \/ (err /\ db' = db)
             /\ ~err => ~flight[k].e.saveErr
    BY <2>1, <1>1, WriteEffect
  <2>5. db' \in [Minutes -> {"none", "tradingview", "yahoo"}]
    BY <2>4, <2>2, <1>3
  <2>6. \A t \in Minutes : \/ db'[t] = db[t]
                           \/ t \in Gaps(flight[k].e) /\ db[t] = "none" /\ db'[t] = "yahoo"
    BY <2>4, <2>3
  <2>7. ~err => \A t \in Gaps(flight[k].e) : db'[t] # "none"
    <3> SUFFICES ASSUME ~err, NEW t \in Gaps(flight[k].e) PROVE written[t] # "none"
      BY <2>4
    <3> QED BY <2>3, <1>2
  <2> QED BY <2>4, <2>5, <2>6, <2>7
<1> QED BY <1>4, <1>5

\* A page was received: what becomes of the press.
LEMMA ReceiveEffect ==
    ASSUME TypeOK, NEW b \in Browsers, NEW e \in Entry, NEW page \in SUBSET Minutes, NEW more \in BOOLEAN,
           more => Max(page) \in Times,
           Receive(b, e, page, more)
    PROVE  /\ browser' \in [Browsers -> Press]
           /\ \A c \in Browsers \ {b} : browser'[c] = browser[c]
           /\ browser'[b].step = IF more THEN "page" ELSE "older"
           /\ browser'[b].at = browser[b].at /\ browser'[b].e = e
           /\ browser'[b].got = browser[b].got \cup page /\ browser'[b].older = browser[b].older
           /\ browser'[b].after = IF more THEN Max(page) ELSE 0
<1>1. browser[b] \in Press /\ browser \in [Browsers -> Press]
  BY PressRecord DEF TypeOK
<1> DEFINE step == IF more THEN "page" ELSE "older"
           after == IF more THEN Max(page) ELSE 0
           p == Received(browser[b], e, page, more)
<1>2. step \in {"idle", "wait", "answer", "page", "older"} /\ after \in Times
  BY Numbers DEF Times
<1>3. browser' = [browser EXCEPT ![b] = p]
  BY Zenon DEF Receive
<1>7. p = [browser[b] EXCEPT !.e = e, !.got = @ \cup page, !.step = step, !.after = after]
  BY Zenon DEF Received
<1> HIDE DEF step, after, p
<1>4. p \in Press
  BY <1>1, <1>2, <1>7 DEF Press
<1>5. /\ p.step = step /\ p.at = browser[b].at /\ p.e = e /\ p.got = browser[b].got \cup page
      /\ p.older = browser[b].older /\ p.after = after
  BY <1>1, <1>7 DEF Press
<1>6. browser' \in [Browsers -> Press] /\ browser'[b] = p /\ \A c \in Browsers \ {b} : browser'[c] = browser[c]
  BY <1>1, <1>3, <1>4
<1> QED BY <1>5, <1>6 DEF step, after

\* A page of what is stored can be received.
LEMMA StoredPage ==
    ASSUME NEW after, NEW before
    PROVE  /\ Page(after, before) \in SUBSET Minutes /\ More(after, before) \in BOOLEAN
           /\ More(after, before) => Max(Page(after, before)) \in Times
           /\ NoEntry \in Entry
<1>1. Page(after, before) \in SUBSET Minutes
  BY PageIsFirst, StoredTyped
<1>2. More(after, before) => Max(Page(after, before)) \in Minutes
  BY PageHasALast
<1>3. Minutes \subseteq Times
  BY Numbers DEF Times, Minutes
<1>4. NoEntry \in Entry /\ More(after, before) \in BOOLEAN
  BY DEF NoEntry, Entry, More
<1> QED BY <1>1, <1>2, <1>3, <1>4

\* So is a page of older bars.
LEMMA OlderPageReceives ==
    ASSUME TypeOK, NEW b \in Browsers, OlderPage(b), More(browser[b].after, First(b))
    PROVE  LET page == Page(browser[b].after, First(b)) IN
           /\ browser' \in [Browsers -> Press] /\ bars' = bars
           /\ \A c \in Browsers \ {b} : browser'[c] = browser[c]
           /\ browser'[b].step = "older" /\ browser'[b].at = browser[b].at /\ browser'[b].e = browser[b].e
           /\ browser'[b].got = browser[b].got /\ browser'[b].older = browser[b].older \cup page
           /\ browser'[b].after = Max(page)
<1>1. browser[b] \in Press /\ browser \in [Browsers -> Press] /\ browser[b].step = "older"
  BY PressRecord DEF TypeOK, OlderPage
<1> DEFINE page == Page(browser[b].after, First(b))
           after == Max(page)
           p == [browser[b] EXCEPT !.older = @ \cup page, !.after = after]
<1>2. page \in SUBSET Minutes
  BY PageIsFirst, StoredTyped
<1>3. after \in Times
  <2>1. Max(page) \in Minutes
    BY PageHasALast
  <2> QED BY <2>1, Numbers DEF Times, Minutes
<1>4. browser' = [browser EXCEPT ![b] = p] /\ bars' = bars
  <2>1. bars' = bars /\ browser' = [browser EXCEPT ![b].older = @ \cup page, ![b].after = after]
    BY Zenon DEF OlderPage
  <2> HIDE DEF after, page
  <2>2. [browser EXCEPT ![b].older = @ \cup page, ![b].after = after] = [browser EXCEPT ![b] = p]
    BY <1>1
  <2> QED BY <2>1, <2>2
<1> HIDE DEF after, page
<1>5. p \in Press
  BY <1>1, <1>2, <1>3 DEF Press
<1>6. /\ p.step = "older" /\ p.at = browser[b].at /\ p.e = browser[b].e /\ p.got = browser[b].got
      /\ p.older = browser[b].older \cup page /\ p.after = after
  BY <1>1 DEF Press
<1> HIDE DEF p
<1>7. browser' \in [Browsers -> Press] /\ browser'[b] = p /\ \A c \in Browsers \ {b} : browser'[c] = browser[c]
  BY <1>1, <1>4, <1>5
<1> QED BY <1>4, <1>6, <1>7 DEF after, page

\* The end of a press: its bars are merged, and it is none.
LEMMA MergeEffect ==
    ASSUME TypeOK, NEW b \in Browsers, NEW fresh \in SUBSET Minutes, Merge(b, fresh)
    PROVE  /\ bars' \in [Browsers -> SUBSET Minutes] /\ bars'[b] = bars[b] \cup fresh
           /\ browser' \in [Browsers -> Press] /\ browser'[b] = NotPressed
           /\ \A c \in Browsers \ {b} : browser'[c] = browser[c] /\ bars'[c] = bars[c]
<1>1. NotPressed \in Press
  BY Numbers DEF NotPressed, Press, NoEntry, Entry, Times
<1> QED BY <1>1 DEF Merge, TypeOK

\* How a press can end in bars.
LEMMA MergeCases ==
    ASSUME TypeOK, NEW b \in Browsers,
           (OlderPage(b) /\ ~More(browser[b].after, First(b))) \/ OlderFails(b)
    PROVE  /\ browser[b].step = "older" /\ UNCHANGED <<now, db, cache, flight, cron>>
           /\ \E past \in SUBSET Minutes :
                /\ Merge(b, browser[b].got \cup past)
                /\ past = {} \/ past = browser[b].older \cup Rows(browser[b].after, First(b))
<1>1. /\ browser[b].got \in SUBSET Minutes /\ browser[b].older \in SUBSET Minutes
      /\ Rows(browser[b].after, First(b)) \in SUBSET Minutes
  BY PressRecord, PageIsFirst, StoredTyped
<1>2. CASE OlderFails(b)
  <2>1. browser[b].got \cup {} = browser[b].got
    OBVIOUS
  <2>2. Merge(b, browser[b].got \cup {})
    BY <1>2, <2>1 DEF OlderFails
  <2> QED BY <1>2, <2>2 DEF OlderFails
<1>3. CASE OlderPage(b) /\ ~More(browser[b].after, First(b))
  <2>1. Page(browser[b].after, First(b)) = Rows(browser[b].after, First(b))
    BY <1>3 DEF More
  <2> DEFINE past == browser[b].older \cup Rows(browser[b].after, First(b))
  <2>2. Merge(b, browser[b].got \cup browser[b].older \cup Rows(browser[b].after, First(b)))
    BY <1>3, <2>1 DEF OlderPage
  <2>3. browser[b].got \cup browser[b].older \cup Rows(browser[b].after, First(b)) = browser[b].got \cup past
    OBVIOUS
  <2>4. Merge(b, browser[b].got \cup past) /\ past \in SUBSET Minutes
    BY <2>2, <2>3, <1>1
  <2> QED BY <1>3, <2>4 DEF OlderPage
<1> QED BY <1>2, <1>3

\* A call begins, or one is joined.
LEMMA JoinEffect ==
    ASSUME TypeOK, NEW kind \in Kinds, Join(kind)
    PROVE  /\ flight' \in [Kinds -> Flight \cup {NoFlight}] /\ flight'[kind] # NoFlight
           /\ \A k \in Kinds : k # kind \/ flight[k] # NoFlight => flight'[k] = flight[k]
           /\ flight[kind] = NoFlight =>
                flight'[kind] = [step |-> "fetch", from |-> now, back |-> Back(kind), at |-> now, e |-> NoEntry]
<1> DEFINE begun == [step |-> "fetch", from |-> now, back |-> Back(kind), at |-> now, e |-> NoEntry]
<1>1. begun \in Flight /\ begun # NoFlight
  <2>1. begun.step = "fetch" /\ NoFlight.step = "none"
    BY DEF NoFlight
  <2>2. begun \in Flight
    BY DEF Flight, Entry, NoEntry, TypeOK, Back
  <2> HIDE DEF begun
  <2> QED BY <2>1, <2>2
<1>2. Key(kind) = kind
  BY DEF Key
<1>3. flight \in [Kinds -> Flight \cup {NoFlight}]
  BY DEF TypeOK
<1>4. CASE flight[kind] # NoFlight
  <2>1. flight' = flight
    BY <1>4, <1>2 DEF Join
  <2> QED BY <2>1, <1>3, <1>4
<1>5. CASE flight[kind] = NoFlight
  <2>1. flight' = [flight EXCEPT ![kind] = begun]
    BY <1>5, <1>2 DEF Join
  <2> HIDE DEF begun
  <2>2. flight' \in [Kinds -> Flight \cup {NoFlight}] /\ flight'[kind] = begun
        /\ \A k \in Kinds : k # kind => flight'[k] = flight[k]
    BY <2>1, <1>1, <1>3
  <2>3. begun = [step |-> "fetch", from |-> now, back |-> Back(kind), at |-> now, e |-> NoEntry]
    BY DEF begun
  <2> QED BY <2>2, <2>3, <1>1, <1>5
<1> QED BY <1>4, <1>5

\* A call changes what it becomes, and nothing else.
LEMMA SteppedEffect ==
    ASSUME TypeOK, NEW k \in Kinds, flight[k] # NoFlight, NEW next \in {"fill", "publish"}, NEW err \in BOOLEAN,
           flight' = [flight EXCEPT ![k] = Stepped(flight[k], next, err)]
    PROVE  /\ flight' \in [Kinds -> Flight \cup {NoFlight}] /\ flight'[k] # NoFlight
           /\ \A j \in Kinds : j # k => flight'[j] = flight[j]
           /\ flight'[k].step = next /\ flight'[k].from = flight[k].from /\ flight'[k].back = flight[k].back
           /\ flight'[k].at = flight[k].at /\ flight'[k].e.tv = flight[k].e.tv
           /\ flight'[k].e.yahoo = flight[k].e.yahoo /\ flight'[k].e.saveErr = err
<1> DEFINE f == Stepped(flight[k], next, err)
<1>1. flight \in [Kinds -> Flight \cup {NoFlight}]
  BY DEF TypeOK
<1>2. f \in Flight
  BY FlightRecord DEF Stepped, Flight, Entry
<1>3. /\ f.step = next /\ f.from = flight[k].from /\ f.back = flight[k].back /\ f.at = flight[k].at
      /\ f.e.tv = flight[k].e.tv /\ f.e.yahoo = flight[k].e.yahoo /\ f.e.saveErr = err
  BY DEF Stepped
<1> HIDE DEF f
<1>4. f # NoFlight
  BY <1>3 DEF NoFlight
<1>5. /\ flight' \in [Kinds -> Flight \cup {NoFlight}] /\ flight'[k] = f
      /\ \A j \in Kinds : j # k => flight'[j] = flight[j]
  BY <1>1, <1>2 DEF f
<1> QED BY <1>3, <1>4, <1>5

\* The sources have answered.
LEMMA FetchedEffect ==
    ASSUME TypeOK, NEW k \in Kinds, Fetch(k)
    PROVE  /\ flight[k] # NoFlight
           /\ flight' \in [Kinds -> Flight \cup {NoFlight}] /\ flight'[k] # NoFlight
           /\ \A j \in Kinds : j # k => flight'[j] = flight[j]
           /\ flight'[k].from = flight[k].from /\ flight'[k].back = flight[k].back
           /\ flight'[k].at = now /\ flight'[k].e.saveErr = FALSE
           /\ flight'[k].step \in {"upsert", "publish"}
           /\ flight'[k].step = "publish" => flight'[k].e.tv = {} /\ flight'[k].e.yahoo = {}
           /\ flight'[k].e.tv \in TradingViewAnswers(flight[k].from)
           /\ flight'[k].e.yahoo \in YahooAnswers(flight[k].from, flight[k].back)
<1>1. flight[k] # NoFlight
  BY NoFlightStep DEF Fetch
<1>2. PICK tv \in TradingViewAnswers(flight[k].from), yahoo \in YahooAnswers(flight[k].from, flight[k].back) :
        flight' = [flight EXCEPT ![k] = Fetched(flight[k], tv, yahoo, now)]
  BY FetchEffect
<1> DEFINE f == Fetched(flight[k], tv, yahoo, now)
<1>3. flight \in [Kinds -> Flight \cup {NoFlight}] /\ now \in Times
  BY DEF TypeOK
<1>4. /\ f.from = flight[k].from /\ f.back = flight[k].back /\ f.at = now /\ f.e.saveErr = FALSE
      /\ f.step \in {"upsert", "publish"} /\ (f.step = "publish" => tv \cup yahoo = {})
      /\ f.e.tv = tv /\ f.e.yahoo = yahoo
  BY DEF Fetched
<1>5. f \in Flight
  <2>1. tv \in SUBSET Minutes /\ yahoo \in SUBSET Minutes
    BY AnswersTyped
  <2> QED BY <1>1, <1>3, <2>1, FlightRecord DEF Fetched, Flight, Entry
<1> HIDE DEF f
<1>6. f # NoFlight
  BY <1>4 DEF NoFlight
<1>7. /\ flight' \in [Kinds -> Flight \cup {NoFlight}] /\ flight'[k] = f
      /\ \A j \in Kinds : j # k => flight'[j] = flight[j]
  BY <1>2, <1>3, <1>5 DEF f
<1>8. f.step = "publish" => tv = {} /\ yahoo = {}
  BY <1>4
<1> QED BY <1>1, <1>4, <1>6, <1>7, <1>8

\* A call ends: its entry goes into the cache and to those who wait.
LEMMA PublishEffect ==
    ASSUME TypeOK, NEW k \in Kinds, Publish(k)
    PROVE  /\ flight[k] # NoFlight
           /\ flight' \in [Kinds -> Flight \cup {NoFlight}] /\ flight'[k] = NoFlight
           /\ \A j \in Kinds : j # k => flight'[j] = flight[j]
           /\ cache' \in Cache /\ cache'.e = flight[k].e
           /\ cron' \in Cron
           /\ browser' \in [Browsers -> Press]
           /\ \A b \in Browsers :
                \/ browser'[b] = browser[b]
                \/ /\ browser'[b].step = "answer" /\ browser'[b].e = flight[k].e
                   /\ browser'[b].at = browser[b].at /\ browser'[b].got = browser[b].got
                   /\ browser'[b].older = browser[b].older
           /\ IF cron.step = "wait" /\ k = "cron"
              THEN /\ cron'.step = "idle"
                   /\ cron'.ok => flight[k].e.tv # {} /\ flight[k].e.yahoo # {} /\ ~flight[k].e.saveErr
              ELSE cron' = cron
<1>1. flight[k] # NoFlight /\ flight[k].step = "publish"
  BY NoFlightStep DEF Publish
<1>2. flight[k].e \in Entry /\ flight[k].at \in Times
  BY <1>1, FlightRecord
<1>3. /\ flight' \in [Kinds -> Flight \cup {NoFlight}] /\ flight'[k] = NoFlight
      /\ \A j \in Kinds : j # k => flight'[j] = flight[j]
  BY DEF Publish, TypeOK
<1>4. cache' \in Cache /\ cache'.e = flight[k].e
  BY <1>2 DEF Publish, Cache
<1>5. /\ cron' \in Cron
      /\ IF cron.step = "wait" /\ k = "cron"
         THEN /\ cron'.step = "idle"
              /\ cron'.ok => flight[k].e.tv # {} /\ flight[k].e.yahoo # {} /\ ~flight[k].e.saveErr
         ELSE cron' = cron
  <2> DEFINE e == flight[k].e
             ok == e.tv # {} /\ e.yahoo # {} /\ ~e.saveErr
  <2>1. cron' = IF cron.step = "wait" /\ k = "cron" THEN [step |-> "idle", from |-> 0, ok |-> ok] ELSE cron
    BY DEF Publish, Key
  <2>2. ok \in BOOLEAN
    OBVIOUS
  <2>3. cron \in Cron /\ 0 \in Times
    BY Numbers DEF TypeOK, Times
  <2>4. ok => flight[k].e.tv # {} /\ flight[k].e.yahoo # {} /\ ~flight[k].e.saveErr
    OBVIOUS
  <2> HIDE DEF ok
  <2>5. [step |-> "idle", from |-> 0, ok |-> ok] \in Cron
    BY <2>2, <2>3 DEF Cron
  <2> QED BY <2>1, <2>3, <2>4, <2>5
<1>6. /\ browser' \in [Browsers -> Press]
      /\ \A b \in Browsers :
                \/ browser'[b] = browser[b]
                \/ /\ browser'[b].step = "answer" /\ browser'[b].e = flight[k].e
                   /\ browser'[b].at = browser[b].at /\ browser'[b].got = browser[b].got
                   /\ browser'[b].older = browser[b].older
  <2> DEFINE p(b) == [browser[b] EXCEPT !.step = "answer", !.e = flight[k].e]
  <2>1. browser' = [b \in Browsers |-> IF browser[b].step = "wait" /\ k = Key("button") THEN p(b) ELSE browser[b]]
    BY DEF Publish
  <2>2. ASSUME NEW b \in Browsers
        PROVE  /\ p(b) \in Press /\ browser[b] \in Press
               /\ p(b).step = "answer" /\ p(b).e = flight[k].e /\ p(b).at = browser[b].at
               /\ p(b).got = browser[b].got /\ p(b).older = browser[b].older
    BY <1>2, PressRecord DEF Press
  <2> HIDE DEF p
  <2>3. \A b \in Browsers : browser'[b] = p(b) \/ browser'[b] = browser[b]
    BY <2>1
  <2>4. browser' \in [Browsers -> Press]
    BY <2>1, <2>2
  <2> QED BY <2>2, <2>3, <2>4
<1> QED BY <1>1, <1>3, <1>4, <1>5, <1>6

\* The button is pressed.
LEMMA ClickEffect ==
    ASSUME TypeOK, NEW b \in Browsers, Click(b)
    PROVE  /\ browser' \in [Browsers -> Press]
           /\ \A c \in Browsers \ {b} : browser'[c] = browser[c]
           /\ browser'[b].at = now /\ browser'[b].got = {} /\ browser'[b].older = {}
           /\ browser'[b].step \in {"wait", "answer"} /\ browser'[b].e \in {cache.e, NoEntry}
           /\ flight' = flight \/ Join("button")
           /\ UNCHANGED <<now, db, cache, cron, bars>>
<1>1. browser \in [Browsers -> Press] /\ cache.e \in Entry /\ NoEntry \in Entry /\ now \in Times /\ 0 \in Times
  BY StoredPage, Numbers DEF TypeOK, Cache, Times
<1> DEFINE answer == [NotPressed EXCEPT !.step = "answer", !.at = now, !.e = cache.e]
           wait == [NotPressed EXCEPT !.step = "wait", !.at = now]
<1>2. NotPressed \in Press /\ NotPressed.got = {} /\ NotPressed.older = {} /\ NotPressed.e = NoEntry
  BY <1>1 DEF NotPressed, Press
<1>3. /\ answer.step = "answer" /\ answer.at = now /\ answer.e = cache.e
      /\ answer.got = {} /\ answer.older = {}
      /\ wait.step = "wait" /\ wait.at = now /\ wait.e = NoEntry /\ wait.got = {} /\ wait.older = {}
  BY <1>2 DEF Press
<1>4. answer \in Press /\ wait \in Press
  BY <1>1, <1>2 DEF Press
<1>5. \/ browser' = [browser EXCEPT ![b] = answer] /\ flight' = flight
      \/ browser' = [browser EXCEPT ![b] = wait] /\ Join("button")
  BY Zenon DEF Click
<1>6. UNCHANGED <<now, db, cache, cron, bars>>
  BY DEF Click
<1> HIDE DEF answer, wait
<1>7. CASE browser' = [browser EXCEPT ![b] = answer] /\ flight' = flight
  <2>1. browser' \in [Browsers -> Press] /\ browser'[b] = answer /\ \A c \in Browsers \ {b} : browser'[c] = browser[c]
    BY <1>1, <1>4, <1>7
  <2> QED BY <2>1, <1>3, <1>6, <1>7
<1>8. CASE browser' = [browser EXCEPT ![b] = wait] /\ Join("button")
  <2>1. browser' \in [Browsers -> Press] /\ browser'[b] = wait /\ \A c \in Browsers \ {b} : browser'[c] = browser[c]
    BY <1>1, <1>4, <1>8
  <2> QED BY <2>1, <1>3, <1>6, <1>8
<1> QED BY <1>5, <1>7, <1>8

-----------------------------------------------------------------------------
(* Types.                                                                  *)

\* The types hold at the start.
LEMMA TypesInit == Init => TypeOK
<1> SUFFICES ASSUME Init PROVE TypeOK
  OBVIOUS
<1>1. Start \in Times /\ 0 \in Times /\ NoEntry \in Entry
  BY Numbers, StoredPage DEF Times
<1>2. now \in Times /\ db \in [Minutes -> {"none", "tradingview", "yahoo"}] /\ cache \in Cache
      /\ flight \in [Kinds -> Flight \cup {NoFlight}] /\ cron \in Cron
  BY <1>1 DEF Init, NoCache, Cache, Cron
<1>3. Bundle \in SUBSET Minutes
  BY Numbers
<1>4. NotPressed \in Press
  BY <1>1 DEF NotPressed, Press
<1>5. bars \in [Browsers -> SUBSET Minutes] /\ browser \in [Browsers -> Press]
  BY <1>3, <1>4 DEF Init
<1> QED BY <1>2, <1>5 DEF TypeOK

\* What an answer of the server does to the press.
LEMMA AnswerTypes ==
    ASSUME TypeOK, NEW b \in Browsers, AnswerStored(b) \/ AnswerFetched(b) \/ NextPage(b)
    PROVE  browser' \in [Browsers -> Press] /\ UNCHANGED <<now, db, cache, flight, cron, bars>>
<1>1. CASE AnswerStored(b)
  <2> DEFINE since == Since(Last(b))
  <2>1. Receive(b, NoEntry, Page(since, 0), More(since, 0))
    BY <1>1 DEF AnswerStored
  <2> HIDE DEF since
  <2> QED BY <1>1, <2>1, StoredPage, ReceiveEffect DEF AnswerStored
<1>2. CASE AnswerFetched(b)
  <2> DEFINE page == {t \in BarsOf(browser[b].e) : t > Since(Last(b))}
  <2>1. Receive(b, browser[b].e, page, FALSE)
    BY <1>2 DEF AnswerFetched
  <2>2. page \in SUBSET Minutes /\ browser[b].e \in Entry
    BY PressRecord DEF BarsOf
  <2> HIDE DEF page
  <2> QED BY <1>2, <2>1, <2>2, ReceiveEffect DEF AnswerFetched
<1>3. CASE NextPage(b)
  <2>1. Receive(b, NoEntry, Page(browser[b].after, 0), More(browser[b].after, 0))
    BY <1>3 DEF NextPage
  <2> QED BY <1>3, <2>1, StoredPage, ReceiveEffect DEF NextPage
<1> QED BY <1>1, <1>2, <1>3

\* The next step of a press, all of them together.
LEMMA BrowseCases ==
    ASSUME NEW b \in Browsers, Browse(b)
    PROVE  \/ AnswerStored(b) \/ AnswerFetched(b) \/ NextPage(b)
           \/ OlderPage(b) /\ More(browser[b].after, First(b))
           \/ (OlderPage(b) /\ ~More(browser[b].after, First(b))) \/ OlderFails(b)
           \/ GiveUp(b)
BY DEF Browse

\* And every step keeps them.
LEMMA TypesStep == TypeOK /\ [Next]_vars => TypeOK'
<1> SUFFICES ASSUME TypeOK, [Next]_vars PROVE TypeOK'
  OBVIOUS
<1>1. /\ now \in Times /\ cache \in Cache /\ cron \in Cron
      /\ db \in [Minutes -> {"none", "tradingview", "yahoo"}]
      /\ flight \in [Kinds -> Flight \cup {NoFlight}]
      /\ bars \in [Browsers -> SUBSET Minutes] /\ browser \in [Browsers -> Press]
  BY DEF TypeOK
<1>2. NotPressed \in Press /\ NoCache \in Cache /\ 0 \in Times
  <2>1. 0 \in Times /\ NoEntry \in Entry
    BY Numbers, StoredPage DEF Times
  <2> QED BY <2>1 DEF NotPressed, Press, NoCache, Cache
<1>3. CASE Tick
  <2>1. now + 1 \in Times
    BY <1>1, <1>3, Numbers DEF Tick, Times
  <2>2. cache' \in {cache, NoCache}
    BY <1>3 DEF Tick
  <2> QED BY <1>1, <1>2, <1>3, <2>1, <2>2 DEF TypeOK, Tick
<1>4. CASE Restart
  <2>1. cron' \in Cron
    BY <1>1, <1>2, <1>4 DEF Restart, Cron
  <2>2. browser' \in [Browsers -> Press]
    BY <1>1, <1>2, <1>4 DEF Restart
  <2>3. flight' \in [Kinds -> Flight \cup {NoFlight}]
    BY <1>4 DEF Restart
  <2> QED BY <1>1, <1>2, <1>4, <2>1, <2>2, <2>3 DEF TypeOK, Restart
<1>5. CASE StartCron
  <2>1. Join("cron") /\ "cron" \in Kinds
    BY <1>5 DEF StartCron, Kinds
  <2>2. flight' \in [Kinds -> Flight \cup {NoFlight}]
    BY <2>1, JoinEffect
  <2>3. cron' \in Cron
    BY <1>1, <1>5 DEF StartCron, Cron
  <2> QED BY <1>1, <1>5, <2>2, <2>3 DEF TypeOK, StartCron
<1>6. ASSUME NEW k \in Kinds, Fetch(k) PROVE TypeOK'
  <2>1. flight' \in [Kinds -> Flight \cup {NoFlight}]
    BY <1>6, FetchedEffect
  <2> QED BY <1>1, <1>6, <2>1 DEF TypeOK, Fetch
<1>7. ASSUME NEW k \in Kinds, Upsert(k) PROVE TypeOK'
  <2>1. PICK err \in BOOLEAN : /\ flight' = [flight EXCEPT ![k] = Stepped(flight[k], "fill", err)]
                               /\ db' \in [Minutes -> {"none", "tradingview", "yahoo"}]
    BY <1>7, UpsertEffect
  <2>2. flight' \in [Kinds -> Flight \cup {NoFlight}]
    BY <1>7, <2>1, SteppedEffect, NoFlightStep DEF Upsert
  <2> QED BY <1>1, <1>7, <2>1, <2>2 DEF TypeOK, Upsert
<1>8. ASSUME NEW k \in Kinds, Fill(k) PROVE TypeOK'
  <2>1. PICK err \in BOOLEAN : /\ flight' = [flight EXCEPT ![k] = Stepped(flight[k], "publish", err)]
                               /\ db' \in [Minutes -> {"none", "tradingview", "yahoo"}]
    BY <1>8, FillEffect
  <2>2. flight' \in [Kinds -> Flight \cup {NoFlight}]
    BY <1>8, <2>1, SteppedEffect, NoFlightStep DEF Fill
  <2> QED BY <1>1, <1>8, <2>1, <2>2 DEF TypeOK, Fill
<1>9. ASSUME NEW k \in Kinds, Publish(k) PROVE TypeOK'
  <2>1. /\ flight' \in [Kinds -> Flight \cup {NoFlight}] /\ cache' \in Cache /\ cron' \in Cron
        /\ browser' \in [Browsers -> Press]
    BY <1>9, PublishEffect
  <2> QED BY <1>1, <1>9, <2>1 DEF TypeOK, Publish
<1>10. ASSUME NEW b \in Browsers, Click(b) PROVE TypeOK'
  <2>1. browser' \in [Browsers -> Press] /\ (flight' = flight \/ Join("button"))
        /\ UNCHANGED <<now, db, cache, cron, bars>>
    BY <1>10, ClickEffect
  <2>2. flight' \in [Kinds -> Flight \cup {NoFlight}]
    BY <1>1, <2>1, JoinEffect DEF Kinds
  <2> QED BY <1>1, <2>1, <2>2 DEF TypeOK
<1>11. ASSUME NEW b \in Browsers, Browse(b) PROVE TypeOK'
  <2>1. CASE AnswerStored(b) \/ AnswerFetched(b) \/ NextPage(b)
    BY <1>1, <2>1, AnswerTypes DEF TypeOK
  <2>2. CASE OlderPage(b) /\ More(browser[b].after, First(b))
    <3>1. browser' \in [Browsers -> Press] /\ bars' = bars
      BY <2>2, OlderPageReceives
    <3> QED BY <1>1, <2>2, <3>1 DEF TypeOK, OlderPage
  <2>3. CASE (OlderPage(b) /\ ~More(browser[b].after, First(b))) \/ OlderFails(b)
    <3>1. UNCHANGED <<now, db, cache, flight, cron>>
      BY <2>3, MergeCases
    <3>2. PICK past \in SUBSET Minutes : Merge(b, browser[b].got \cup past)
      BY <2>3, MergeCases
    <3>3. browser[b].got \cup past \in SUBSET Minutes
      BY PressRecord
    <3>4. bars' \in [Browsers -> SUBSET Minutes] /\ browser' \in [Browsers -> Press]
      BY <3>2, <3>3, MergeEffect
    <3> QED BY <1>1, <3>1, <3>4 DEF TypeOK
  <2>4. CASE GiveUp(b)
    BY <1>1, <1>2, <2>4 DEF TypeOK, GiveUp
  <2> QED BY <1>11, <2>1, <2>2, <2>3, <2>4, BrowseCases
<1>12. CASE UNCHANGED vars
  BY <1>1, <1>12 DEF TypeOK, vars
<1> QED BY <1>3, <1>4, <1>5, <1>6, <1>7, <1>8, <1>9, <1>10, <1>11, <1>12 DEF Next, Serve

-----------------------------------------------------------------------------
(* Entries and calls.                                                      *)

\* An entry stays sound.
LEMMA EntryLater ==
    ASSUME NEW m \in Nat, NEW e, EntrySound(e, m)
    PROVE  EntrySound(e, m + 1)
<1>1. \A t \in BarsOf(e) : t \in Nat /\ t < m
  BY Numbers DEF EntrySound
<1>2. \A t \in BarsOf(e) : t < m + 1
  BY <1>1
<1> QED BY <1>2 DEF EntrySound

\* No entry is sound.
LEMMA NoEntryIsSound == ASSUME NEW m PROVE EntrySound(NoEntry, m)
BY DEF EntrySound, NoEntry, BarsOf

\* The entry of a fetch is sound.  What is a week before one of its bars and
\* after another is after one of Yahoo's, so Yahoo was asked for it.
LEMMA FetchIsSound ==
    ASSUME TypeOK, NEW from \in Times, from <= now, now <= from + 1, NEW back \in {Week, Month}, NEW e,
           e.tv \in TradingViewAnswers(from), e.yahoo \in YahooAnswers(from, back)
    PROVE  /\ EntrySound(e, now)
           /\ \A t \in e.tv : t + Week > from
           /\ e.yahoo # {} => \A t \in Market \ YahooLacks : t + back > from /\ t < from => t \in e.yahoo
<1>1. /\ e.tv \subseteq Reach(from, Week) /\ e.yahoo \subseteq Reach(from, back)
      /\ e.yahoo # {} => e.yahoo = Reach(from, back) \ YahooLacks
      /\ Reach(from, Week) \subseteq Market /\ Reach(from, back) \subseteq Market
  BY AnswersTyped
<1>2. now \in Nat /\ from \in Nat /\ Week \in Nat /\ Month \in Nat /\ back \in Nat /\ Market \subseteq Nat
  BY Numbers DEF TypeOK
<1>3. /\ \A t \in e.tv : t \in Market /\ t + Week > from /\ t < now
      /\ \A t \in e.yahoo : t \in Market /\ t + back > from /\ t < now
  BY <1>1 DEF Reach
<1>4. e.yahoo # {} => \A t \in Market \ YahooLacks : t + back > from /\ t < from => t \in e.yahoo
  <2> SUFFICES ASSUME e.yahoo # {}, NEW t \in Market \ YahooLacks, t + back > from, t < from PROVE t \in e.yahoo
    OBVIOUS
  <2>1. t < now
    <3>1. t \in Nat
      BY <1>2
    <3> QED BY <3>1, <1>2
  <2> QED BY <1>1, <2>1 DEF Reach
<1>5. ASSUME NEW t \in Market \ BarsOf(e), NEW u \in BarsOf(e), NEW v \in BarsOf(e), u < t, t + Week <= v
      PROVE  t \in YahooLacks
  <2>1. /\ t \in Nat /\ u \in Nat /\ v \in Nat /\ v < now /\ u \in e.tv \cup e.yahoo
    BY <1>2, <1>3 DEF BarsOf
  <2>2. ~(u + Week > from)
    BY <2>1, <1>2, <1>5
  <2>3. u \in e.yahoo
    BY <2>1, <2>2, <1>3
  <2>4. u + back > from
    BY <2>3, <1>3
  <2>5. t + back > from /\ t < now
    BY <2>1, <2>4, <1>2, <1>5
  <2>6. t \in Reach(from, back)
    BY <2>5 DEF Reach
  <2>7. t \notin e.yahoo
    BY DEF BarsOf
  <2> QED BY <1>1, <2>3, <2>6, <2>7
<1>6. BarsOf(e) \subseteq Market /\ \A t \in BarsOf(e) : t < now
  BY <1>3 DEF BarsOf
<1> QED BY <1>3, <1>4, <1>5, <1>6 DEF EntrySound

\* What a write stores is of the market, has passed, and is either less than a
\* week old or Yahoo's; what was stored stays stored.
LEMMA WritesAreYoung ==
    ASSUME TypeOK, FlightsInv, NEW k \in Kinds, Upsert(k) \/ Fill(k)
    PROVE  /\ \A t \in Minutes : db[t] # "none" => db'[t] # "none"
           /\ \A t \in Minutes : db'[t] # db[t] =>
                /\ t \in Market /\ t < now
                /\ now <= t + Week \/ (db'[t] = "yahoo" /\ t + Week < now)
<1> DEFINE f == flight[k]
<1>1. flight[k] # NoFlight
  BY NoFlightStep DEF Upsert, Fill
<1>2. /\ f.from \in Nat /\ now \in Nat /\ now <= f.from + 1 /\ \A t \in f.e.tv : t + Week > f.from
      /\ \A t \in BarsOf(f.e) : t \in Market /\ t < now
  <2>1. FlightSound(k, flight[k], Stored, now)
    BY <1>1 DEF FlightsInv
  <2>2. f.from \in Nat /\ now \in Nat
    BY <1>1, FlightRecord, Numbers DEF TypeOK
  <2> QED BY <2>1, <2>2 DEF FlightSound, EntrySound
<1>3. CASE Upsert(k)
  <2>1. \A t \in Minutes : \/ db'[t] = db[t]
                           \/ t \in flight[k].e.tv /\ db'[t] = "tradingview"
    BY <1>3, UpsertEffect
  <2>2. ASSUME NEW t \in Minutes, db'[t] # db[t] PROVE t \in Market /\ t < now /\ now <= t + Week
    <3>1. t \in f.e.tv /\ t \in BarsOf(f.e)
      BY <2>1, <2>2 DEF BarsOf
    <3>2. t \in Nat /\ Week \in Nat
      BY Numbers
    <3> QED BY <3>1, <3>2, <1>2
  <2>3. \A t \in Minutes : db[t] # "none" => db'[t] # "none"
    BY <2>1
  <2> QED BY <2>2, <2>3
<1>4. CASE Fill(k)
  <2>1. \A t \in Minutes : \/ db'[t] = db[t]
                           \/ t \in Gaps(flight[k].e) /\ db[t] = "none" /\ db'[t] = "yahoo"
    BY <1>4, FillEffect
  <2>2. ASSUME NEW t \in Minutes, db'[t] # db[t]
        PROVE  t \in Market /\ t < now /\ (now <= t + Week \/ (db'[t] = "yahoo" /\ t + Week < now))
    <3>1. t \in BarsOf(f.e) /\ db'[t] = "yahoo"
      BY <2>1, <2>2 DEF Gaps, BarsOf
    <3>2. t \in Nat /\ Week \in Nat
      BY Numbers
    <3>3. now <= t + Week \/ t + Week < now
      BY <3>2, <1>2
    <3> QED BY <3>1, <3>3, <1>2
  <2>3. \A t \in Minutes : db[t] # "none" => db'[t] # "none"
    BY <2>1
  <2> QED BY <2>2, <2>3
<1> QED BY <1>3, <1>4

\* Only the two writes touch the store, and only time passing the minute.
LEMMA StoreChanges ==
    ASSUME [Next]_vars
    PROVE  /\ db' = db \/ \E k \in Kinds : Upsert(k) \/ Fill(k)
           /\ now' = now \/ Tick
<1>1. ASSUME NEW b \in Browsers, Browse(b) PROVE db' = db /\ now' = now
  BY <1>1 DEF Browse, AnswerStored, AnswerFetched, NextPage, OlderPage, OlderFails, GiveUp
<1>2. ASSUME NEW b \in Browsers, Click(b) PROVE db' = db /\ now' = now
  BY <1>2 DEF Click
<1>3. ASSUME NEW k \in Kinds, Serve(k)
      PROVE  (db' = db \/ Upsert(k) \/ Fill(k)) /\ now' = now
  BY <1>3 DEF Serve, Fetch, Upsert, Fill, Publish
<1>4. ASSUME Restart \/ StartCron PROVE db' = db /\ now' = now
  BY <1>4 DEF Restart, StartCron
<1>5. ASSUME Tick PROVE db' = db
  BY <1>5 DEF Tick
<1>6. ASSUME UNCHANGED vars PROVE db' = db /\ now' = now
  BY <1>6 DEF vars
<1> QED BY <1>1, <1>2, <1>3, <1>4, <1>5, <1>6 DEF Next

\* So the store only grows.
LEMMA StoreGrows ==
    ASSUME TypeOK, FlightsInv, [Next]_vars
    PROVE  Stored \subseteq Stored'
<1>1. CASE db' = db
  BY <1>1 DEF Stored
<1>2. ASSUME NEW k \in Kinds, Upsert(k) \/ Fill(k) PROVE Stored \subseteq Stored'
  <2>1. \A t \in Minutes : db[t] # "none" => db'[t] # "none"
    BY <1>2, WritesAreYoung
  <2> QED BY <2>1 DEF Stored
<1> QED BY <1>1, <1>2, StoreChanges

\* A call stays sound when the store grows.
LEMMA FlightKept ==
    ASSUME NEW k, NEW f, NEW S, NEW T, NEW m, FlightSound(k, f, S, m), S \subseteq T
    PROVE  FlightSound(k, f, T, m)
BY DEF FlightSound

\* A call that has just begun.
LEMMA BegunIsSound ==
    ASSUME TypeOK, NEW k \in Kinds, NEW f, NEW S,
           f = [step |-> "fetch", from |-> now, back |-> Back(k), at |-> now, e |-> NoEntry]
    PROVE  FlightSound(k, f, S, now)
<1>1. /\ f.step = "fetch" /\ f.from = now /\ f.back = Back(k) /\ f.at = now /\ f.e = NoEntry
      /\ f.e.tv = {} /\ f.e.yahoo = {} /\ now \in Nat
  BY Numbers DEF NoEntry, TypeOK
<1>2. EntrySound(f.e, now) /\ now <= f.from + 1 /\ f.from <= now /\ f.at <= now
  BY <1>1, NoEntryIsSound
<1> QED BY <1>1, <1>2 DEF FlightSound

\* Joining a call, or beginning one, keeps all of them sound.
LEMMA JoinKeepsFlights ==
    ASSUME TypeOK, FlightsInv, NEW kind \in Kinds, Join(kind), UNCHANGED <<now, db>>
    PROVE  FlightsInv'
<1>1. ASSUME NEW k \in Kinds, flight'[k] # NoFlight PROVE FlightSound(k, flight'[k], Stored, now)
  <2>1. CASE k = kind /\ flight[k] = NoFlight
    BY <2>1, BegunIsSound, JoinEffect
  <2>2. CASE k # kind \/ flight[k] # NoFlight
    BY <1>1, <2>2, JoinEffect DEF FlightsInv
  <2> QED BY <2>1, <2>2
<1>2. Stored' = Stored
  BY DEF Stored
<1> QED BY <1>1, <1>2 DEF FlightsInv

\* A call that takes a step while the others go on as they are.
LEMMA OthersKept ==
    ASSUME TypeOK, FlightsInv, [Next]_vars, now' = now, NEW k \in Kinds,
           \A j \in Kinds : j # k => flight'[j] = flight[j],
           flight'[k] # NoFlight => FlightSound(k, flight'[k], Stored', now)
    PROVE  FlightsInv'
<1> SUFFICES ASSUME NEW j \in Kinds, flight'[j] # NoFlight PROVE FlightSound(j, flight'[j], Stored', now)
  BY DEF FlightsInv
<1>1. CASE j = k
  BY <1>1
<1>2. CASE j # k
  <2>1. FlightSound(j, flight'[j], Stored, now)
    BY <1>2 DEF FlightsInv
  <2> QED BY <2>1, StoreGrows, FlightKept
<1> QED BY <1>1, <1>2

\* Every step keeps the calls sound: time waits for them, and what they write
\* without an error is stored.
LEMMA FlightsStep == ASSUME TypeOK, FlightsInv, [Next]_vars PROVE FlightsInv'
<1>1. CASE Tick
  <2> SUFFICES ASSUME NEW k \in Kinds, flight[k] # NoFlight PROVE FlightSound(k, flight[k], Stored, now + 1)
    BY <1>1 DEF Tick, FlightsInv, Stored
  <2>1. FlightSound(k, flight[k], Stored, now) /\ flight[k].from = now
    BY <1>1 DEF FlightsInv, Tick
  <2>2. now \in Nat /\ flight[k].at \in Nat
    BY FlightRecord, Numbers DEF TypeOK
  <2>3. EntrySound(flight[k].e, now + 1)
    BY <2>1, <2>2, EntryLater DEF FlightSound
  <2>4. flight[k].from <= now + 1 /\ now + 1 <= flight[k].from + 1 /\ flight[k].at <= now + 1
    BY <2>1, <2>2 DEF FlightSound
  <2> QED BY <2>1, <2>3, <2>4 DEF FlightSound
<1>2. CASE Restart
  BY <1>2 DEF Restart, FlightsInv
<1>3. CASE StartCron
  BY <1>3, JoinKeepsFlights DEF StartCron, Kinds
<1>4. ASSUME NEW k \in Kinds, Fetch(k) PROVE FlightsInv'
  <2> DEFINE f == flight'[k]
  <2>1. /\ flight[k] # NoFlight
        /\ \A j \in Kinds : j # k => flight'[j] = flight[j]
        /\ f.from = flight[k].from /\ f.back = flight[k].back /\ f.at = now /\ f.e.saveErr = FALSE
        /\ f.step \in {"upsert", "publish"} /\ (f.step = "publish" => f.e.tv = {} /\ f.e.yahoo = {})
        /\ f.e.tv \in TradingViewAnswers(flight[k].from)
        /\ f.e.yahoo \in YahooAnswers(flight[k].from, flight[k].back)
    BY <1>4, FetchedEffect
  <2>2. FlightSound(k, flight[k], Stored, now)
    BY <2>1 DEF FlightsInv
  <2>3. /\ flight[k].from \in Times /\ flight[k].back \in {Week, Month} /\ flight[k].back = Back(k)
        /\ flight[k].from <= now /\ now <= flight[k].from + 1 /\ now \in Nat
    BY <2>1, <2>2, FlightRecord, Numbers DEF FlightSound, TypeOK
  <2> HIDE DEF f
  <2>4. /\ EntrySound(f.e, now)
        /\ \A t \in f.e.tv : t + Week > flight[k].from
        /\ f.e.yahoo # {} => \A t \in Market \ YahooLacks :
             t + flight[k].back > flight[k].from /\ t < flight[k].from => t \in f.e.yahoo
    BY <2>1, <2>3, FetchIsSound
  <2>5. f.step # "fill" /\ (f.step = "publish" => f.e.tv = {} /\ f.e.yahoo = {})
    BY <2>1
  <2>6. FlightSound(k, f, Stored', now)
    BY <2>1, <2>3, <2>4, <2>5 DEF FlightSound
  <2>7. now' = now
    BY <1>4 DEF Fetch
  <2> QED BY <2>1, <2>6, <2>7, OthersKept DEF f
<1>5. ASSUME NEW k \in Kinds, Upsert(k) PROVE FlightsInv'
  <2> DEFINE f == flight'[k]
  <2>1. flight[k] # NoFlight /\ now' = now
    BY <1>5, NoFlightStep DEF Upsert
  <2>2. PICK err \in BOOLEAN :
             /\ flight' = [flight EXCEPT ![k] = Stepped(flight[k], "fill", err)]
             /\ ~err => ~flight[k].e.saveErr /\ \A t \in flight[k].e.tv : db'[t] # "none"
    BY <1>5, UpsertEffect
  <2>3. /\ \A j \in Kinds : j # k => flight'[j] = flight[j]
        /\ f.step = "fill" /\ f.from = flight[k].from /\ f.back = flight[k].back
        /\ f.at = flight[k].at /\ f.e.tv = flight[k].e.tv
        /\ f.e.yahoo = flight[k].e.yahoo /\ f.e.saveErr = err
    BY <2>1, <2>2, SteppedEffect
  <2>4. FlightSound(k, flight[k], Stored, now) /\ flight[k].e.tv \in SUBSET Minutes
    BY <2>1, FlightRecord DEF FlightsInv
  <2> HIDE DEF f
  <2>5. ~f.e.saveErr => f.e.tv \subseteq Stored'
    BY <2>2, <2>3, <2>4 DEF Stored
  <2>6. EntrySound(f.e, now)
    <3>1. BarsOf(f.e) = BarsOf(flight[k].e)
      BY <2>3 DEF BarsOf
    <3> QED BY <3>1, <2>4 DEF FlightSound, EntrySound
  <2>7. FlightSound(k, f, Stored', now)
    BY <2>3, <2>4, <2>5, <2>6 DEF FlightSound
  <2> QED BY <2>1, <2>3, <2>7, OthersKept DEF f
<1>6. ASSUME NEW k \in Kinds, Fill(k) PROVE FlightsInv'
  <2> DEFINE f == flight'[k]
  <2>1. flight[k] # NoFlight /\ now' = now /\ flight[k].step = "fill"
    BY <1>6, NoFlightStep DEF Fill
  <2>2. PICK err \in BOOLEAN :
             /\ flight' = [flight EXCEPT ![k] = Stepped(flight[k], "publish", err)]
             /\ ~err => ~flight[k].e.saveErr /\ \A t \in Gaps(flight[k].e) : db'[t] # "none"
    BY <1>6, FillEffect
  <2>3. /\ \A j \in Kinds : j # k => flight'[j] = flight[j]
        /\ f.step = "publish" /\ f.from = flight[k].from /\ f.back = flight[k].back
        /\ f.at = flight[k].at /\ f.e.tv = flight[k].e.tv
        /\ f.e.yahoo = flight[k].e.yahoo /\ f.e.saveErr = err
    BY <2>1, <2>2, SteppedEffect
  <2>4. FlightSound(k, flight[k], Stored, now) /\ flight[k].e.tv \in SUBSET Minutes /\ flight[k].e.yahoo \in SUBSET Minutes
    BY <2>1, FlightRecord DEF FlightsInv
  <2> HIDE DEF f
  <2>5. ~f.e.saveErr => f.e.tv \subseteq Stored' /\ f.e.yahoo \subseteq Stored'
    <3> SUFFICES ASSUME ~f.e.saveErr PROVE f.e.tv \subseteq Stored' /\ f.e.yahoo \subseteq Stored'
      OBVIOUS
    <3>1. ~flight[k].e.saveErr /\ \A t \in Gaps(flight[k].e) : db'[t] # "none"
      BY <2>2, <2>3
    <3>2. f.e.tv \subseteq Stored
      BY <3>1, <2>1, <2>3, <2>4 DEF FlightSound
    <3>3. Gaps(flight[k].e) \subseteq Stored'
      BY <3>1, <2>4 DEF Gaps, Stored
    <3> QED BY <3>2, <3>3, <2>3, StoreGrows DEF Gaps
  <2>6. EntrySound(f.e, now)
    <3>1. BarsOf(f.e) = BarsOf(flight[k].e)
      BY <2>3 DEF BarsOf
    <3> QED BY <3>1, <2>4 DEF FlightSound, EntrySound
  <2>7. FlightSound(k, f, Stored', now)
    BY <2>3, <2>4, <2>5, <2>6 DEF FlightSound
  <2> QED BY <2>1, <2>3, <2>7, OthersKept DEF f
<1>7. ASSUME NEW k \in Kinds, Publish(k) PROVE FlightsInv'
  <2>1. flight'[k] = NoFlight /\ \A j \in Kinds : j # k => flight'[j] = flight[j]
    BY <1>7, PublishEffect
  <2>2. now' = now
    BY <1>7 DEF Publish
  <2> QED BY <2>1, <2>2, OthersKept
<1>8. ASSUME NEW b \in Browsers, Click(b) PROVE FlightsInv'
  <2>1. (flight' = flight \/ Join("button")) /\ UNCHANGED <<now, db>>
    BY <1>8, ClickEffect
  <2>2. CASE flight' = flight
    BY <2>1, <2>2 DEF FlightsInv, Stored
  <2> QED BY <2>1, <2>2, JoinKeepsFlights DEF Kinds
<1>9. ASSUME NEW b \in Browsers, Browse(b) PROVE FlightsInv'
  <2>1. UNCHANGED <<now, db, flight>>
    BY <1>9 DEF Browse, AnswerStored, AnswerFetched, NextPage, OlderPage, OlderFails, GiveUp
  <2> QED BY <2>1 DEF FlightsInv, Stored
<1>10. CASE UNCHANGED vars
  BY <1>10 DEF vars, FlightsInv, Stored
<1> QED BY <1>1, <1>2, <1>3, <1>4, <1>5, <1>6, <1>7, <1>8, <1>9, <1>10 DEF Next, Serve

-----------------------------------------------------------------------------
(* The weekly job, the cache, the bars.                                    *)

\* The job waits as long as its call, which nobody else ends but a restart.
LEMMA CronStep == ASSUME TypeOK, FlightsInv, CronInv, [Next]_vars PROVE CronInv'
<1>1. "cron" \in Kinds /\ "button" \in Kinds
  BY DEF Kinds
<1>2. CASE UNCHANGED <<flight, cron>>
  BY <1>2 DEF CronInv
<1>3. CASE Tick
  BY <1>3, <1>2 DEF Tick
<1>4. CASE Restart
  <2>1. flight'["cron"] = NoFlight
    BY <1>4, <1>1 DEF Restart
  <2>2. cron'.step # "wait"
    BY <1>4 DEF Restart
  <2> QED BY <2>1, <2>2 DEF CronInv
<1>5. CASE StartCron
  <2>1. Join("cron") /\ cron.step = "idle" /\ flight["cron"] = NoFlight
    BY <1>5 DEF StartCron, CronInv
  <2>2. flight'["cron"] = [step |-> "fetch", from |-> now, back |-> Back("cron"), at |-> now, e |-> NoEntry]
        /\ flight'["cron"] # NoFlight
    BY <2>1, <1>1, JoinEffect
  <2>3. cron' = [step |-> "wait", from |-> now, ok |-> FALSE]
    BY <1>5 DEF StartCron
  <2> QED BY <2>2, <2>3 DEF CronInv
<1>6. ASSUME cron' = cron, flight'["cron"] # NoFlight, flight["cron"] # NoFlight,
             flight'["cron"].from = flight["cron"].from
      PROVE  CronInv'
  BY <1>6 DEF CronInv
<1>7. ASSUME NEW k \in Kinds, cron' = cron, \A j \in Kinds : j # k => flight'[j] = flight[j],
             flight'[k] # NoFlight, flight[k] # NoFlight, flight'[k].from = flight[k].from
      PROVE  CronInv'
  <2>1. CASE k = "cron"
    BY <2>1, <1>6, <1>7
  <2>2. CASE k # "cron"
    <3>1. flight'["cron"] = flight["cron"]
      BY <2>2, <1>1, <1>7
    <3> QED BY <3>1, <1>7 DEF CronInv
  <2> QED BY <2>1, <2>2
<1>8. ASSUME NEW k \in Kinds, Fetch(k) PROVE CronInv'
  BY <1>7, <1>8, FetchedEffect DEF Fetch
<1>9. ASSUME NEW k \in Kinds, Upsert(k) PROVE CronInv'
  <2>1. flight[k] # NoFlight /\ cron' = cron
    BY <1>9, NoFlightStep DEF Upsert
  <2>2. PICK err \in BOOLEAN : flight' = [flight EXCEPT ![k] = Stepped(flight[k], "fill", err)]
    BY <1>9, UpsertEffect
  <2>3. \A j \in Kinds : j # k => flight'[j] = flight[j]
    BY <2>1, <2>2, SteppedEffect
  <2>4. flight'[k] # NoFlight /\ flight'[k].from = flight[k].from
    BY <2>1, <2>2, SteppedEffect
  <2> QED BY <1>7, <2>1, <2>3, <2>4
<1>10. ASSUME NEW k \in Kinds, Fill(k) PROVE CronInv'
  <2>1. flight[k] # NoFlight /\ cron' = cron
    BY <1>10, NoFlightStep DEF Fill
  <2>2. PICK err \in BOOLEAN : flight' = [flight EXCEPT ![k] = Stepped(flight[k], "publish", err)]
    BY <1>10, FillEffect
  <2>3. \A j \in Kinds : j # k => flight'[j] = flight[j]
    BY <2>1, <2>2, SteppedEffect
  <2>4. flight'[k] # NoFlight /\ flight'[k].from = flight[k].from
    BY <2>1, <2>2, SteppedEffect
  <2> QED BY <1>7, <2>1, <2>3, <2>4
<1>11. ASSUME NEW k \in Kinds, Publish(k) PROVE CronInv'
  <2>1. /\ flight[k] # NoFlight /\ flight'[k] = NoFlight
        /\ \A j \in Kinds : j # k => flight'[j] = flight[j]
        /\ IF cron.step = "wait" /\ k = "cron" THEN cron'.step = "idle" ELSE cron' = cron
    BY <1>11, PublishEffect
  <2>2. CASE k = "cron"
    <3>1. cron'.step = "idle"
      BY <2>1, <2>2 DEF CronInv
    <3> QED BY <2>1, <2>2, <3>1 DEF CronInv
  <2>3. CASE k # "cron"
    <3>1. flight'["cron"] = flight["cron"] /\ cron' = cron
      BY <2>1, <2>3, <1>1
    <3> QED BY <3>1 DEF CronInv
  <2> QED BY <2>2, <2>3
<1>12. ASSUME NEW b \in Browsers, Click(b) PROVE CronInv'
  <2>1. cron' = cron /\ (flight' = flight \/ Join("button"))
    BY <1>12, ClickEffect
  <2>2. flight'["cron"] = flight["cron"]
    BY <2>1, <1>1, JoinEffect
  <2> QED BY <2>1, <2>2 DEF CronInv
<1>13. ASSUME NEW b \in Browsers, Browse(b) PROVE CronInv'
  BY <1>2, <1>13 DEF Browse, AnswerStored, AnswerFetched, NextPage, OlderPage, OlderFails, GiveUp
<1>14. CASE UNCHANGED vars
  BY <1>14, <1>2 DEF vars
<1> QED BY <1>3, <1>4, <1>5, <1>8, <1>9, <1>10, <1>11, <1>12, <1>13, <1>14 DEF Next, Serve

\* What is published in the cache came with a sound call.
LEMMA CacheStep ==
    ASSUME TypeOK, FlightsInv, EntrySound(cache.e, now), [Next]_vars
    PROVE  EntrySound(cache.e, now)'
<1>1. CASE UNCHANGED <<cache, now>>
  BY <1>1
<1>2. CASE Tick
  <2>1. now \in Nat /\ now' = now + 1
    BY <1>2, Numbers DEF Tick, TypeOK
  <2>2. EntrySound(cache.e, now + 1)
    BY <2>1, EntryLater
  <2>3. cache' = cache \/ cache'.e = NoEntry
    BY <1>2 DEF Tick, NoCache
  <2> QED BY <2>1, <2>2, <2>3, NoEntryIsSound
<1>3. CASE Restart
  <2>1. cache'.e = NoEntry
    BY <1>3 DEF Restart, NoCache
  <2> QED BY <2>1, NoEntryIsSound
<1>4. ASSUME NEW k \in Kinds, Publish(k) PROVE EntrySound(cache.e, now)'
  <2>1. flight[k] # NoFlight /\ cache'.e = flight[k].e /\ now' = now
    BY <1>4, PublishEffect DEF Publish
  <2> QED BY <2>1 DEF FlightsInv, FlightSound
<1>5. ASSUME StartCron \/ (\E k \in Kinds : Fetch(k) \/ Upsert(k) \/ Fill(k))
             \/ (\E b \in Browsers : Click(b) \/ Browse(b)) \/ UNCHANGED vars
      PROVE  UNCHANGED <<cache, now>>
  BY <1>5 DEF StartCron, Fetch, Upsert, Fill, Click, Browse, AnswerStored, AnswerFetched, NextPage,
              OlderPage, OlderFails, GiveUp, vars
<1> QED BY <1>1, <1>2, <1>3, <1>4, <1>5 DEF Next, Serve

\* The bars of a browser change only at the end of a press.
LEMMA BarsChange ==
    ASSUME [Next]_vars
    PROVE  bars' = bars \/ \E b \in Browsers : (OlderPage(b) /\ ~More(browser[b].after, First(b))) \/ OlderFails(b)
<1>1. ASSUME NEW b \in Browsers, OlderPage(b), More(browser[b].after, First(b)) PROVE bars' = bars
  BY <1>1 DEF OlderPage
<1>2. ASSUME NEW b \in Browsers, Browse(b)
      PROVE  bars' = bars \/ (OlderPage(b) /\ ~More(browser[b].after, First(b))) \/ OlderFails(b)
  BY <1>1, <1>2 DEF Browse, AnswerStored, AnswerFetched, NextPage, GiveUp
<1>3. ASSUME Tick \/ Restart \/ StartCron \/ (\E k \in Kinds : Serve(k)) \/ (\E b \in Browsers : Click(b))
             \/ UNCHANGED vars
      PROVE  bars' = bars
  BY <1>3 DEF Tick, Restart, StartCron, Serve, Fetch, Upsert, Fill, Publish, Click, vars
<1> QED BY <1>2, <1>3 DEF Next

\* Bars are stored and merged only when their minute has passed.
LEMMA BarsStep == ASSUME TypeOK, FlightsInv, BarsInv, PressInv, [Next]_vars PROVE BarsInv'
<1>1. now \in Nat /\ (now' = now \/ now' = now + 1)
  BY StoreChanges, Numbers DEF TypeOK, Tick
<1>2. \A t \in Nat : t < now => t < now'
  BY <1>1
<1>3. Stored' \subseteq Market /\ \A t \in Stored' : t < now'
  <2> SUFFICES ASSUME NEW t \in Minutes, db'[t] # "none" PROVE t \in Market /\ t < now'
    BY DEF Stored
  <2>1. t \in Nat
    BY Numbers
  <2>2. CASE db'[t] = db[t]
    <3>1. t \in Stored
      BY <2>2 DEF Stored
    <3> QED BY <3>1, <2>1, <1>2 DEF BarsInv
  <2>3. CASE db'[t] # db[t]
    <3>1. t \in Market /\ t < now
      BY <2>3, StoreChanges, WritesAreYoung
    <3> QED BY <3>1, <2>1, <1>2
  <2> QED BY <2>2, <2>3
<1>4. ASSUME NEW c \in Browsers PROVE bars'[c] # {} /\ \A t \in bars'[c] : t < now'
  <2>1. bars[c] # {} /\ (\A t \in bars[c] : t \in Nat /\ t < now)
    BY Numbers, PressRecord DEF BarsInv
  <2>2. CASE bars' = bars
    BY <2>1, <2>2, <1>2
  <2>3. ASSUME NEW b \in Browsers, (OlderPage(b) /\ ~More(browser[b].after, First(b))) \/ OlderFails(b)
        PROVE  bars'[c] # {} /\ \A t \in bars'[c] : t < now'
    <3>1. PICK past \in SUBSET Minutes :
            /\ Merge(b, browser[b].got \cup past)
            /\ past = {} \/ past = browser[b].older \cup Rows(browser[b].after, First(b))
      BY <2>3, MergeCases
    <3>2. browser[b].got \cup past \in SUBSET Minutes
      BY PressRecord
    <3>3. /\ bars'[b] = bars[b] \cup (browser[b].got \cup past)
          /\ \A d \in Browsers \ {b} : bars'[d] = bars[d]
      BY <3>1, <3>2 DEF Merge, TypeOK
    <3>4. now' = now
      BY <2>3, MergeCases
    <3>5. \A t \in browser[b].got \cup browser[b].older : t < now
      BY DEF PressInv, PressSound
    <3>6. \A t \in Rows(browser[b].after, First(b)) : t < now
      BY PageIsFirst DEF BarsInv
    <3>7. \A t \in browser[b].got \cup past : t < now
      BY <3>1, <3>5, <3>6
    <3>8. CASE c = b
      BY <3>3, <3>4, <3>7, <3>8, <2>1
    <3>9. CASE c # b
      BY <3>3, <3>4, <3>9, <2>1
    <3> QED BY <3>8, <3>9
  <2> QED BY <2>2, <2>3, BarsChange
<1> QED BY <1>3, <1>4 DEF BarsInv

-----------------------------------------------------------------------------
(* The presses.                                                            *)

\* No press is sound over any bars.
LEMMA NotPressedIsSound ==
    ASSUME NEW held, NEW table, NEW m \in Nat
    PROVE  PressSound(NotPressed, held, table, m)
<1>1. /\ NotPressed.step = "idle" /\ NotPressed.at = 0 /\ NotPressed.e = NoEntry
      /\ NotPressed.got = {} /\ NotPressed.older = {}
  BY DEF NotPressed
<1>2. 0 <= m /\ EntrySound(NotPressed.e, m)
  BY <1>1, NoEntryIsSound
<1>3. NewerSound(NotPressed, held, table, m)
  BY <1>1 DEF NewerSound
<1>4. OlderSound(NotPressed, held, table, m)
  BY <1>1 DEF OlderSound
<1> QED BY <1>1, <1>2, <1>3, <1>4 DEF PressSound

\* A press stays sound when a minute passes.
LEMMA PressLater ==
    ASSUME NEW p \in Press, NEW held, NEW table, NEW m \in Nat, PressSound(p, held, table, m)
    PROVE  PressSound(p, held, table, m + 1)
<1>1. p.at \in Nat /\ p.got \subseteq Nat /\ p.older \subseteq Nat /\ Week \in Nat /\ Minutes \subseteq Nat
  BY Numbers DEF Press
<1>2. p.at <= m + 1 /\ EntrySound(p.e, m + 1) /\ \A t \in p.got \cup p.older : t < m + 1
  <2>1. p.at <= m /\ \A t \in p.got \cup p.older : t \in Nat /\ t < m
    BY <1>1 DEF PressSound
  <2>2. EntrySound(p.e, m + 1)
    BY EntryLater DEF PressSound
  <2> QED BY <1>1, <2>1, <2>2
<1>3. ASSUME NEW t \in Minutes, Late(p, t, table, m) PROVE Late(p, t, table, m + 1)
  <2>1. t \in Nat
    BY <1>1
  <2>2. t + Week < m => t + Week < m + 1
    BY <2>1, <1>1
  <2> QED BY <1>3, <2>2 DEF Late
<1>4. NewerSound(p, held, table, m + 1)
  BY <1>3 DEF PressSound, NewerSound
<1>5. OlderSound(p, held, table, m + 1)
  BY <1>3 DEF PressSound, OlderSound
<1> QED BY <1>2, <1>4, <1>5 DEF PressSound

\* And when the store is written: what is new there is late for the press.
LEMMA PressWritten ==
    ASSUME NEW p \in Press, NEW held, NEW table, NEW next, NEW m \in Nat, PressSound(p, held, table, m),
           \A t \in Minutes : next[t] # table[t] => m <= t + Week \/ (next[t] = "yahoo" /\ t + Week < m)
    PROVE  PressSound(p, held, next, m)
<1>1. p.at \in Nat /\ p.at <= m /\ Week \in Nat /\ Minutes \subseteq Nat
  BY Numbers DEF Press, PressSound
<1>2. ASSUME NEW t \in Minutes, next[t] # table[t] PROVE Late(p, t, next, m)
  <2>1. t \in Nat
    BY <1>1
  <2>2. m <= t + Week => p.at <= t + Week
    BY <2>1, <1>1
  <2> QED BY <1>2, <2>2 DEF Late
<1>3. ASSUME NEW t \in Minutes, Late(p, t, table, m) PROVE Late(p, t, next, m)
  BY <1>2, <1>3 DEF Late
<1>4. NewerSound(p, held, next, m)
  <2>1. NewerSound(p, held, table, m)
    BY DEF PressSound
  <2>2. ASSUME p.step \in {"page", "older"}, p.e = NoEntry,
               NEW t \in Minutes, next[t] # "none", t > Since(Max(held)), p.step = "page" => t <= p.after
        PROVE  t \in p.got \/ Late(p, t, next, m)
    <3>1. CASE next[t] # table[t]
      BY <3>1, <1>2
    <3>2. CASE next[t] = table[t]
      BY <3>2, <2>1, <2>2, <1>3 DEF NewerSound
    <3> QED BY <3>1, <3>2
  <2> QED BY <2>1, <2>2 DEF NewerSound
<1>5. OlderSound(p, held, next, m)
  <2>1. OlderSound(p, held, table, m)
    BY DEF PressSound
  <2>2. ASSUME p.step = "older", NEW t \in Minutes, next[t] # "none", t < Min(held), t <= p.after
        PROVE  t \in p.older \/ Late(p, t, next, m)
    <3>1. CASE next[t] # table[t]
      BY <3>1, <1>2
    <3>2. CASE next[t] = table[t]
      BY <3>2, <2>1, <2>2, <1>3 DEF OlderSound
    <3> QED BY <3>1, <3>2
  <2> QED BY <2>1, <2>2 DEF OlderSound
<1> QED BY <1>1, <1>4, <1>5 DEF PressSound

\* The first and the last bar of a browser.
LEMMA Ends ==
    ASSUME TypeOK, BarsInv, NEW b \in Browsers
    PROVE  /\ First(b) \in bars[b] /\ \A t \in bars[b] : First(b) <= t
           /\ Last(b) \in bars[b] /\ \A t \in bars[b] : t <= Last(b)
           /\ First(b) \in Minutes /\ Last(b) \in Minutes /\ First(b) \in Nat /\ Last(b) \in Nat
           /\ First(b) # 0 /\ First(b) <= Last(b) /\ Last(b) < now
<1>1. bars[b] \in SUBSET Minutes /\ bars[b] # {}
  BY PressRecord DEF BarsInv
<1>2. /\ First(b) \in bars[b] /\ \A t \in bars[b] : First(b) <= t
      /\ Last(b) \in bars[b] /\ \A t \in bars[b] : t <= Last(b)
  BY <1>1, MinIsLeast, MaxIsGreatest DEF First, Last
<1>3. First(b) \in Minutes /\ Last(b) \in Minutes /\ First(b) \in Nat /\ Last(b) \in Nat /\ First(b) > 0
  BY <1>1, <1>2, Numbers
<1> QED BY <1>2, <1>3 DEF BarsInv

\* The page of what is stored that the server answers with, or the next one:
\* the bars up to its cursor have been received.
LEMMA StoredIsSound ==
    ASSUME TypeOK, BarsInv, PressInv, NEW b \in Browsers, NEW after \in Nat,
           Since(Last(b)) <= after,
           Receive(b, NoEntry, Page(after, 0), More(after, 0)),
           \A t \in Minutes : db[t] # "none" /\ t > Since(Last(b)) /\ t <= after
                             => t \in browser[b].got \/ Late(browser[b], t, db, now)
    PROVE  PressSound(browser'[b], bars[b], db, now)
<1> DEFINE p == browser[b]
           q == browser'[b]
           page == Page(after, 0)
           more == More(after, 0)
<1>1. /\ q.step = (IF more THEN "page" ELSE "older") /\ q.at = p.at /\ q.e = NoEntry
      /\ q.got = p.got \cup page /\ q.older = p.older /\ q.after = IF more THEN Max(page) ELSE 0
  <2>1. /\ page \in SUBSET Minutes /\ more \in BOOLEAN /\ (more => Max(page) \in Times) /\ NoEntry \in Entry
    BY StoredPage
  <2>2. Receive(b, NoEntry, page, more)
    OBVIOUS
  <2> HIDE DEF page, more
  <2> QED BY <2>1, <2>2, ReceiveEffect
<1>2. PressSound(p, bars[b], db, now)
  BY DEF PressInv
<1>3. page \subseteq Rows(after, 0) /\ Rows(after, 0) \subseteq Stored /\ \A t \in page : t < now
  BY PageIsFirst DEF BarsInv
<1>4. ASSUME NEW t \in Minutes, db[t] # "none", t > after, more => t <= Max(page) PROVE t \in page
  <2>1. t \in Rows(after, 0)
    BY <1>4 DEF Rows, Stored
  <2>2. CASE more
    BY <2>1, <2>2, <1>4, PageHasALast
  <2>3. CASE ~more
    BY <2>1, <2>3 DEF More
  <2> QED BY <2>2, <2>3
<1>5. ASSUME NEW t \in Minutes PROVE Late(p, t, db, now) => Late(q, t, db, now)
  BY <1>1 DEF Late
<1> HIDE DEF page, more
<1>6. NewerSound(q, bars[b], db, now)
  <2>0. \A t \in page : t > Since(Max(bars[b]))
    <3> SUFFICES ASSUME NEW t \in page PROVE t > Since(Last(b))
      BY DEF Last
    <3>1. t \in Nat /\ t > after /\ Since(Last(b)) \in Nat /\ Since(Last(b)) <= after
      <4>1. t \in Minutes /\ t > after
        BY <1>3, StoredTyped DEF Rows
      <4> QED BY <4>1, Ends, SinceIsAWeek, Numbers
    <3> QED BY <3>1
  <2>9. (\A t \in q.got : t > Since(Max(bars[b]))) /\ (q.step = "page" => q.after > Since(Max(bars[b])))
    <3>1. \A t \in p.got : t > Since(Max(bars[b]))
      BY <1>2 DEF PressSound, NewerSound
    <3>2. more => Max(page) \in page
      BY PageHasALast DEF more, page
    <3> QED BY <1>1, <2>0, <3>1, <3>2
  <2>1. ASSUME NEW t \in Minutes, db[t] # "none", t > Since(Max(bars[b])), q.step = "page" => t <= q.after
        PROVE  t \in q.got \/ Late(q, t, db, now)
    <3>1. t \in Nat
      BY Numbers
    <3>2. CASE t <= after
      <4>1. t \in p.got \/ Late(p, t, db, now)
        BY <3>2, <2>1 DEF Last
      <4> QED BY <4>1, <1>1, <1>5
    <3>3. CASE t > after
      <4>1. more => t <= Max(page)
        BY <2>1, <1>1
      <4>2. t \in page
        BY <3>3, <4>1, <2>1, <1>4
      <4> QED BY <4>2, <1>1
    <3> QED BY <3>1, <3>2, <3>3
  <2> HIDE DEF q
  <2> QED BY <2>1, <2>9, <1>1 DEF NewerSound
<1>7. OlderSound(q, bars[b], db, now)
  <2>1. \A t \in q.older : t < Min(bars[b])
    BY <1>1, <1>2 DEF PressSound, OlderSound
  <2>2. q.step = "older" => q.after = 0
    BY <1>1
  <2>3. \A t \in Minutes : t \in Nat /\ ~(t <= 0)
    BY Numbers
  <2> HIDE DEF q
  <2> QED BY <2>1, <2>2, <2>3 DEF OlderSound
<1>8. /\ q.at <= now /\ EntrySound(q.e, now) /\ \A t \in q.got \cup q.older : t < now
      /\ q.step \in {"page", "older"}
  <2>1. q.at <= now /\ EntrySound(q.e, now)
    BY <1>1, <1>2, NoEntryIsSound DEF PressSound
  <2>2. \A t \in q.got \cup q.older : t < now
    BY <1>1, <1>2, <1>3 DEF PressSound
  <2> QED BY <2>1, <2>2, <1>1
<1> HIDE DEF q
<1>9. PressSound(q, bars[b], db, now)
  BY <1>6, <1>7, <1>8 DEF PressSound
<1> QED BY <1>9 DEF q

\* The fetched bars, when they are handed over.
LEMMA FetchedIsSound ==
    ASSUME TypeOK, BarsInv, PressInv, NEW b \in Browsers, AnswerFetched(b)
    PROVE  PressSound(browser'[b], bars[b], db, now)
<1> DEFINE p == browser[b]
           q == browser'[b]
           page == {t \in BarsOf(p.e) : t > Since(Last(b))}
<1>1. p.step = "answer" /\ BarsOf(p.e) # {} /\ Min(BarsOf(p.e)) <= Last(b) + MaxGap
      /\ Receive(b, p.e, page, FALSE)
  BY DEF AnswerFetched, Failed
<1>2. PressSound(p, bars[b], db, now)
  BY DEF PressInv
<1>3. p.got = {}
  BY <1>1, <1>2 DEF PressSound
<1>4. /\ q.step = "older" /\ q.at = p.at /\ q.e = p.e
      /\ q.got = page /\ q.older = p.older /\ q.after = 0
  <2>1. page \in SUBSET Minutes /\ p.e \in Entry
    BY PressRecord DEF BarsOf
  <2>2. Receive(b, p.e, page, FALSE)
    BY <1>1
  <2> HIDE DEF page
  <2>3. /\ q.step = "older" /\ q.at = p.at /\ q.e = p.e
        /\ q.got = p.got \cup page /\ q.older = p.older /\ q.after = 0
    <3>1. ASSUME NEW e \in Entry, NEW more \in BOOLEAN, ~more, Receive(b, e, page, more)
          PROVE  /\ browser'[b].step = "older" /\ browser'[b].at = browser[b].at /\ browser'[b].e = e
                 /\ browser'[b].got = browser[b].got \cup page /\ browser'[b].older = browser[b].older
                 /\ browser'[b].after = 0
      <4>1. page \in SUBSET Minutes /\ (more => Max(page) \in Times)
        BY <2>1, <3>1
      <4>2. /\ browser'[b].step = (IF more THEN "page" ELSE "older")
            /\ browser'[b].at = browser[b].at /\ browser'[b].e = e
            /\ browser'[b].got = browser[b].got \cup page /\ browser'[b].older = browser[b].older
            /\ browser'[b].after = IF more THEN Max(page) ELSE 0
        BY <3>1, <4>1, ReceiveEffect
      <4> QED BY <3>1, <4>2
    <3> DEFINE e == p.e
    <3>2. e \in Entry /\ Receive(b, e, page, FALSE)
      BY <2>1, <2>2
    <3> HIDE DEF e
    <3>3. /\ browser'[b].step = "older" /\ browser'[b].at = browser[b].at /\ browser'[b].e = e
          /\ browser'[b].got = browser[b].got \cup page /\ browser'[b].older = browser[b].older
          /\ browser'[b].after = 0
      BY <3>1, <3>2
    <3> QED BY <3>3 DEF e
  <2> QED BY <2>3, <1>3
<1>5. p.e # NoEntry
  BY <1>1 DEF BarsOf, NoEntry
<1>6. NewerSound(q, bars[b], db, now)
  BY <1>1, <1>4, <1>5 DEF NewerSound, Last
<1>7. OlderSound(q, bars[b], db, now)
  <2>1. \A t \in q.older : t < Min(bars[b])
    BY <1>2, <1>4 DEF PressSound, OlderSound
  <2>2. \A t \in Minutes : t \in Nat /\ ~(t <= 0)
    BY Numbers
  <2> QED BY <2>1, <2>2, <1>4 DEF OlderSound
<1>8. q.at <= now /\ EntrySound(q.e, now) /\ \A t \in q.got \cup q.older : t < now
  <2>1. \A t \in BarsOf(p.e) : t < now
    BY <1>2 DEF PressSound, EntrySound
  <2> QED BY <2>1, <1>2, <1>4 DEF PressSound
<1>9. q.step \notin {"wait", "answer"}
  BY <1>4
<1> HIDE DEF q
<1>10. PressSound(q, bars[b], db, now)
  BY <1>6, <1>7, <1>8, <1>9 DEF PressSound
<1> QED BY <1>10 DEF q

\* A page of older bars.
LEMMA OlderIsSound ==
    ASSUME TypeOK, BarsInv, PressInv, NEW b \in Browsers, OlderPage(b), More(browser[b].after, First(b))
    PROVE  PressSound(browser'[b], bars[b], db, now)
<1> DEFINE p == browser[b]
           q == browser'[b]
           page == Page(p.after, First(b))
<1>1. /\ q.step = "older" /\ q.at = p.at /\ q.e = p.e /\ q.got = p.got /\ q.older = p.older \cup page
      /\ q.after = Max(page) /\ p.step = "older"
  BY OlderPageReceives DEF OlderPage
<1>2. PressSound(p, bars[b], db, now)
  BY DEF PressInv
<1>3. page \subseteq Rows(p.after, First(b)) /\ Rows(p.after, First(b)) \subseteq Stored
  BY PageIsFirst
<1>4. \A t \in page : t < First(b) /\ t < now
  BY <1>3, Ends DEF BarsInv, Rows
<1>5. ASSUME NEW t \in Minutes, db[t] # "none", t < First(b), t > p.after, t <= Max(page) PROVE t \in page
  <2>1. t \in Rows(p.after, First(b))
    BY <1>5 DEF Rows, Stored
  <2> QED BY <2>1, <1>5, PageHasALast
<1>6. ASSUME NEW t \in Minutes PROVE Late(p, t, db, now) <=> Late(q, t, db, now)
  BY <1>1 DEF Late
<1>7. p.after \in Nat
  BY PressRecord, Numbers
<1> HIDE DEF page
<1>8. NewerSound(q, bars[b], db, now)
  <2>1. NewerSound(p, bars[b], db, now)
    BY <1>2 DEF PressSound
  <2> QED BY <2>1, <1>1, <1>6 DEF NewerSound
<1>9. OlderSound(q, bars[b], db, now)
  <2>1. \A t \in q.older : t < Min(bars[b])
    BY <1>1, <1>2, <1>4 DEF PressSound, OlderSound, First
  <2>2. ASSUME NEW t \in Minutes, db[t] # "none", t < Min(bars[b]), t <= q.after
        PROVE  t \in q.older \/ Late(q, t, db, now)
    <3>1. t \in Nat
      BY Numbers
    <3>2. CASE t <= p.after
      <4>1. t \in p.older \/ Late(p, t, db, now)
        BY <3>2, <2>2, <1>1, <1>2 DEF PressSound, OlderSound
      <4> QED BY <4>1, <1>1, <1>6
    <3>3. CASE t > p.after
      BY <3>3, <2>2, <1>1, <1>5 DEF First
    <3> QED BY <3>1, <3>2, <3>3, <1>7
  <2> HIDE DEF q
  <2> QED BY <2>1, <2>2 DEF OlderSound
<1>10. q.at <= now /\ EntrySound(q.e, now) /\ \A t \in q.got \cup q.older : t < now
  BY <1>1, <1>2, <1>4 DEF PressSound
<1>11. q.step \notin {"wait", "answer"}
  BY <1>1
<1> HIDE DEF q
<1>12. PressSound(q, bars[b], db, now)
  BY <1>8, <1>9, <1>10, <1>11 DEF PressSound
<1> QED BY <1>12 DEF q

\* Every step keeps the presses sound.
LEMMA PressStep == ASSUME LiveInv, [Next]_vars PROVE PressInv'
<1> USE DEF LiveInv
<1>1. now \in Nat
  BY Numbers DEF TypeOK
<1>2. ASSUME NEW c \in Browsers PROVE PressSound(browser[c], bars[c], db, now) /\ browser[c] \in Press
  BY PressRecord DEF PressInv
<1>3. ASSUME UNCHANGED <<now, db, bars>>, NEW b \in Browsers, \A c \in Browsers \ {b} : browser'[c] = browser[c],
             PressSound(browser'[b], bars[b], db, now)
      PROVE  PressInv'
  <2> SUFFICES ASSUME NEW c \in Browsers PROVE PressSound(browser'[c], bars[c], db, now)
    BY <1>3 DEF PressInv
  <2>1. CASE c = b
    BY <2>1, <1>3
  <2>2. CASE c # b
    BY <2>2, <1>2, <1>3
  <2> QED BY <2>1, <2>2
<1>4. CASE UNCHANGED <<now, db, bars, browser>>
  BY <1>4 DEF PressInv
<1>5. CASE Tick
  <2>1. now' = now + 1 /\ UNCHANGED <<db, bars, browser>>
    BY <1>5 DEF Tick
  <2> SUFFICES ASSUME NEW c \in Browsers PROVE PressSound(browser[c], bars[c], db, now + 1)
    BY <2>1 DEF PressInv
  <2> QED BY <1>1, <1>2, PressLater
<1>6. CASE Restart
  <2>1. UNCHANGED <<now, db, bars>> /\ \A c \in Browsers : browser'[c] \in {browser[c], NotPressed}
    BY <1>6 DEF Restart
  <2> SUFFICES ASSUME NEW c \in Browsers PROVE PressSound(browser'[c], bars[c], db, now)
    BY <2>1 DEF PressInv
  <2> QED BY <1>1, <1>2, <2>1, NotPressedIsSound
<1>7. ASSUME StartCron \/ \E k \in Kinds : Fetch(k) PROVE UNCHANGED <<now, db, bars, browser>>
  BY <1>7 DEF StartCron, Fetch
<1>8. ASSUME NEW k \in Kinds, Upsert(k) \/ Fill(k) PROVE PressInv'
  <2>1. UNCHANGED <<now, bars, browser>>
    BY <1>8 DEF Upsert, Fill
  <2>2. \A t \in Minutes : db'[t] # db[t] => now <= t + Week \/ (db'[t] = "yahoo" /\ t + Week < now)
    BY <1>8, WritesAreYoung
  <2> SUFFICES ASSUME NEW c \in Browsers PROVE PressSound(browser[c], bars[c], db', now)
    BY <2>1 DEF PressInv
  <2>3. PressSound(browser[c], bars[c], db, now) /\ browser[c] \in Press
    BY <1>2
  <2> QED BY <1>1, <2>2, <2>3, PressWritten
<1>9. ASSUME NEW k \in Kinds, Publish(k) PROVE PressInv'
  <2>1. flight[k] # NoFlight /\ UNCHANGED <<now, db, bars>>
    BY <1>9, PublishEffect DEF Publish
  <2>2. EntrySound(flight[k].e, now)
    BY <2>1 DEF FlightsInv, FlightSound
  <2> SUFFICES ASSUME NEW c \in Browsers PROVE PressSound(browser'[c], bars[c], db, now)
    BY <2>1 DEF PressInv
  <2>3. \/ browser'[c] = browser[c]
        \/ /\ browser'[c].step = "answer" /\ browser'[c].e = flight[k].e
           /\ browser'[c].at = browser[c].at /\ browser'[c].got = browser[c].got
           /\ browser'[c].older = browser[c].older /\ browser[c].step = "wait"
    <3>1. \/ browser'[c] = browser[c]
          \/ /\ browser'[c].step = "answer" /\ browser'[c].e = flight[k].e
             /\ browser'[c].at = browser[c].at /\ browser'[c].got = browser[c].got
             /\ browser'[c].older = browser[c].older
      BY <1>9, PublishEffect
    <3>2. browser'[c] = browser[c] \/ browser[c].step = "wait"
      BY <1>9 DEF Publish
    <3> QED BY <3>1, <3>2
  <2>4. CASE browser'[c] = browser[c]
    BY <2>4, <1>2
  <2>5. CASE /\ browser'[c].step = "answer" /\ browser'[c].e = flight[k].e
             /\ browser'[c].at = browser[c].at /\ browser'[c].got = browser[c].got
             /\ browser'[c].older = browser[c].older /\ browser[c].step = "wait"
    <3> DEFINE p == browser[c]
               q == browser'[c]
    <3>1. /\ q.step = "answer" /\ q.e = flight[k].e /\ q.at = p.at /\ q.got = p.got /\ q.older = p.older
          /\ p.step = "wait" /\ PressSound(p, bars[c], db, now)
      BY <2>5, <1>2
    <3> HIDE DEF p, q
    <3>2. NewerSound(q, bars[c], db, now)
      BY <3>1 DEF PressSound, NewerSound
    <3>3. OlderSound(q, bars[c], db, now)
      BY <3>1 DEF PressSound, OlderSound
    <3>4. PressSound(q, bars[c], db, now)
      BY <3>1, <3>2, <3>3, <2>2 DEF PressSound
    <3> QED BY <3>4 DEF q
  <2> QED BY <2>3, <2>4, <2>5
<1>10. ASSUME NEW b \in Browsers, Click(b) PROVE PressInv'
  <2> DEFINE q == browser'[b]
  <2>1. /\ \A c \in Browsers \ {b} : browser'[c] = browser[c]
        /\ q.at = now /\ q.got = {} /\ q.older = {}
        /\ q.step \in {"wait", "answer"} /\ q.e \in {cache.e, NoEntry}
        /\ UNCHANGED <<now, db, bars>>
    BY <1>10, ClickEffect
  <2> HIDE DEF q
  <2>2. EntrySound(q.e, now)
    BY <2>1, NoEntryIsSound
  <2>3. NewerSound(q, bars[b], db, now) /\ OlderSound(q, bars[b], db, now)
    BY <2>1 DEF NewerSound, OlderSound
  <2>4. PressSound(q, bars[b], db, now)
    BY <2>1, <2>2, <2>3, <1>1 DEF PressSound
  <2> QED BY <2>1, <2>4, <1>3 DEF q
<1>11. ASSUME NEW b \in Browsers, AnswerStored(b) \/ AnswerFetched(b) \/ NextPage(b) PROVE PressInv'
  <2>1. UNCHANGED <<now, db, bars>>
    BY <1>11, AnswerTypes
  <2>2. CASE AnswerStored(b)
    <3> DEFINE since == Since(Last(b))
    <3>1. Receive(b, NoEntry, Page(since, 0), More(since, 0))
      BY <2>2 DEF AnswerStored
    <3>2. since \in Nat /\ \A t \in Minutes : t \in Nat
      BY Ends, SinceIsAWeek, Numbers
    <3> HIDE DEF since
    <3>3. \A t \in Minutes : ~(t > since /\ t <= since)
      BY <3>2
    <3>4. PressSound(browser'[b], bars[b], db, now)
      <4>1. since <= since
        BY <3>2
      <4> QED BY <3>1, <3>2, <3>3, <4>1, StoredIsSound DEF since
    <3>5. \A c \in Browsers \ {b} : browser'[c] = browser[c]
      BY <3>1, StoredPage, ReceiveEffect
    <3> QED BY <2>1, <3>4, <3>5, <1>3
  <2>3. CASE AnswerFetched(b)
    <3>1. PressSound(browser'[b], bars[b], db, now)
      BY <2>3, FetchedIsSound
    <3> DEFINE page == {t \in BarsOf(browser[b].e) : t > Since(Last(b))}
    <3>2. Receive(b, browser[b].e, page, FALSE)
      BY <2>3 DEF AnswerFetched
    <3>3. page \in SUBSET Minutes /\ browser[b].e \in Entry
      BY PressRecord DEF BarsOf
    <3> HIDE DEF page
    <3>4. \A c \in Browsers \ {b} : browser'[c] = browser[c]
      BY <3>2, <3>3, ReceiveEffect
    <3> QED BY <2>1, <3>1, <3>4, <1>3
  <2>4. CASE NextPage(b)
    <3>1. Receive(b, NoEntry, Page(browser[b].after, 0), More(browser[b].after, 0)) /\ browser[b].step = "page"
      BY <2>4 DEF NextPage
    <3>2. browser[b].after \in Nat
      BY PressRecord, Numbers
    <3>3. \A t \in Minutes : db[t] # "none" /\ t > Since(Last(b)) /\ t <= browser[b].after
                              => t \in browser[b].got \/ Late(browser[b], t, db, now)
      BY <1>2, <3>1 DEF PressSound, NewerSound, Last
    <3>4. PressSound(browser'[b], bars[b], db, now)
      <4>1. browser[b].after > Since(Last(b)) /\ Since(Last(b)) \in Nat
        BY <1>2, <3>1, Ends, SinceIsAWeek DEF PressSound, NewerSound, Last
      <4>2. Since(Last(b)) <= browser[b].after
        BY <4>1, <3>2
      <4> QED BY <3>1, <3>2, <3>3, <4>2, StoredIsSound
    <3>5. \A c \in Browsers \ {b} : browser'[c] = browser[c]
      BY <3>1, StoredPage, ReceiveEffect
    <3> QED BY <2>1, <3>4, <3>5, <1>3
  <2> QED BY <1>11, <2>2, <2>3, <2>4
<1>12. ASSUME NEW b \in Browsers, OlderPage(b), More(browser[b].after, First(b)) PROVE PressInv'
  <2>1. PressSound(browser'[b], bars[b], db, now)
    BY <1>12, OlderIsSound
  <2>2. bars' = bars /\ \A c \in Browsers \ {b} : browser'[c] = browser[c]
    BY <1>12, OlderPageReceives
  <2>3. UNCHANGED <<now, db>>
    BY <1>12 DEF OlderPage
  <2> QED BY <2>1, <2>2, <2>3, <1>3
<1>13. ASSUME NEW b \in Browsers, (OlderPage(b) /\ ~More(browser[b].after, First(b))) \/ OlderFails(b)
       PROVE  PressInv'
  <2>1. UNCHANGED <<now, db>>
    BY <1>13, MergeCases
  <2>2. PICK past \in SUBSET Minutes : Merge(b, browser[b].got \cup past)
    BY <1>13, MergeCases
  <2>3. browser[b].got \cup past \in SUBSET Minutes
    BY PressRecord
  <2>4. browser'[b] = NotPressed /\ \A c \in Browsers \ {b} : browser'[c] = browser[c] /\ bars'[c] = bars[c]
    BY <2>2, <2>3 DEF Merge, TypeOK
  <2> SUFFICES ASSUME NEW c \in Browsers PROVE PressSound(browser'[c], bars'[c], db, now)
    BY <2>1 DEF PressInv
  <2>5. CASE c = b
    BY <2>4, <2>5, <1>1, NotPressedIsSound
  <2>6. CASE c # b
    BY <2>4, <2>6, <1>2
  <2> QED BY <2>5, <2>6
<1>14. ASSUME NEW b \in Browsers, GiveUp(b) PROVE PressInv'
  <2>1. /\ UNCHANGED <<now, db, bars>> /\ browser'[b] = NotPressed
        /\ \A c \in Browsers \ {b} : browser'[c] = browser[c]
    BY <1>14 DEF GiveUp, TypeOK
  <2>2. PressSound(browser'[b], bars[b], db, now)
    BY <2>1, <1>1, NotPressedIsSound
  <2> QED BY <2>1, <2>2, <1>3
<1>15. CASE UNCHANGED vars
  BY <1>15, <1>4 DEF vars
<1> QED BY <1>4, <1>5, <1>6, <1>7, <1>8, <1>9, <1>10, <1>11, <1>12, <1>13, <1>14, <1>15, BrowseCases
        DEF Next, Serve

\* The invariant holds at the start.
LEMMA LiveInit == Init => LiveInv
<1> SUFFICES ASSUME Init PROVE LiveInv
  OBVIOUS
<1>1. TypeOK
  BY TypesInit
<1>2. FlightsInv /\ CronInv
  BY DEF Init, FlightsInv, CronInv, Kinds
<1>3. EntrySound(cache.e, now)
  BY NoEntryIsSound DEF Init, NoCache
<1>4. BarsInv
  <2>1. Stored = {}
    BY DEF Init, Stored
  <2> QED BY <2>1, Numbers DEF Init, BarsInv
<1>5. PressInv
  <2>1. now \in Nat /\ \A b \in Browsers : browser[b] = NotPressed
    BY Numbers DEF Init
  <2> QED BY <2>1, NotPressedIsSound DEF PressInv
<1> QED BY <1>1, <1>2, <1>3, <1>4, <1>5 DEF LiveInv

\* And every step keeps it.
LEMMA LiveStep == LiveInv /\ [Next]_vars => LiveInv'
<1> SUFFICES ASSUME LiveInv, [Next]_vars PROVE LiveInv'
  OBVIOUS
<1>1. TypeOK /\ FlightsInv /\ CronInv /\ EntrySound(cache.e, now) /\ BarsInv /\ PressInv
  BY DEF LiveInv
<1>2. TypeOK' /\ FlightsInv' /\ CronInv' /\ EntrySound(cache.e, now)' /\ BarsInv' /\ PressInv'
  BY <1>1, TypesStep, FlightsStep, CronStep, CacheStep, BarsStep, PressStep
<1> QED BY <1>2 DEF LiveInv

\* The inductive invariant: entries are sound, calls are young, and a press
\* was handed what is in store up to its cursor, but for the late bars.
THEOREM LiveInvariant == Spec => []LiveInv
BY LiveInit, LiveStep, PTL DEF Spec

\* Types: every state of the service, the table and the browsers is well
\* formed.
THEOREM LiveTyped == Spec => []TypeOK
<1>1. LiveInv => TypeOK
  BY DEF LiveInv
<1> QED BY <1>1, LiveInvariant, PTL

-----------------------------------------------------------------------------
(* What the bars are promised.                                             *)

\* ReplayBarRepo.Upsert and Fill: what is stored is replaced by TradingView's
\* bars only.
THEOREM YahooOnlyFills == Spec => TradingViewWins
<1>1. ASSUME TypeOK, [Next]_vars, NEW t \in Minutes, db[t] # "none"
      PROVE  db'[t] = "tradingview" \/ db'[t] = db[t]
  <2>1. ASSUME NEW k \in Kinds, Upsert(k) PROVE db'[t] = "tradingview" \/ db'[t] = db[t]
    <3>1. \A u \in Minutes : db'[u] = db[u] \/ (u \in flight[k].e.tv /\ db'[u] = "tradingview")
      BY <1>1, <2>1, UpsertEffect
    <3> QED BY <3>1
  <2>2. ASSUME NEW k \in Kinds, Fill(k) PROVE db'[t] = db[t]
    BY <2>2, <1>1, FillEffect
  <2>3. CASE db' = db
    BY <2>3
  <2> QED BY <2>1, <2>2, <2>3, <1>1, StoreChanges
<1>2. TypeOK /\ [Next]_vars =>
        [\A t \in Minutes : db[t] # "none" => db'[t] = "tradingview" \/ db'[t] = db[t]]_vars
  BY <1>1
<1> QED BY <1>2, LiveTyped, PTL DEF Spec, TradingViewWins

\* RefreshAll: a weekly job that succeeds has saved the month, whatever the
\* buttons and the cache did meanwhile.
THEOREM WeeklyJobSaves == Spec => CronOkMeansSaved
<1>1. ASSUME LiveInv, [Next]_vars, cron.step = "wait", cron'.ok,
             NEW t \in Market \ YahooLacks, t + Month > cron.from, t < cron.from
      PROVE  t \in Stored
  <2>1. TypeOK /\ FlightsInv /\ CronInv
    BY <1>1 DEF LiveInv
  <2>2. ASSUME NEW k \in Kinds, Publish(k) PROVE t \in Stored
    <3>1. k = "cron"
      BY <2>1, <2>2, <1>1, PublishEffect DEF CronInv
    <3>2. /\ flight["cron"] # NoFlight /\ flight["cron"].step = "publish"
          /\ flight["cron"].e.yahoo # {} /\ ~flight["cron"].e.saveErr
      <4>1. cron'.ok => flight[k].e.tv # {} /\ flight[k].e.yahoo # {} /\ ~flight[k].e.saveErr
        BY <2>1, <2>2, <1>1, <3>1, PublishEffect
      <4> QED BY <4>1, <3>1, <2>1, <2>2, <1>1, PublishEffect DEF Publish
    <3>3. FlightSound("cron", flight["cron"], Stored, now) /\ flight["cron"].from = cron.from
      BY <3>2, <2>1, <1>1 DEF FlightsInv, CronInv, Kinds
    <3>4. flight["cron"].back = Month
      BY <3>3 DEF FlightSound, Back
    <3>5. t \in flight["cron"].e.yahoo
      BY <3>2, <3>3, <3>4, <1>1 DEF FlightSound
    <3> QED BY <3>2, <3>3, <3>5 DEF FlightSound
  <2>3. ASSUME ~(\E k \in Kinds : Publish(k)) PROVE FALSE
    <3>1. ~cron.ok
      BY <2>1, <1>1 DEF CronInv
    <3>2. cron' = cron \/ Restart \/ StartCron
      BY <2>3, <1>1 DEF Next, Serve, Tick, Fetch, Upsert, Fill, Click, Browse, AnswerStored, AnswerFetched,
                        NextPage, OlderPage, OlderFails, GiveUp, vars
    <3>3. ASSUME Restart PROVE ~cron'.ok
      BY <3>3, <1>1 DEF Restart
    <3>4. ~StartCron
      BY <1>1 DEF StartCron
    <3> QED BY <1>1, <3>1, <3>2, <3>3, <3>4
  <2> QED BY <2>2, <2>3
<1>2. LiveInv /\ [Next]_vars =>
        [cron.step = "wait" /\ cron'.ok =>
           \A t \in Market \ YahooLacks : t + Month > cron.from /\ t < cron.from => t \in Stored]_vars
  BY <1>1
<1> QED BY <1>2, LiveInvariant, PTL DEF Spec, CronOkMeansSaved

\* A bar that is stored out of reach of a browser is Yahoo's, and late.
LEMMA MissedByWrite ==
    ASSUME LiveInv, [Next]_vars, NEW b \in Browsers, bars'[b] = bars[b], NEW t \in Missed(b)' \ Missed(b)
    PROVE  db'[t] = "yahoo" /\ t + Week < now
<1>1. TypeOK /\ FlightsInv /\ BarsInv
  BY DEF LiveInv
<1>2. t \in Minutes /\ db'[t] # "none" /\ t \notin bars[b] /\ First(b) < t /\ t <= Since(Last(b))
  BY DEF Missed, Stored, First, Last
<1>3. db[t] = "none"
  BY <1>2 DEF Missed, Stored
<1>4. db'[t] # db[t]
  BY <1>2, <1>3
<1>5. now <= t + Week \/ (db'[t] = "yahoo" /\ t + Week < now)
  BY <1>1, <1>2, <1>4, StoreChanges, WritesAreYoung
<1>6. t + Week <= Last(b) /\ Last(b) < now /\ Last(b) \in Nat
  BY <1>1, <1>2, Ends, SinceIsAWeek
<1>7. t \in Nat /\ now \in Nat /\ Week \in Nat
  BY <1>1, <1>2, Numbers DEF TypeOK
<1> QED BY <1>5, <1>6, <1>7

\* A bar in store that a merge puts out of reach was late, or not among the fetched ones.
LEMMA MissedByMerge ==
    ASSUME LiveInv, NEW b \in Browsers, (OlderPage(b) /\ ~More(browser[b].after, First(b))) \/ OlderFails(b),
           NEW t \in Missed(b)' \ Missed(b)
    PROVE  \/ Late(browser[b], t, db, now)
           \/ LET fetched == BarsOf(browser[b].e) IN
              /\ fetched # {} /\ t \notin fetched
              /\ IF t < Min(fetched) THEN Min(fetched) <= Last(b) + MaxGap ELSE t \in YahooLacks
<1> DEFINE p == browser[b]
           fetched == BarsOf(p.e)
<1>1. TypeOK /\ BarsInv /\ PressSound(p, bars[b], db, now)
  BY DEF LiveInv, PressInv
<1>2. p.step = "older" /\ db' = db
  BY <1>1, MergeCases
<1>3. PICK past \in SUBSET Minutes :
        /\ Merge(b, p.got \cup past)
        /\ past = {} \/ past = p.older \cup Rows(p.after, First(b))
  BY <1>1, MergeCases
<1> DEFINE new == bars[b] \cup (p.got \cup past)
<1>4. new \in SUBSET Minutes /\ new # {} /\ bars'[b] = new
  <2>1. p.got \in SUBSET Minutes /\ bars[b] \in SUBSET Minutes /\ bars[b] # {}
    BY <1>1, PressRecord DEF BarsInv
  <2>2. bars'[b] = new
    BY <1>1, <1>3 DEF Merge, TypeOK
  <2> QED BY <2>1, <2>2
<1>5. /\ t \in Minutes /\ db[t] # "none" /\ t \in Market /\ t \notin new
      /\ Min(new) < t /\ t <= Since(Max(new)) /\ ~(First(b) < t /\ t <= Since(Last(b)))
  <2>1. t \in Stored' /\ t \notin bars'[b] /\ Min(bars'[b]) < t /\ t <= Since(Max(bars'[b]))
    BY DEF Missed, First, Last
  <2>2. t \in Stored
    BY <2>1, <1>2 DEF Stored
  <2>3. t \notin bars[b]
    BY <2>1, <1>4
  <2>4. ~(First(b) < t /\ t <= Since(Last(b)))
    BY <2>2, <2>3 DEF Missed
  <2>5. t \in Minutes /\ db[t] # "none" /\ t \in Market
    BY <2>2, <1>1 DEF Stored, BarsInv
  <2> HIDE DEF new
  <2> QED BY <2>1, <2>4, <2>5, <1>4
<1>6. Min(new) \in new /\ Max(new) \in new
  <2> HIDE DEF new
  <2> QED BY <1>4, MinIsLeast, MaxIsGreatest
<1>7. t \notin bars[b] /\ t \notin p.got /\ t \notin past
  BY <1>5
<1>8. /\ t \in Nat /\ Min(new) \in Nat /\ Max(new) \in Nat /\ Week \in Nat /\ Max(new) \in Minutes
      /\ First(b) \in Nat /\ Last(b) \in Nat /\ Last(b) \in Minutes /\ First(b) <= Last(b) /\ Since(Last(b)) \in Nat
  <2>1. Min(new) \in Minutes /\ Max(new) \in Minutes
    BY <1>4, <1>6
  <2> HIDE DEF new
  <2> QED BY <2>1, <1>1, <1>5, Ends, SinceIsAWeek, Numbers
<1>9. t + Week <= Max(new)
  <2> HIDE DEF new
  <2> QED BY <1>5, <1>8, SinceIsAWeek
<1>10. /\ \A u \in p.got : u > Since(Last(b))
       /\ \A u \in past : u < First(b)
  <2>1. \A u \in p.got : u > Since(Last(b))
    BY <1>1 DEF PressSound, NewerSound, Last
  <2>2. \A u \in p.older : u < First(b)
    BY <1>1 DEF PressSound, OlderSound, First
  <2>3. \A u \in Rows(p.after, First(b)) : u < First(b)
    BY <1>1, Ends DEF Rows
  <2> QED BY <1>3, <2>1, <2>2, <2>3
<1>11. CASE Late(p, t, db, now)
  BY <1>11
<1>12. CASE ~Late(p, t, db, now) /\ t > Since(Last(b))
  <2>1. p.e # NoEntry
    <3>1. p.e = NoEntry => t \in p.got
      BY <1>1, <1>2, <1>5, <1>12 DEF PressSound, NewerSound, Last
    <3> QED BY <3>1, <1>7
  <2>2. /\ fetched # {} /\ Min(fetched) <= Last(b) + MaxGap
        /\ p.got = {u \in fetched : u > Since(Last(b))}
    BY <1>1, <1>2, <2>1 DEF PressSound, NewerSound, Last
  <2>3. t \notin fetched
    BY <2>2, <1>7, <1>12
  <2>4. CASE t < Min(fetched)
    BY <2>2, <2>3, <2>4
  <2>5. CASE ~(t < Min(fetched))
    <3>1. fetched \in SUBSET Minutes
      BY <1>1, PressRecord DEF BarsOf
    <3>2. Min(fetched) \in fetched /\ Min(fetched) \in Nat
      <4> HIDE DEF fetched
      <4>1. Min(fetched) \in fetched
        BY <2>2, <3>1, MinIsLeast
      <4> QED BY <4>1, <3>1, Numbers
    <3>3. Min(fetched) < t
      <4>1. Min(fetched) # t
        BY <3>2, <2>3
      <4> HIDE DEF fetched
      <4> QED BY <4>1, <3>2, <2>5, <1>8
    <3>4. Max(new) \in fetched
      <4>1. ~(Max(new) <= Last(b))
        <5>1. ~(t <= Since(Last(b)))
          BY <1>12, <1>8
        <5>2. ~(t + Week <= Last(b))
          BY <5>1, <1>5, <1>8, SinceIsAWeek
        <5> HIDE DEF new
        <5> QED BY <5>2, <1>8, <1>9
      <4>2. Max(new) \notin bars[b]
        BY <4>1, <1>1, Ends
      <4>3. Max(new) \notin past
        <5> HIDE DEF new
        <5> QED BY <4>1, <1>8, <1>10
      <4>4. Max(new) \in p.got
        BY <4>2, <4>3, <1>6
      <4> HIDE DEF new
      <4> QED BY <4>4, <2>2
    <3>5. t \in YahooLacks
      <4>1. EntrySound(p.e, now)
        BY <1>1 DEF PressSound
      <4> HIDE DEF new
      <4> QED BY <4>1, <1>5, <1>9, <2>3, <3>2, <3>3, <3>4 DEF EntrySound
    <3> QED BY <2>2, <2>3, <2>5, <3>5
  <2> QED BY <2>4, <2>5
<1>13. CASE ~Late(p, t, db, now) /\ ~(t > Since(Last(b)))
  <2>1. t <= Since(Last(b)) /\ t < First(b)
    <3>1. t # First(b)
      BY <1>1, <1>7, Ends
    <3> HIDE DEF new
    <3> QED BY <3>1, <1>13, <1>5, <1>8
  <2>2. Min(new) \in past
    <3>1. Min(new) \notin bars[b]
      <4> HIDE DEF new
      <4>1. Min(new) < First(b)
        BY <2>1, <1>5, <1>8
      <4>2. ~(First(b) <= Min(new))
        BY <4>1, <1>8
      <4> QED BY <4>2, <1>1, Ends
    <3>2. Min(new) \notin p.got
      <4> HIDE DEF new
      <4>1. ~(Min(new) > Since(Last(b)))
        BY <2>1, <1>5, <1>8
      <4> QED BY <4>1, <1>10
    <3> QED BY <3>1, <3>2, <1>6
  <2>3. past = p.older \cup Rows(p.after, First(b))
    BY <2>2, <1>3
  <2>4. t \notin p.older /\ t \notin Rows(p.after, First(b))
    BY <2>3, <1>7
  <2>5. ~(t <= p.after)
    BY <2>1, <2>4, <1>1, <1>2, <1>5, <1>13 DEF PressSound, OlderSound, First
  <2>6. t > p.after
    <3>1. p.after \in Nat
      BY <1>1, PressRecord, Numbers
    <3> QED BY <3>1, <2>5, <1>8
  <2>7. t \in Rows(p.after, First(b))
    BY <2>1, <2>6, <1>5 DEF Rows, Stored
  <2> QED BY <2>4, <2>7
<1> QED BY <1>11, <1>12, <1>13

\* refreshLive, fetchLiveBars, Latest and Stored: what is stored stays in reach
\* of every browser's button, but for what Yahoo stores late, what fetched
\* bars skip and what is stored behind a page already read.
THEOREM ThreeWaysOnly == Spec => OnlyBackfillIsMissed
<1>1. ASSUME LiveInv, [Next]_vars, NEW b \in Browsers, NEW t \in Missed(b)' \ Missed(b)
      PROVE  \/ db'[t] = "yahoo" /\ t + Week < now
             \/ LET fetched == BarsOf(browser[b].e) IN
                /\ bars'[b] # bars[b] /\ fetched # {} /\ t \notin fetched
                /\ IF t < Min(fetched) THEN Min(fetched) <= Last(b) + MaxGap ELSE t \in YahooLacks
             \/ bars'[b] # bars[b] /\ browser[b].at <= t + Week
  <2>1. CASE bars'[b] = bars[b]
    BY <1>1, <2>1, MissedByWrite
  <2>2. CASE bars'[b] # bars[b]
    <3>1. TypeOK
      BY <1>1 DEF LiveInv
    <3>2. PICK c \in Browsers : (OlderPage(c) /\ ~More(browser[c].after, First(c))) \/ OlderFails(c)
      BY <1>1, <2>2, BarsChange
    <3>3. PICK past \in SUBSET Minutes : Merge(c, browser[c].got \cup past)
      BY <3>1, <3>2, MergeCases
    <3>4. c = b
      BY <3>1, <3>3, <2>2 DEF Merge, TypeOK
    <3>5. db' = db
      BY <3>1, <3>2, MergeCases
    <3>6. \/ Late(browser[b], t, db, now)
          \/ LET fetched == BarsOf(browser[b].e) IN
             /\ fetched # {} /\ t \notin fetched
             /\ IF t < Min(fetched) THEN Min(fetched) <= Last(b) + MaxGap ELSE t \in YahooLacks
      BY <1>1, <3>2, <3>4, MissedByMerge
    <3> QED BY <2>2, <3>5, <3>6 DEF Late
  <2> QED BY <2>1, <2>2
<1>2. LiveInv /\ [Next]_vars =>
        [\A b \in Browsers : \A t \in Missed(b)' \ Missed(b) :
           \/ db'[t] = "yahoo" /\ t + Week < now
           \/ LET fetched == BarsOf(browser[b].e) IN
              /\ bars'[b] # bars[b] /\ fetched # {} /\ t \notin fetched
              /\ IF t < Min(fetched) THEN Min(fetched) <= Last(b) + MaxGap ELSE t \in YahooLacks
           \/ bars'[b] # bars[b] /\ browser[b].at <= t + Week]_vars
  BY <1>1
<1> QED BY <1>2, LiveInvariant, PTL DEF Spec, OnlyBackfillIsMissed

=============================================================================
