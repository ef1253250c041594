--------------------------- MODULE JournalClient ---------------------------
(***************************************************************************)
(* The journal's screens over the cache of TanStack Query.                 *)
(*                                                                         *)
(* Every screen reads through the cache; every change is a mutation that,  *)
(* once answered, sweeps (invalidates) the keys its hook names.  The       *)
(* server is a version number per table and account, which is all that     *)
(* "is this number still true?" needs; notes and note templates carry      *)
(* their values, because the screens compute with them.  The rules of the  *)
(* library are those of its version 5.                                     *)
(***************************************************************************)
EXTENDS Integers, Sequences, FiniteSets, SequencesExt

CONSTANTS
    Accounts,   \* the accounts there are or may be created
    Periods,    \* the days and weeks that have a card
    Notes,      \* what may be written on a card; "" deletes
    First,      \* what accounts the user may have when the page opens, oldest first
    Remembered, \* what localStorage may hold then
    Pages,      \* the screens visited
    Ops,        \* the changes made
    None,
    MaxSteps,   \* bound: things the user does and requests that fail
    MaxFails    \* bound: of these, the failures

ASSUME FirstAssumption == First \subseteq Seq(Accounts)
ASSUME PagesAssumption == Pages \subseteq {"trades", "days", "dashboard", "trash", "import", "accounts"}
ASSUME RememberedAssumption == Remembered \subseteq Accounts \cup {None}
ASSUME NotesAssumption == "" \in Notes
ASSUME BoundsAssumption == MaxSteps \in Nat /\ MaxFails \in Nat

\* What a mutation is: see `Call`.  None is none of them.
Requests == [op : {"trade", "import", "flow", "account", "newAccount", "note", "reorder", "template"},
             acc : Accounts \cup {None}, hook : Accounts \cup {None},
             home : Pages \cup {"cards", "sheet", "editor", None},
             phase : {"sent", "committed", "refused", "settling"},
             list : Seq(Nat), id : {0, 2}, arg : Periods \cup {None}, text : Notes, prev : [Periods -> Notes] \cup {None},
             own : BOOLEAN, blind : BOOLEAN]
ASSUME NoneAssumption == None \notin Requests

VARIABLES
    srv,      \* what the database holds
    cache,    \* the QueryClient: an entry for every key
    ui,       \* the screen: its page and what is open on it
    stored,   \* journal.active_account of localStorage, and currentId beside it
    calls,    \* mutations under way: two at most
    missed,   \* history: keys whose change is known to have gone by unswept
    steps, fails

vars == <<srv, cache, ui, stored, calls, missed, steps, fails>>

-----------------------------------------------------------------------------
(* Keys (lib/queryKeys.ts) and what the server answers for them            *)

TradesAll(a) == {<<"trades", a>>, <<"facets", a>>}   \* facets, and the trades of a day
StatsAll(a) == {<<"stats", a>>}
ChartsAll(a) == {<<"charts", a>>}
PeriodsAll(a) == {<<"periods", a>>}
Trash(a) == {<<"trash", a>>}
CashFlows(a) == {<<"flows", a>>}
PeriodNotes(a) == {<<"notes", a>>}
AccountsKey == <<"accounts", None>>
TemplatesKey == <<"templates", None>>

OfAccount(a) == UNION {TradesAll(a), StatsAll(a), ChartsAll(a), PeriodsAll(a), Trash(a), CashFlows(a), PeriodNotes(a)}
AllAccounts == {AccountsKey} \cup UNION {OfAccount(a) : a \in Accounts}   \* the prefix ["accounts"]
Keys == AllAccounts \cup {TemplatesKey}

\* No key: in `missed` while the list of templates lacks a change of order that no
\* dialog waits for: it was closed, the answer was lost, or the list did not load.
LastOrder == <<"order", None>>

\* The figures of account a come from its trades, its cash flows and its settings.
Value(k) ==
    LET a == k[2] IN
    CASE k = AccountsKey  -> [list |-> srv.list, settings |-> srv.settings]
      [] k = TemplatesKey -> srv.templates
      [] k[1] = "notes" -> srv.notes[a]
      [] k[1] = "flows" -> srv.flows[a]
      [] k[1] = "stats" -> <<srv.trades[a], srv.flows[a], srv.settings[a]>>
      [] OTHER          -> <<srv.trades[a], srv.settings[a]>>

-----------------------------------------------------------------------------
(* The cache.  fetch: "asked" and not yet served, "served" with `reply` on *)
(* its way, or "failed" the last time.                                     *)

Fetching(e) == e.fetch \in {"asked", "served"}
Asked(e) == [e EXCEPT !.fetch = "asked", !.reply = None]
NoEntry == [data |-> None, inval |-> FALSE, fetch |-> "idle", reply |-> None]

\* A screen that comes to use key k loads it when there is nothing, or nothing
\* fresh: the table of trades always does (staleTime 0), the others when what is
\* cached was invalidated.  That thirty seconds make it old as well is left out: a
\* load more than the code needs hides what this module is about.
Mount(c, K) ==
    [k \in Keys |->
        LET e == c[k] IN
        IF k \in K /\ ~Fetching(e) /\ (e.data = None \/ e.inval \/ k[1] = "trades")
        THEN Asked(e) ELSE e]

\* invalidateQueries: what is on screen is loaded again, a load under way too
\* unless it is the first one.
Invalidate(c, K, screen) ==
    [k \in Keys |->
        LET e == c[k]
            m == [e EXCEPT !.inval = TRUE]
        IN IF k \notin K \/ e = NoEntry THEN e
           ELSE IF k \in screen /\ (e.data # None \/ ~Fetching(e)) THEN Asked(m) ELSE m]

\* Loads under way that a sweep lets go on: their answer makes the key fresh.
Overtaken(c, K, screen) ==
    {k \in K : c[k].fetch = "served" /\ c[k].reply # Value(k) /\ (k \notin screen \/ c[k].data = None)}

Cached(K) == {k \in K : cache[k] # NoEntry}
SetData(c, k, d) == [c EXCEPT ![k].data = d, ![k].inval = FALSE]
Cancel(c, k) == [c EXCEPT ![k].fetch = "idle", ![k].reply = None]

-----------------------------------------------------------------------------
(* What is on screen                                                       *)

Listed(c) == IF c[AccountsKey].data = None THEN <<>> ELSE c[AccountsKey].data.list

\* resolveActiveAccount.
Resolve(list, id) == IF list = <<>> THEN None ELSE IF id \in ToSet(list) THEN id ELSE Head(list)
Active == Resolve(Listed(cache), stored)

\* The keys that each page observes.
TradesScreen(a) == {<<"trades", a>>, <<"facets", a>>} \cup StatsAll(a)
DaysScreen(a) == TradesScreen(a) \cup PeriodsAll(a) \cup PeriodNotes(a)
DashboardScreen(a) == StatsAll(a) \cup ChartsAll(a)
DayScreen(a) == {<<"facets", a>>}     \* the trades of a day: never loaded again by itself
AccountsScreen(list) == UNION {StatsAll(x) : x \in ToSet(list)}
SheetScreen(a) == IF a = None THEN {} ELSE CashFlows(a)
EditorScreen == {TemplatesKey}

\* Without an account every page but that of accounts stops at AccountGate.
AccountGate(a, K) == IF a = None THEN {} ELSE K
Screen(u, c, a) ==
    {AccountsKey} \cup (IF u.editor THEN EditorScreen ELSE {}) \cup
    CASE u.page = "accounts"  -> AccountsScreen(Listed(c)) \cup SheetScreen(u.sheet)
      [] u.page = "trades"    -> AccountGate(a, TradesScreen(a))
      [] u.page = "days"      -> AccountGate(a, DaysScreen(a))
      [] u.page = "dashboard" -> AccountGate(a, DashboardScreen(a) \cup IF u.day THEN DayScreen(a) ELSE {})
      [] u.page = "trash"     -> AccountGate(a, Trash(a))
      [] u.page = "import"    -> {}
OnScreen == Screen(ui, cache, Active)

Blank(p) == [page |-> p, editor |-> FALSE, sheet |-> None, day |-> FALSE, rows |-> None, file |-> "none"]

\* The account shown is the one remembered from then on.
Remember(a, id) == IF a = None THEN id ELSE a

\* A note is one's own no longer once its list is asked for again.
Slots == 1..2
StillOwn(cs) ==
    [s \in Slots |->
        IF cs[s] # None /\ cs[s].op = "note"
              /\ Fetching(cache'[<<"notes", cs[s].acc>>]) /\ ~Fetching(cache[<<"notes", cs[s].acc>>])
        THEN [cs[s] EXCEPT !.own = FALSE] ELSE cs[s]]

\* Every step ends in a render: the account is resolved and stored again, keys
\* new on screen are mounted, and the table keeps the rows it had until others come.
\* cs: the mutations under way from then on.
Render(u, c, id, cs) ==
    LET a == Resolve(Listed(c), id)
        new == Screen(u, c, a) \ OnScreen
        m == Mount(c, new)
    IN
    /\ cache' = m
    /\ stored' = Remember(a, id)
    /\ ui' = IF u.page \in {"trades", "days"} /\ a # None /\ m[<<"trades", a>>].data # None
             THEN [u EXCEPT !.rows = a] ELSE u
    /\ calls' = StillOwn(cs)

\* What the card of a period shows.
NoteShown(a, p) == cache[<<"notes", a>>].data[p]

\* keepPreviousData: while the rows of the account on screen load for the first
\* time the table shows those it had.
RowsShown ==
    IF Active = None \/ ui.page # "trades" THEN None
    ELSE IF cache[<<"trades", Active>>].data # None THEN Active
    ELSE IF cache[<<"trades", Active>>].fetch = "failed" THEN None ELSE ui.rows

-----------------------------------------------------------------------------
(* Mutations.  acc: the account the request acts on; hook: the one whose   *)
(* keys are swept; home: the component that holds the mutation, while it   *)
(* is mounted; list, text, arg (the period), id (the template) and prev:   *)
(* what the operation needs.                                               *)
(* own: a note whose list nothing else has touched since it was saved.     *)

Call(op, a) == [op |-> op, acc |-> a, hook |-> a, home |-> ui.page, phase |-> "sent",
                list |-> <<>>, id |-> 0, arg |-> None, text |-> "", prev |-> None, own |-> FALSE, blind |-> FALSE]

\* useRefresh, for the four mutations of trades.
\* Mutant: the charts are forgotten.
RefreshWithoutCharts(a) == UNION {TradesAll(a), StatsAll(a), Trash(a), PeriodsAll(a)}
Refresh(a) == UNION {TradesAll(a), StatsAll(a), Trash(a), ChartsAll(a), PeriodsAll(a)}
\* useImportCommit: the cards of days and weeks are not among them.
ImportRefresh(a) == UNION {TradesAll(a), StatsAll(a), Trash(a), ChartsAll(a)}
FlowRefresh(a) == CashFlows(a) \cup StatsAll(a)

Sweep(c) ==
    CASE c.op = "trade" -> Refresh(c.hook)
      [] c.op = "import"  -> ImportRefresh(c.hook)
      [] c.op = "flow"    -> FlowRefresh(c.hook)
      [] c.op = "note"    -> PeriodNotes(c.hook)
      [] c.op \in {"account", "newAccount"} -> AllAccounts
      [] c.op \in {"reorder", "template"} -> {TemplatesKey}

\* The keys whose value the change of c changes.
Changed(c) ==
    LET a == c.acc IN
    CASE c.op \in {"trade", "import"} ->
            UNION {TradesAll(a), StatsAll(a), ChartsAll(a), PeriodsAll(a), Trash(a)}
      [] c.op = "flow"    -> CashFlows(a) \cup StatsAll(a)
      [] c.op = "note"    -> PeriodNotes(a)
      [] c.op = "account" -> {AccountsKey} \cup (OfAccount(a) \ (CashFlows(a) \cup PeriodNotes(a)))
      [] c.op = "newAccount" -> {AccountsKey}
      [] c.op \in {"reorder", "template"} -> {TemplatesKey}

UnderWay == {calls[s] : s \in {x \in Slots : calls[x] # None}}
\* A change of order made on a list that lacks the last one, or while that one is
\* under way from a dialog closed since.  The other one is then blind to the new one
\* as well: either may take effect first.
LeftBehind(c) == c # None /\ c.op = "reorder" /\ c.home = None
BlindToOrder == LastOrder \in missed \/ \E c \in UnderWay : LeftBehind(c)
Blinded == [s \in Slots |-> IF LeftBehind(calls[s]) THEN [calls[s] EXCEPT !.blind = TRUE] ELSE calls[s]]

Room == steps + fails < MaxSteps
Act == Room /\ steps' = steps + 1 /\ UNCHANGED fails
User == Act /\ UNCHANGED <<srv, missed>>

\* Starts mutation c beside those of cs, over the cache d.
Start(c, d, cs) ==
    /\ c.op \in Ops
    /\ \E s \in Slots :
        /\ calls[s] = None
        /\ \A x \in 1..(s - 1) : calls[x] # None
        /\ Render(ui, d, stored, [cs EXCEPT ![s] = c])
    /\ User
Send(c) == Start(c, cache, calls)

-----------------------------------------------------------------------------
(* What the user does                                                      *)

\* The mutations a component holds let go of it when it is unmounted: their
\* callbacks keep the account they had then.
Leaving(homes) == [s \in Slots |-> IF calls[s] # None /\ calls[s].home \in homes
                                   THEN [calls[s] EXCEPT !.home = None] ELSE calls[s]]

\* A link of the sidebar, or the browser's buttons.  The list of trades and the
\* cards of days and weeks are two views of one page.
Open(p) ==
    /\ p # ui.page
    /\ User
    /\ LET views == {"trades", "days"}
           stays == p \in views /\ ui.page \in views
           u == Blank(p)
       IN Render(IF stays THEN [u EXCEPT !.rows = ui.rows] ELSE u, cache, stored,
                 Leaving({"editor", "sheet"} \cup (IF ui.page = "days" THEN {"cards"} ELSE {})
                         \cup (IF stays THEN {} ELSE views \cup {ui.page})))

\* AccountSwitcher, or "View" on a row of the accounts page.  Nothing is mounted
\* anew: a mutation under way follows its hook to the new account.  The cards
\* stay only if those of the new account are there already.
Choose(a) ==
    /\ a \in ToSet(Listed(cache)) /\ a # Active
    /\ ~ui.editor /\ ui.sheet = None
    /\ User
    /\ \E cardsStay \in {x \in BOOLEAN : x => cache[<<"periods", a>>].data # None} :
        LET kept == IF cardsStay THEN calls ELSE Leaving({"cards"}) IN
        Render(ui, cache, a, [s \in Slots |->
            IF kept[s] # None /\ kept[s].home # None
            THEN [kept[s] EXCEPT !.hook = a] ELSE kept[s]])

\* A day of the calendar under the mouse: its tooltip asks for its trades.
HoverDay ==
    /\ ui.page = "dashboard" /\ Active # None
    /\ cache[<<"charts", Active>>].data # None /\ cache[<<"stats", Active>>].data # None
    /\ User
    /\ Render([ui EXCEPT !.day = ~@], cache, stored, calls)

\* TradeFormDialog and PeriodNoteDialog, both with the menu of templates in them.
OpenEditor ==
    /\ ui.page \in {"trades", "days"} /\ Active # None
    /\ User
    /\ Render([ui EXCEPT !.editor = ~@], cache, stored, Leaving({"editor"}))

\* CashFlowSheet of a row.
OpenSheet(a) ==
    /\ ui.page = "accounts" /\ a \in ToSet(Listed(cache))
    /\ ui.sheet \in {None, a}
    /\ User
    /\ Render([ui EXCEPT !.sheet = IF @ = a THEN None ELSE a], cache, stored, Leaving({"sheet"}))

CreateTrade == ui.page \in {"trades", "days"} /\ Active # None /\ Send(Call("trade", Active))

\* Edit or delete a row of the table: the request names the trade, and so its account.
ChangeTrade == RowsShown # None /\ Send([Call("trade", RowsShown) EXCEPT !.hook = Active])

RestoreTrade ==
    /\ ui.page = "trash" /\ Active # None /\ cache[<<"trash", Active>>].data # None
    /\ Send(Call("trade", Active))

\* ImportForm.  The file and its report outlive a change of account.
ChooseFile ==
    /\ ui.page = "import" /\ Active # None
    /\ ~\E c \in UnderWay : c.op = "import" /\ c.home = "import"
    /\ User
    /\ \E report \in {"clean", "dirty"} : Render([ui EXCEPT !.file = report], cache, stored, calls)
\* FileDropzone: the file is taken back, or one that is no CSV is dropped (nothing).
ClearFile ==
    /\ ui.page = "import" /\ Active # None /\ ui.file # "none"
    /\ ~\E c \in UnderWay : c.op = "import" /\ c.home = "import"
    /\ User
    /\ Render([ui EXCEPT !.file = "none"], cache, stored, calls)
CommitImport ==
    /\ ui.page = "import" /\ Active # None /\ ui.file = "clean"
    /\ ~\E c \in UnderWay : c.op = "import" /\ c.home = "import"
    /\ Send(Call("import", Active))

\* AccountFormDialog and ChallengeMenu.
ChangeAccount(a) == ui.page = "accounts" /\ a \in ToSet(Listed(cache)) /\ Send(Call("account", a))
NewAccount == ui.page = "accounts" /\ Accounts # ToSet(srv.list) /\ Send(Call("newAccount", None))

\* A deposit or a withdrawal, or its deletion.
ChangeFlow == ui.sheet # None /\ Send([Call("flow", ui.sheet) EXCEPT !.home = "sheet"])

\* onMutate of useSavePeriodNote: the load under way is cancelled, and the card
\* shows the note at once.
\* Mutant: the load under way goes on.
OptimisticOverLoad(c, k, p, text) ==
    LET list == IF c[k].data = None THEN [x \in Periods |-> ""] ELSE c[k].data
    IN SetData(c, k, [list EXCEPT ![p] = text])
Optimistic(c, k, p, text) ==
    LET list == IF c[k].data = None THEN [x \in Periods |-> ""] ELSE c[k].data
    IN SetData(Cancel(c, k), k, [list EXCEPT ![p] = text])
SaveNote(p, text) ==
    /\ ui.page = "days" /\ Active # None /\ cache[<<"periods", Active>>].data # None
    /\ LET k == <<"notes", Active>>
           others == {s \in Slots : calls[s] # None /\ calls[s].op = "note" /\ calls[s].acc = Active}
           c == [Call("note", Active) EXCEPT !.home = "cards", !.arg = p, !.text = text,
                                             !.prev = cache[k].data, !.own = others = {}]
       IN Start(c, Optimistic(cache, k, p, text),
                [s \in Slots |-> IF s \in others THEN [calls[s] EXCEPT !.own = FALSE] ELSE calls[s]])

\* TemplateManagerDialog: a template one place up or down.  The whole order is
\* sent, as the list on screen has it.
\* Mutant: the arrows are not locked while the last move is under way.
MoveUnlocked(i, delta) ==
    LET list == cache[TemplatesKey].data IN
    /\ ui.editor /\ list # None
    /\ i \in 1..Len(list) /\ i + delta \in 1..Len(list)
    /\ Start([Call("reorder", None) EXCEPT !.home = "editor", !.blind = BlindToOrder,
              !.list = [list EXCEPT ![i] = list[i + delta], ![i + delta] = list[i]]], cache, Blinded)
Move(i, delta) ==
    LET list == cache[TemplatesKey].data IN
    /\ ui.editor /\ list # None
    /\ ~\E c \in UnderWay : c.op = "reorder" /\ c.home = "editor"
    /\ i \in 1..Len(list) /\ i + delta \in 1..Len(list)
    /\ Start([Call("reorder", None) EXCEPT !.home = "editor", !.blind = BlindToOrder,
              !.list = [list EXCEPT ![i] = list[i + delta], ![i + delta] = list[i]]], cache, Blinded)

\* A template is created or renamed (0), or deleted.
ChangeTemplate(id) ==
    /\ ui.editor
    /\ id # 0 => cache[TemplatesKey].data # None /\ id \in ToSet(cache[TemplatesKey].data)
    /\ Send([Call("template", None) EXCEPT !.home = "editor", !.id = id])

-----------------------------------------------------------------------------
(* The server: each request takes effect, or is refused, at one moment     *)

\* The checks of the service: as many, the same, none twice.
IsPermutation(list, of) == Len(list) = Len(of) /\ ToSet(list) = ToSet(of) /\ IsInjective(list)
Without(list, id) == RemoveAt(list, CHOOSE i \in DOMAIN list : list[i] = id)

After(c) ==
    LET a == c.acc IN
    CASE c.op \in {"trade", "import"} -> [srv EXCEPT !.trades[a] = @ + 1]
      [] c.op = "flow"       -> [srv EXCEPT !.flows[a] = @ + 1]
      [] c.op = "account"    -> [srv EXCEPT !.settings[a] = @ + 1]
      [] c.op = "newAccount" -> [srv EXCEPT !.list = Append(@, CHOOSE x \in Accounts : x \notin ToSet(@))]
      [] c.op = "note"       -> [srv EXCEPT !.notes[a][c.arg] = c.text]
      [] c.op = "reorder"    -> [srv EXCEPT !.templates = c.list]
      [] c.op = "template" /\ c.id = 0 -> [srv EXCEPT !.templates = Append(@, srv.lastId + 1), !.lastId = @ + 1]
      [] c.op = "template" /\ c.id # 0 -> [srv EXCEPT !.templates = Without(@, c.id)]

Accepts(c) ==
    /\ c.op = "reorder" => IsPermutation(c.list, srv.templates)
    /\ c.op = "template" => c.id = 0 \/ c.id \in ToSet(srv.templates)
    /\ c.op = "newAccount" => Accounts # ToSet(srv.list)

Sent(s) == calls[s] # None /\ calls[s].phase = "sent"
Commit(s) ==
    /\ Sent(s) /\ Accepts(calls[s])
    /\ srv' = After(calls[s])
    /\ calls' = [calls EXCEPT ![s].phase = "committed"]
    /\ UNCHANGED <<cache, ui, stored, missed, steps, fails>>
Refuse(s) ==
    /\ Sent(s) /\ ~Accepts(calls[s])
    /\ calls' = [calls EXCEPT ![s].phase = "refused"]
    /\ UNCHANGED <<srv, cache, ui, stored, missed, steps, fails>>

-----------------------------------------------------------------------------
(* Answers                                                                 *)

Swept(c, d) == Invalidate(d, Sweep(c), OnScreen)

\* onSuccess, and onSettled of a note.  A change of order stays pending until the
\* list has been loaded again.
Succeed(s) ==
    LET c == calls[s]
        waits == c.op = "reorder" /\ TemplatesKey \in OnScreen
    IN
    /\ c # None /\ c.phase = "committed"
    /\ Render(IF c.op = "import" /\ c.home = "import" THEN [ui EXCEPT !.file = "none"] ELSE ui, Swept(c, cache), stored,
              [calls EXCEPT ![s] = IF waits THEN [c EXCEPT !.phase = "settling"] ELSE None])
    /\ missed' = missed \cup Overtaken(cache, Sweep(c), OnScreen) \cup
                 Cached((IF c.op = "import" THEN PeriodsAll(c.acc) ELSE {})
                        \cup (IF c.hook # c.acc THEN Changed(c) ELSE {}))
                 \cup (IF c.op = "reorder" /\ ~waits THEN {LastOrder} ELSE {})
    /\ UNCHANGED <<srv, steps, fails>>

\* onError of a note: the list is what it was, under the key of the hook.
RollBack(c) ==
    LET k == <<"notes", c.hook>> IN IF c.prev = None THEN cache ELSE SetData(cache, k, c.prev)

\* Refused, or the request or its answer is lost.  Only a note sweeps.
Fail(s) ==
    LET c == calls[s]
        d == IF c.op = "note" THEN Swept(c, RollBack(c)) ELSE cache
    IN
    /\ c # None /\ c.phase \in {"sent", "refused", "committed"}
    /\ IF c.phase # "refused" THEN Room /\ fails < MaxFails /\ fails' = fails + 1 ELSE UNCHANGED fails
    /\ Render(ui, d, stored, [calls EXCEPT ![s] = None])
    /\ missed' = missed \cup (IF c.op = "note" THEN Overtaken(cache, Sweep(c), OnScreen) ELSE {}) \cup
                 Cached(IF c.op = "note" /\ c.hook = c.acc THEN {} ELSE Changed(c)) \cup
                 (IF c.op = "reorder" /\ c.phase = "committed" THEN {LastOrder} ELSE {})
    /\ UNCHANGED <<srv, steps>>

\* Loads are answered together but for one, whose answer may come after anything
\* else (the bound on how loads interleave).
Loaded(cs, K) == [s \in Slots |-> IF TemplatesKey \in K /\ cs[s] # None /\ cs[s].phase = "settling" THEN None ELSE cs[s]]
OrderOf(K) == IF TemplatesKey \in K THEN {LastOrder} ELSE {}
AskedKeys == {k \in Keys : cache[k].fetch = "asked"}
Fresh(d) == [data |-> d, inval |-> FALSE, fetch |-> "idle", reply |-> None]
Load(late) ==
    LET K == AskedKeys \ {late} IN
    /\ K # {}
    /\ Render(ui, [k \in Keys |-> IF k \in K THEN Fresh(Value(k)) ELSE cache[k]], stored, Loaded(calls, K))
    /\ missed' = missed \ (K \cup OrderOf(K))
    /\ UNCHANGED <<srv, steps, fails>>
\* The late load reaches the database, and then its answer the cache.  When it
\* does so matters only if a change of what it reads is still to come.
Serve(k) ==
    /\ AskedKeys = {k} /\ \A x \in Keys : cache[x].fetch # "served"
    /\ \E c \in UnderWay : c.phase = "sent" /\ k \in Changed(c)
    /\ cache' = [cache EXCEPT ![k].fetch = "served", ![k].reply = Value(k)]
    /\ missed' = missed \ {k}
    /\ UNCHANGED <<srv, ui, stored, calls, steps, fails>>
Arrive(k) ==
    /\ cache[k].fetch = "served"
    /\ Render(ui, [cache EXCEPT ![k] = Fresh(@.reply)], stored, Loaded(calls, {k}))
    /\ missed' = IF k \in missed THEN missed \cup OrderOf({k}) ELSE missed \ OrderOf({k})
    /\ UNCHANGED <<srv, steps, fails>>
FailLoad(k) ==
    /\ AskedKeys = {k} /\ Room /\ fails < MaxFails
    /\ Render(ui, [cache EXCEPT ![k] = [@ EXCEPT !.inval = TRUE, !.fetch = "failed", !.reply = None]], stored,
              Loaded(calls, {k}))
    /\ fails' = fails + 1
    /\ missed' = missed \cup (IF Loaded(calls, {k}) # calls THEN {LastOrder} ELSE {})
    /\ UNCHANGED <<srv, steps>>

-----------------------------------------------------------------------------
Init ==
    /\ \E list \in First :
       srv = [list |-> list, settings |-> [a \in Accounts |-> 0], trades |-> [a \in Accounts |-> 0],
                 flows |-> [a \in Accounts |-> 0], notes |-> [a \in Accounts |-> [p \in Periods |-> ""]],
                 templates |-> <<1, 2, 3>>, lastId |-> 3]
    /\ \E p \in Pages : ui = Blank(p)
    /\ cache = [k \in Keys |-> IF k = AccountsKey THEN Asked(NoEntry) ELSE NoEntry]
    /\ stored \in Remembered
    /\ calls = [s \in Slots |-> None]
    /\ missed = {}
    /\ steps = 0 /\ fails = 0

UserActs == Room /\
   (\/ \E p \in Pages : Open(p)
    \/ \E a \in Accounts : Choose(a) \/ OpenSheet(a) \/ ChangeAccount(a)
    \/ HoverDay \/ OpenEditor
    \/ CreateTrade \/ ChangeTrade \/ RestoreTrade
    \/ ChooseFile \/ ClearFile \/ CommitImport
    \/ NewAccount \/ ChangeFlow
    \/ \E p \in Periods, text \in Notes : SaveNote(p, text)
    \/ \E i \in 1..4, delta \in {-1, 1} : Move(i, delta)
    \/ \E id \in {0, 2} : ChangeTemplate(id))   \* which one is deleted makes no difference

Next ==
    \/ UserActs
    \/ \E s \in Slots : Commit(s) \/ Refuse(s) \/ Succeed(s) \/ Fail(s)
    \/ Load(None) \/ \E k \in AskedKeys : Load(k) \/ Serve(k) \/ FailLoad(k)
    \/ \E k \in Keys : Arrive(k)

Spec == Init /\ [][Next]_vars

-----------------------------------------------------------------------------
(* Properties                                                              *)

\* Types: what the server may answer for a key, and what is kept of it.
Answers(k) ==
    CASE k = AccountsKey  -> [list : Seq(Accounts), settings : [Accounts -> Nat]]
      [] k = TemplatesKey -> Seq(Nat)
      [] k[1] = "notes" -> [Periods -> Notes]
      [] k[1] = "flows" -> Nat
      [] k[1] = "stats" -> Nat \X Nat \X Nat
      [] OTHER          -> Nat \X Nat
Entries(k) == [data : Answers(k) \cup {None}, inval : BOOLEAN,
               fetch : {"idle", "asked", "served", "failed"}, reply : Answers(k) \cup {None}]

TypeOK ==
    /\ srv \in [list : Seq(Accounts), settings : [Accounts -> Nat], trades : [Accounts -> Nat], flows : [Accounts -> Nat],
               notes : [Accounts -> [Periods -> Notes]], templates : Seq(Nat), lastId : Nat]
    /\ DOMAIN cache = Keys /\ \A k \in Keys : cache[k] \in Entries(k)
    /\ ui \in [page : Pages, editor : BOOLEAN, sheet : Accounts \cup {None}, day : BOOLEAN,
              rows : Accounts \cup {None}, file : {"none", "clean", "dirty"}]
    /\ stored \in Accounts \cup {None}
    /\ calls \in [Slots -> Requests \cup {None}]
    /\ missed \subseteq Keys \cup {LastOrder}
    /\ steps \in 0..MaxSteps /\ fails \in 0..MaxFails

\* What a key shows as fresh is what the server has, or a mutation under way that
\* changes it is about to sweep it: every mutation sweeps every key that its change
\* can be seen in (the comments of useRefresh and queryKeys.ts).
\* Left out are the keys of `missed`, for four reasons only: the import sweeps no
\* period cards; the account was changed while the mutation was under way, or its
\* row was one of another account; the answer was lost; and a load on its way was
\* let finish by the sweep.
FreshIsTrue ==
    \A k \in Keys \ missed :
        (/\ cache[k].data # None /\ ~cache[k].inval /\ ~Fetching(cache[k])
         /\ cache[k].data # Value(k))
        => \E c \in UnderWay : c.phase # "settling" /\ k \in Changed(c)

\* A note that was just saved is what its card shows until the server has answered,
\* whatever was being loaded when it was saved (the comment of onMutate).  While the
\* card is away its list may hold something else: a failing note of the account shown
\* before puts that account's notes back under the key its hook has by then.
OwnNoteStays ==
    \A c \in UnderWay :
        c.op = "note" /\ c.own /\ <<"notes", c.acc>> \in OnScreen => NoteShown(c.acc, c.arg) = c.text

\* Each move of a template changes the order by one step: no two moves are made on
\* one list, although the whole order is sent each time.  The buttons are disabled
\* while a move of their dialog is under way; a move that is blind to one of a dialog
\* closed since, or to an order the list has missed, is left out.
OneSwap(s, t) ==
    \E i \in 1..(Len(s) - 1) : t = [s EXCEPT ![i] = s[i + 1], ![i + 1] = s[i]]
ReorderIsOneSwap ==
    [][\A s \in Slots :
        (calls[s] # None /\ calls[s].op = "reorder" /\ ~calls[s].blind /\ srv'.templates # srv.templates
            /\ calls'[s].phase = "committed" /\ calls[s].phase = "sent")
        => OneSwap(srv.templates, srv'.templates)]_vars

=============================================================================
