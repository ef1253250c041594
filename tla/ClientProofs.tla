----------------------------- MODULE ClientProofs -----------------------------
(***************************************************************************)
(* What JournalClient promises, for any accounts, pages, notes and any     *)
(* number of changes and failures.                                         *)
(***************************************************************************)
EXTENDS JournalClient, SequenceTheorems, TLAPS

-----------------------------------------------------------------------------
(* The invariant: the types, and four things that a step needs of the last *)

\* A call under way is about to change, or has changed, what key k is worth, and
\* its sweep of k is still to come.
Doubt(k, cs) ==
    \E s \in Slots : cs[s] # None /\ cs[s].phase # "settling" /\ k \in Changed(cs[s])

\* An entry that shows nothing but v as fresh, and has nothing but v on its way.
Sure(e, v) ==
    /\ e.data = None \/ e.inval \/ Fetching(e) \/ e.data = v
    /\ e.fetch = "served" => e.reply = v

\* The answer on its way is part of it: without it a late one could make stale
\* data fresh.
FreshInv == \A k \in Keys \ missed : Sure(cache[k], Value(k)) \/ Doubt(k, calls)

\* What the operation of a call needs of it.
OfOp(c) ==
    /\ c.op \notin {"newAccount", "reorder", "template"} => c.acc \in Accounts /\ c.hook \in Accounts
    /\ c.op = "note" => c.arg \in Periods
    /\ c.op = "reorder" => c.home \in {"editor", None}
CallsInv == \A s \in Slots : calls[s] # None => OfOp(calls[s])

\* The list e of a note c that is one's own: nothing is being loaded over it, and
\* while its card is seen it holds the text.
OwnOK(e, c, seen) ==
    /\ ~Fetching(e)
    /\ e.inval => ~seen
    /\ ~e.inval => e.data[c.arg] = c.text
OwnInv ==
    \A s \in Slots : calls[s] # None /\ calls[s].op = "note" /\ calls[s].own =>
        LET k == <<"notes", calls[s].acc>> IN OwnOK(cache[k], calls[s], k \in OnScreen)

\* The template 2, the one that is deleted here, is in every list that was made
\* while the server had it, and no list has an identifier yet to be given.
Held(h, t, last) == ToSet(h) \subseteq 1..last /\ (2 \in ToSet(t) => 2 \in ToSet(h))
Sound(t, last) == Held(t, t, last) /\ IsInjective(t) /\ 2 <= last

Reorder(c, P) == c # None /\ c.op = "reorder" /\ c.phase \in P
Ordering(cs, P) == \E s \in Slots : Reorder(cs[s], P)
OrderOK(h, t) == IsPermutation(h, t) => h = t

\* The list on screen, the list on its way and the orders sent.
ListsHeld(e, cs, t, last) ==
    /\ e.data # None => Held(e.data, t, last)
    /\ e.fetch = "served" => Held(e.reply, t, last)
    /\ \A s \in Slots : Reorder(cs[s], {"sent"}) => Held(cs[s].list, t, last)

\* A list with the templates of the server has them in the server's order, unless
\* a change of order is between its effect and its sweep, or was missed.
ShownInOrder(e, cs, m, t) ==
    /\ e.data # None /\ LastOrder \notin m /\ ~Ordering(cs, {"committed", "settling"})
        => OrderOK(e.data, t)
    /\ e.fetch = "served" /\ TemplatesKey \notin m /\ ~Ordering(cs, {"committed"})
        => OrderOK(e.reply, t)

\* A change of order that is not blind is the only one, and exchanges two
\* neighbours of the order it will find.
SentAlone(cs, t) ==
    \A s \in Slots : cs[s] # None /\ cs[s].op = "reorder" /\ ~cs[s].blind =>
        /\ \A r \in Slots : r # s => ~(cs[r] # None /\ cs[r].op = "reorder")
        /\ cs[s].phase = "sent" /\ IsPermutation(cs[s].list, t) => OneSwap(t, cs[s].list)

\* e: the entry of the templates; t, last: the server's list and its last identifier.
Ordered(e, cs, m, t, last) == ListsHeld(e, cs, t, last) /\ ShownInOrder(e, cs, m, t) /\ SentAlone(cs, t)
OrderInv ==
    /\ Sound(srv.templates, srv.lastId)
    /\ Ordered(cache[TemplatesKey], calls, missed, srv.templates, srv.lastId)

-----------------------------------------------------------------------------
(* Keys, their values and the entries of the cache                         *)

Kinds == {"trades", "facets", "stats", "charts", "periods", "trash", "flows", "notes"}

\* A key is that of the accounts, that of the templates or one of an account.
LEMMA KeyCases ==
    ASSUME NEW k \in Keys
    PROVE  \/ k = AccountsKey
           \/ k = TemplatesKey
           \/ k[1] \in Kinds /\ k[2] \in Accounts /\ k = <<k[1], k[2]>>
BY DEF Keys, AllAccounts, OfAccount, TradesAll, StatsAll, ChartsAll, PeriodsAll, Trash, CashFlows, PeriodNotes,
       AccountsKey, TemplatesKey, Kinds

\* An account has a key of every kind.
LEMMA KeysOfAccount ==
    ASSUME NEW a \in Accounts, NEW x \in Kinds
    PROVE  <<x, a>> \in Keys
BY DEF Keys, AllAccounts, OfAccount, TradesAll, StatsAll, ChartsAll, PeriodsAll, Trash, CashFlows, PeriodNotes, Kinds

\* The two keys that are no account's, and the one that is none.
LEMMA FixedKeys == AccountsKey \in Keys /\ TemplatesKey \in Keys /\ AccountsKey # TemplatesKey
                   /\ LastOrder \notin Keys
<1>1. LastOrder \notin Keys
  BY KeyCases DEF LastOrder, AccountsKey, TemplatesKey, Kinds
<1> QED BY <1>1 DEF Keys, AllAccounts, AccountsKey, TemplatesKey

SrvType == [list : Seq(Accounts), settings : [Accounts -> Nat], trades : [Accounts -> Nat], flows : [Accounts -> Nat],
            notes : [Accounts -> [Periods -> Notes]], templates : Seq(Nat), lastId : Nat]

\* What the server may answer for the keys that the proofs name.
LEMMA AnswersAre ==
    /\ Answers(AccountsKey) = [list : Seq(Accounts), settings : [Accounts -> Nat]]
    /\ Answers(TemplatesKey) = Seq(Nat)
    /\ \A a \in Accounts : Answers(<<"notes", a>>) = [Periods -> Notes]
<1>2. /\ AccountsKey # TemplatesKey
      /\ AccountsKey[1] \notin {"notes", "flows", "stats"} /\ TemplatesKey[1] \notin {"notes", "flows", "stats"}
  BY FixedKeys DEF AccountsKey, TemplatesKey
<1>1. Answers(AccountsKey) = [list : Seq(Accounts), settings : [Accounts -> Nat]]
  BY <1>2 DEF Answers
<1>3. Answers(TemplatesKey) = Seq(Nat)
  BY <1>2 DEF Answers
<1>4. ASSUME NEW a \in Accounts PROVE Answers(<<"notes", a>>) = [Periods -> Notes]
  <2> DEFINE k == <<"notes", a>>
  <2>1. k # AccountsKey /\ k # TemplatesKey /\ k[1] = "notes"
    BY DEF AccountsKey, TemplatesKey
  <2> HIDE DEF k
  <2>2. Answers(k) = [Periods -> Notes]
    BY <2>1 DEF Answers
  <2> QED BY <2>2 DEF k
<1> QED BY <1>1, <1>3, <1>4

\* What it does answer for them.
LEMMA ValuesAre ==
    /\ Value(AccountsKey) = [list |-> srv.list, settings |-> srv.settings]
    /\ Value(TemplatesKey) = srv.templates
    /\ \A a \in Accounts : Value(<<"notes", a>>) = srv.notes[a]
BY DEF Value, AccountsKey, TemplatesKey

\* What the server answers for a key is an answer.
LEMMA ValueTyped ==
    ASSUME srv \in SrvType, NEW k \in Keys
    PROVE  Value(k) \in Answers(k)
<1>1. CASE k = AccountsKey
  BY <1>1, AnswersAre, ValuesAre DEF SrvType
<1>2. CASE k = TemplatesKey
  BY <1>2, AnswersAre, ValuesAre DEF SrvType
<1>3. CASE k[1] \in Kinds /\ k[2] \in Accounts /\ k = <<k[1], k[2]>>
  <2>1. k # AccountsKey /\ k # TemplatesKey
    BY <1>3 DEF AccountsKey, TemplatesKey, Kinds
  <2> DEFINE a == k[2]
  <2>2. srv.trades[a] \in Nat /\ srv.flows[a] \in Nat /\ srv.settings[a] \in Nat /\ srv.notes[a] \in [Periods -> Notes]
    BY <1>3 DEF SrvType
  <2>3. CASE k[1] = "notes"
    BY <2>1, <2>2, <2>3 DEF Value, Answers
  <2>4. CASE k[1] = "flows"
    BY <2>1, <2>2, <2>4 DEF Value, Answers
  <2>5. CASE k[1] = "stats"
    <3>1. Value(k) = <<srv.trades[a], srv.flows[a], srv.settings[a]>>
      BY <2>1, <2>5 DEF Value
    <3>2. Answers(k) = Nat \X Nat \X Nat
      BY <2>1, <2>5 DEF Answers
    <3> QED BY <2>2, <3>1, <3>2
  <2>6. CASE k[1] \notin {"notes", "flows", "stats"}
    <3>1. Value(k) = <<srv.trades[a], srv.settings[a]>>
      BY <2>1, <2>6 DEF Value
    <3>2. Answers(k) = Nat \X Nat
      BY <2>1, <2>6 DEF Answers
    <3> QED BY <2>2, <3>1, <3>2
  <2> QED BY <2>3, <2>4, <2>5, <2>6
<1> QED BY <1>1, <1>2, <1>3, KeyCases

CacheOf(c) == DOMAIN c = Keys /\ \A k \in Keys : c[k] \in Entries(k)

\* An entry whose load is asked for.
LEMMA EntryFields ==
    ASSUME NEW k, NEW e \in Entries(k)
    PROVE  /\ Asked(e) \in Entries(k) /\ Fetching(Asked(e)) /\ Asked(e).fetch = "asked"
           /\ Asked(e).data = e.data /\ Asked(e).inval = e.inval /\ Asked(e).reply = None
BY DEF Entries, Asked, Fetching

\* An entry that is invalidated.
LEMMA MarkFields ==
    ASSUME NEW k, NEW e \in Entries(k), NEW m, m = [e EXCEPT !.inval = TRUE]
    PROVE  m \in Entries(k) /\ m.inval /\ m.data = e.data /\ m.fetch = e.fetch /\ m.reply = e.reply
BY DEF Entries

\* The entry of a key that nothing ever used.
LEMMA NoEntryTyped ==
    ASSUME NEW k PROVE NoEntry \in Entries(k) /\ NoEntry.data = None /\ ~Fetching(NoEntry)
BY DEF Entries, NoEntry, Fetching

\* The entry of a key that was just loaded.
LEMMA FreshTyped ==
    ASSUME NEW k, NEW d \in Answers(k) \cup {None}
    PROVE  /\ Fresh(d) \in Entries(k) /\ Fresh(d).data = d /\ ~Fresh(d).inval
           /\ Fresh(d).fetch = "idle" /\ ~Fetching(Fresh(d))
BY DEF Entries, Fresh, Fetching

\* What a render makes of an entry: a load asked for, at most.
Mounted(e, f) == f = e \/ (~Fetching(e) /\ f = Asked(e))

\* Mounting asks for a load at most, and only of the keys mounted.
LEMMA MountEntry ==
    ASSUME NEW c, CacheOf(c), NEW K, NEW k \in Keys
    PROVE  /\ Mounted(c[k], Mount(c, K)[k])
           /\ Mount(c, K)[k] \in Entries(k)
           /\ Mount(c, K)[k].data = c[k].data
           /\ k \in K /\ c[k].inval => Fetching(Mount(c, K)[k])
           /\ k \notin K => Mount(c, K)[k] = c[k]
<1> DEFINE e == c[k]
<1>1. e \in Entries(k)
  BY DEF CacheOf
<1>2. Mount(c, K)[k] = IF k \in K /\ ~Fetching(e) /\ (e.data = None \/ e.inval \/ k[1] = "trades")
                       THEN Asked(e) ELSE e
  BY DEF Mount
<1> HIDE DEF e
<1>3. Mounted(e, Mount(c, K)[k])
  BY <1>2 DEF Mounted
<1>4. Mount(c, K)[k] \in Entries(k) /\ Mount(c, K)[k].data = e.data
  BY <1>1, <1>2, EntryFields
<1>5. k \in K /\ e.inval => Fetching(Mount(c, K)[k])
  BY <1>1, <1>2, EntryFields
<1> QED BY <1>2, <1>3, <1>4, <1>5 DEF e

\* A cache that is mounted is a cache.
LEMMA MountCache ==
    ASSUME NEW c, CacheOf(c), NEW K
    PROVE  CacheOf(Mount(c, K))
BY MountEntry DEF CacheOf, Mount

-----------------------------------------------------------------------------
(* What a render does                                                      *)

UiType == [page : Pages, editor : BOOLEAN, sheet : Accounts \cup {None}, day : BOOLEAN,
           rows : Accounts \cup {None}, file : {"none", "clean", "dirty"}]
AccountsOrNone == Accounts \cup {None}

\* The list of accounts on screen.
LEMMA ListedTyped ==
    ASSUME NEW c, CacheOf(c)
    PROVE  Listed(c) \in Seq(Accounts)
<1>1. c[AccountsKey] \in Entries(AccountsKey)
  BY FixedKeys DEF CacheOf
<1>2. c[AccountsKey].data \in [list : Seq(Accounts), settings : [Accounts -> Nat]] \cup {None}
  BY <1>1, AnswersAre DEF Entries
<1> QED BY <1>2 DEF Listed

\* The account resolved: remembered, it resolves to itself.
LEMMA ResolveTyped ==
    ASSUME NEW l \in Seq(Accounts), NEW id \in AccountsOrNone
    PROVE  /\ Resolve(l, id) \in AccountsOrNone
           /\ Resolve(l, id) # None => Resolve(l, id) \in Accounts
           /\ Resolve(l, Remember(Resolve(l, id), id)) = Resolve(l, id)
           /\ Remember(Resolve(l, id), id) \in AccountsOrNone
<1>1. CASE l = <<>>
  BY <1>1 DEF Resolve, Remember, AccountsOrNone
<1>2. CASE l # <<>>
  <2>1. Head(l) \in Accounts /\ Head(l) \in ToSet(l)
    BY <1>2 DEF ToSet
  <2>2. ToSet(l) \subseteq Accounts
    BY DEF ToSet
  <2> QED BY <1>2, <2>1, <2>2 DEF Resolve, Remember, AccountsOrNone
<1> QED BY <1>1, <1>2

\* The account in use.
LEMMA ActiveTyped ==
    ASSUME CacheOf(cache), stored \in AccountsOrNone
    PROVE  Active \in AccountsOrNone /\ (Active # None => Active \in Accounts)
BY ListedTyped, ResolveTyped DEF Active

\* A step that renders the cache c: types, entries and what comes on screen.
Rendered(c) ==
    /\ CacheOf(cache') /\ ui' \in UiType /\ stored' \in AccountsOrNone
    /\ \A k \in Keys : Mounted(c[k], cache'[k])
    /\ \A k \in Keys : k \in OnScreen' /\ c[k].inval => k \in OnScreen \/ Fetching(cache'[k])
    /\ \A k \in Keys : k \in OnScreen => cache'[k] = c[k]

\* Every step that renders does what `Rendered` says.
LEMMA RenderEffect ==
    ASSUME NEW c, CacheOf(c), NEW u \in UiType, NEW id \in AccountsOrNone, NEW cs, Render(u, c, id, cs)
    PROVE  Rendered(c) /\ calls' = StillOwn(cs)
<1> DEFINE a == Resolve(Listed(c), id)
           new == Screen(u, c, a) \ OnScreen
           m == Mount(c, new)
<1>1. /\ cache' = m /\ stored' = Remember(a, id) /\ calls' = StillOwn(cs)
      /\ ui' = IF u.page \in {"trades", "days"} /\ a # None /\ m[<<"trades", a>>].data # None
               THEN [u EXCEPT !.rows = a] ELSE u
  BY DEF Render
<1>2. CacheOf(m)
  BY MountCache
<1>3. Listed(c) \in Seq(Accounts)
  BY ListedTyped
<1>4. a \in AccountsOrNone /\ Resolve(Listed(c), Remember(a, id)) = a /\ Remember(a, id) \in AccountsOrNone
  BY <1>3, ResolveTyped
<1>5. Listed(m) = Listed(c)
  BY FixedKeys, MountEntry DEF Listed
<1> HIDE DEF a, m, new
<1>6. ui' \in UiType /\ ui'.page = u.page /\ ui'.editor = u.editor /\ ui'.sheet = u.sheet /\ ui'.day = u.day
  BY <1>1, <1>4 DEF UiType, AccountsOrNone
<1>7. Active' = a
  BY <1>1, <1>4, <1>5 DEF Active
<1>8. OnScreen' = Screen(u, c, a)
  BY <1>1, <1>5, <1>6, <1>7 DEF OnScreen, Screen
<1>9. \A k \in Keys : Mounted(c[k], cache'[k]) /\ (k \in new /\ c[k].inval => Fetching(cache'[k]))
  BY <1>1, MountEntry DEF m
<1>10. \A k \in Keys : k \notin new => cache'[k] = c[k]
  BY <1>1, MountEntry DEF m
<1> QED BY <1>1, <1>2, <1>4, <1>6, <1>8, <1>9, <1>10 DEF Rendered, new

-----------------------------------------------------------------------------
(* Calls                                                                   *)

CallsType == [Slots -> Requests \cup {None}]

\* What a call c may become while it is under way: it forgets where it was made
\* or what it shows, it follows its hook, and it may learn that it is blind.
Like(c, d) ==
    /\ d \in Requests
    /\ d.op = c.op /\ d.acc = c.acc /\ d.phase = c.phase /\ d.list = c.list /\ d.id = c.id
    /\ d.arg = c.arg /\ d.text = c.text /\ d.prev = c.prev
    /\ d.hook \in {c.hook} \cup Accounts /\ d.home \in {c.home, None}
    /\ (d.own => c.own) /\ (c.blind => d.blind)

Going(cs) ==
    /\ cs \in CallsType
    /\ \A s \in Slots : (calls[s] = None => cs[s] = None) /\ (calls[s] # None => cs[s] # None /\ Like(calls[s], cs[s]))

\* What a call may become, one field at a time.
LEMMA CallFields ==
    ASSUME NEW c \in Requests
    PROVE  /\ Like(c, c) /\ Like(c, [c EXCEPT !.own = FALSE]) /\ Like(c, [c EXCEPT !.home = None])
           /\ Like(c, [c EXCEPT !.blind = TRUE]) /\ \A a \in Accounts : Like(c, [c EXCEPT !.hook = a])
           /\ [c EXCEPT !.blind = TRUE].blind /\ ~[c EXCEPT !.own = FALSE].own
<1>1. Like(c, c)
  BY DEF Like
<1>2. Like(c, [c EXCEPT !.own = FALSE]) /\ ~[c EXCEPT !.own = FALSE].own
  <2> DEFINE d == [c EXCEPT !.own = FALSE]
  <2>1. d \in Requests
    BY DEF Requests
  <2>2. /\ ~d.own
        /\ \A x \in DOMAIN c \ {"own"} : d[x] = c[x]
    BY DEF Requests
  <2>3. DOMAIN c = {"op", "acc", "hook", "home", "phase", "list", "id", "arg", "text", "prev", "own", "blind"}
    BY DEF Requests
  <2> HIDE DEF d
  <2>4. Like(c, d)
    BY <2>1, <2>2, <2>3 DEF Like
  <2> QED BY <2>2, <2>4 DEF d
<1>3. Like(c, [c EXCEPT !.home = None])
  <2> DEFINE d == [c EXCEPT !.home = None]
  <2>1. d \in Requests
    BY DEF Requests
  <2>2. /\ d.home = None
        /\ \A x \in DOMAIN c \ {"home"} : d[x] = c[x]
    BY DEF Requests
  <2>3. DOMAIN c = {"op", "acc", "hook", "home", "phase", "list", "id", "arg", "text", "prev", "own", "blind"}
    BY DEF Requests
  <2> HIDE DEF d
  <2>4. Like(c, d)
    BY <2>1, <2>2, <2>3 DEF Like
  <2> QED BY <2>2, <2>4 DEF d
<1>4. Like(c, [c EXCEPT !.blind = TRUE]) /\ [c EXCEPT !.blind = TRUE].blind
  <2> DEFINE d == [c EXCEPT !.blind = TRUE]
  <2>1. d \in Requests
    BY DEF Requests
  <2>2. /\ d.blind
        /\ \A x \in DOMAIN c \ {"blind"} : d[x] = c[x]
    BY DEF Requests
  <2>3. DOMAIN c = {"op", "acc", "hook", "home", "phase", "list", "id", "arg", "text", "prev", "own", "blind"}
    BY DEF Requests
  <2> HIDE DEF d
  <2>4. Like(c, d)
    BY <2>1, <2>2, <2>3 DEF Like
  <2> QED BY <2>2, <2>4 DEF d
<1>5. ASSUME NEW a \in Accounts PROVE Like(c, [c EXCEPT !.hook = a])
  <2> DEFINE d == [c EXCEPT !.hook = a]
  <2>1. d \in Requests
    BY DEF Requests
  <2>2. /\ d.hook = a
        /\ \A x \in DOMAIN c \ {"hook"} : d[x] = c[x]
    BY DEF Requests
  <2>3. DOMAIN c = {"op", "acc", "hook", "home", "phase", "list", "id", "arg", "text", "prev", "own", "blind"}
    BY DEF Requests
  <2> HIDE DEF d
  <2>4. Like(c, d)
    BY <2>1, <2>2, <2>3 DEF Like
  <2> QED BY <2>4 DEF d
<1> QED BY <1>1, <1>2, <1>3, <1>4, <1>5

\* What a call becomes is a call.
LEMMA LikeReal ==
    ASSUME NEW c, NEW d, Like(c, d)
    PROVE  d # None /\ d \in Requests
BY NoneAssumption DEF Like

\* And what that becomes is so too.
LEMMA LikeLike ==
    ASSUME NEW c, NEW d, NEW e, Like(c, d), Like(d, e)
    PROVE  Like(c, e)
BY DEF Like

\* A call keeps what its operation needs and what it changes.
LEMMA LikeOfOp ==
    ASSUME NEW c, NEW d, OfOp(c), Like(c, d)
    PROVE  OfOp(d) /\ Changed(d) = Changed(c)
<1>1. OfOp(d)
  BY DEF OfOp, Like
<1>2. d.op = c.op /\ d.acc = c.acc
  BY DEF Like
<1> QED BY <1>1, <1>2 DEF Changed

\* The calls as they are go on.
LEMMA GoingOn ==
    ASSUME calls \in CallsType
    PROVE  Going(calls)
BY CallFields DEF Going, CallsType

\* Who was not there is not, and the others are like they were; a note whose
\* list is asked for is nobody's own.
LEMMA StillOwnEffect ==
    ASSUME NEW cs \in CallsType, NEW ds, ds = StillOwn(cs)
    PROVE  /\ ds \in CallsType
           /\ \A s \in Slots : (cs[s] = None => ds[s] = None) /\ (cs[s] # None => ds[s] # None /\ Like(cs[s], ds[s]))
           /\ \A s \in Slots : ds[s] # None /\ ds[s].op = "note" /\ ds[s].own
                => ~(Fetching(cache'[<<"notes", ds[s].acc>>]) /\ ~Fetching(cache[<<"notes", ds[s].acc>>]))
           /\ \A s \in Slots : cs[s] # None => /\ ds[s].hook = cs[s].hook /\ ds[s].home = cs[s].home
                                               /\ ds[s].blind = cs[s].blind
<1> DEFINE Asks(s) == /\ cs[s] # None /\ cs[s].op = "note"
                      /\ Fetching(cache'[<<"notes", cs[s].acc>>]) /\ ~Fetching(cache[<<"notes", cs[s].acc>>])
<1>1. \A s \in Slots : ds[s] = IF Asks(s) THEN [cs[s] EXCEPT !.own = FALSE] ELSE cs[s]
  BY DEF StillOwn
<1>2. \A s \in Slots : cs[s] # None => cs[s] \in Requests
  BY DEF CallsType
<1>3. \A s \in Slots : cs[s] # None =>
        /\ Like(cs[s], ds[s]) /\ ds[s] # None
        /\ (Asks(s) => ~ds[s].own)
  <2> HIDE DEF Asks
  <2> SUFFICES ASSUME NEW s \in Slots, cs[s] # None
               PROVE  Like(cs[s], ds[s]) /\ ds[s] # None /\ (Asks(s) => ~ds[s].own)
    OBVIOUS
  <2>1. Like(cs[s], cs[s]) /\ Like(cs[s], [cs[s] EXCEPT !.own = FALSE]) /\ ~[cs[s] EXCEPT !.own = FALSE].own
    BY <1>2, CallFields
  <2>2. CASE Asks(s)
    BY <1>1, <2>1, <2>2, LikeReal
  <2>3. CASE ~Asks(s)
    BY <1>1, <2>1, <2>3, LikeReal
  <2> QED BY <2>2, <2>3
<1>4. \A s \in Slots : cs[s] # None => /\ ds[s].hook = cs[s].hook /\ ds[s].home = cs[s].home
                                       /\ ds[s].blind = cs[s].blind
  BY <1>1, <1>2 DEF Requests
<1>5. \A s \in Slots : cs[s] = None => ds[s] = None
  BY <1>1
<1>6. \A s \in Slots : ds[s] \in Requests \cup {None}
  BY <1>3, <1>5 DEF Like
<1>7. ds \in CallsType
  BY <1>6 DEF CallsType, StillOwn
<1>8. \A s \in Slots : ds[s] # None /\ ds[s].op = "note" /\ ds[s].own
                => ~(Fetching(cache'[<<"notes", ds[s].acc>>]) /\ ~Fetching(cache[<<"notes", ds[s].acc>>]))
  <2> SUFFICES ASSUME NEW s \in Slots, ds[s] # None, ds[s].op = "note", ds[s].own, cs[s] # None
               PROVE  ~(Fetching(cache'[<<"notes", ds[s].acc>>]) /\ ~Fetching(cache[<<"notes", ds[s].acc>>]))
    BY <1>5
  <2>1. ds[s].op = cs[s].op /\ ds[s].acc = cs[s].acc
    BY <1>3 DEF Like
  <2>2. ~Asks(s)
    BY <1>3
  <2> QED BY <2>1, <2>2
<1> QED BY <1>3, <1>4, <1>5, <1>7, <1>8

\* Calls whose component is unmounted go on.
LEMMA LeavingGoes ==
    ASSUME calls \in CallsType, NEW homes
    PROVE  Going(Leaving(homes))
<1>1. \A s \in Slots : Leaving(homes)[s] = IF calls[s] # None /\ calls[s].home \in homes
                                           THEN [calls[s] EXCEPT !.home = None] ELSE calls[s]
  BY DEF Leaving
<1>2. \A s \in Slots : calls[s] # None => calls[s] \in Requests
  BY DEF CallsType
<1>3. \A s \in Slots : calls[s] # None => Like(calls[s], Leaving(homes)[s]) /\ Leaving(homes)[s] # None
  <2> SUFFICES ASSUME NEW s \in Slots, calls[s] # None
               PROVE  Like(calls[s], Leaving(homes)[s]) /\ Leaving(homes)[s] # None
    OBVIOUS
  <2>1. Like(calls[s], calls[s]) /\ Like(calls[s], [calls[s] EXCEPT !.home = None])
    BY <1>2, CallFields
  <2> QED BY <1>1, <2>1, LikeReal
<1>4. \A s \in Slots : Leaving(homes)[s] \in Requests \cup {None}
  BY <1>1, <1>3 DEF Like
<1>5. Leaving(homes) \in CallsType
  BY <1>4 DEF Leaving, CallsType
<1> QED BY <1>1, <1>3, <1>5 DEF Going

\* Changes of order left behind go on, blind.
LEMMA BlindedGoes ==
    ASSUME calls \in CallsType
    PROVE  /\ Going(Blinded)
           /\ \A s \in Slots : LeftBehind(calls[s]) => Blinded[s].blind
<1>1. \A s \in Slots : Blinded[s] = IF LeftBehind(calls[s]) THEN [calls[s] EXCEPT !.blind = TRUE] ELSE calls[s]
  BY DEF Blinded
<1>2. \A s \in Slots : calls[s] # None => calls[s] \in Requests
  BY DEF CallsType
<1>3. \A s \in Slots : calls[s] # None => Like(calls[s], Blinded[s]) /\ Blinded[s] # None
  <2> SUFFICES ASSUME NEW s \in Slots, calls[s] # None
               PROVE  Like(calls[s], Blinded[s]) /\ Blinded[s] # None
    OBVIOUS
  <2>1. Like(calls[s], calls[s]) /\ Like(calls[s], [calls[s] EXCEPT !.blind = TRUE])
    BY <1>2, CallFields
  <2> QED BY <1>1, <2>1, LikeReal
<1>4. \A s \in Slots : Blinded[s] \in Requests \cup {None}
  BY <1>1, <1>3 DEF Like, LeftBehind
<1>5. Blinded \in CallsType
  BY <1>4 DEF Blinded, CallsType
<1>6. \A s \in Slots : LeftBehind(calls[s]) => Blinded[s].blind
  BY <1>1, <1>2, CallFields DEF LeftBehind
<1>7. \A s \in Slots : calls[s] = None => Blinded[s] = None
  BY <1>1 DEF LeftBehind
<1> QED BY <1>3, <1>5, <1>6, <1>7 DEF Going

\* Calls that follow their hook to another account go on.
LEMMA HookGoes ==
    ASSUME NEW cs, Going(cs), NEW a \in Accounts, NEW ds,
           ds = [s \in Slots |-> IF cs[s] # None /\ cs[s].home # None THEN [cs[s] EXCEPT !.hook = a] ELSE cs[s]]
    PROVE  Going(ds)
<1>1. \A s \in Slots : cs[s] # None => cs[s] \in Requests
  BY DEF CallsType, Going
<1>2. \A s \in Slots : cs[s] # None => Like(cs[s], ds[s]) /\ ds[s] # None
  <2> SUFFICES ASSUME NEW s \in Slots, cs[s] # None
               PROVE  Like(cs[s], ds[s]) /\ ds[s] # None
    OBVIOUS
  <2>1. Like(cs[s], cs[s]) /\ Like(cs[s], [cs[s] EXCEPT !.hook = a])
    BY <1>1, CallFields
  <2> QED BY <2>1, LikeReal
<1>3. \A s \in Slots : cs[s] = None => ds[s] = None
  OBVIOUS
<1>4. ds \in CallsType
  <2>1. \A s \in Slots : ds[s] \in Requests \cup {None}
    BY <1>2, <1>3 DEF Like
  <2> QED BY <2>1 DEF CallsType
<1> QED BY <1>2, <1>3, <1>4, LikeLike DEF Going

-----------------------------------------------------------------------------
(* What the user does, in two shapes: the screen changes, or a mutation    *)
(* starts beside those under way.                                          *)

\* The type invariant by its parts, before and after a step.
LEMMA Typed ==
    /\ TypeOK => /\ srv \in SrvType /\ CacheOf(cache) /\ ui \in UiType /\ stored \in AccountsOrNone
                 /\ calls \in CallsType /\ missed \subseteq Keys \cup {LastOrder}
                 /\ steps \in 0..MaxSteps /\ fails \in 0..MaxFails
    /\ srv' \in SrvType /\ CacheOf(cache') /\ ui' \in UiType /\ stored' \in AccountsOrNone /\ calls' \in CallsType
       /\ missed' \subseteq Keys \cup {LastOrder} /\ steps' \in 0..MaxSteps /\ fails' \in 0..MaxFails
       => TypeOK'
<1>1. TypeOK => /\ srv \in SrvType /\ CacheOf(cache) /\ ui \in UiType /\ stored \in AccountsOrNone
                 /\ calls \in CallsType /\ missed \subseteq Keys \cup {LastOrder}
                 /\ steps \in 0..MaxSteps /\ fails \in 0..MaxFails
  BY DEF TypeOK, SrvType, UiType, CacheOf, AccountsOrNone, CallsType
<1>2. /\ srv' \in SrvType /\ CacheOf(cache') /\ ui' \in UiType /\ stored' \in AccountsOrNone /\ calls' \in CallsType
       /\ missed' \subseteq Keys \cup {LastOrder} /\ steps' \in 0..MaxSteps /\ fails' \in 0..MaxFails
       => TypeOK'
  BY DEF TypeOK, SrvType, UiType, CacheOf, AccountsOrNone, CallsType
<1> QED BY <1>1, <1>2

Quiet(cs) ==
    /\ Rendered(cache) /\ Going(cs) /\ calls' = StillOwn(cs)
    /\ srv' = srv /\ missed' = missed

\* Mutation c starts in slot s, over the cache d.
Started(d, cs, s, c) ==
    /\ CacheOf(d) /\ Rendered(d) /\ Going(cs) /\ calls' = StillOwn([cs EXCEPT ![s] = c])
    /\ s \in Slots /\ calls[s] = None /\ c \in Requests /\ OfOp(c) /\ c.phase = "sent"
    /\ srv' = srv /\ missed' = missed

\* What is so of a move: the list on screen with two neighbours exchanged; and
\* either it is blind, or the only one and made on a list that lacks none.
Neighbours(list, i, j) == i \in 1..Len(list) /\ j \in 1..Len(list) /\ (j = i + 1 \/ j = i - 1)
Swapped(list, i, j) == [list EXCEPT ![i] = list[j], ![j] = list[i]]
MoveOf(c, cs) ==
    LET list == cache[TemplatesKey].data IN
    /\ list # None
    /\ \E i, j \in Int : Neighbours(list, i, j) /\ c.list = Swapped(list, i, j)
    /\ \A s \in Slots : cs[s] # None /\ cs[s].op = "reorder" => cs[s].blind
    /\ ~c.blind => /\ LastOrder \notin missed
                   /\ \A s \in Slots : ~(calls[s] # None /\ calls[s].op = "reorder")

\* What is so of a note: it is on its card, and the only one of its account, or
\* nobody's own.
NoteOf(c, cs, d) ==
    LET k == <<"notes", c.acc>> IN
    /\ k \in OnScreen /\ \A j \in Keys \ {k} : d[j] = cache[j]
    /\ ~d[k].inval /\ ~Fetching(d[k]) /\ d[k].data[c.arg] = c.text
    /\ \A s \in Slots : cs[s] # None /\ cs[s].op = "note" /\ cs[s].acc = c.acc => ~cs[s].own

Screens == \/ \E p \in Pages : Open(p)
           \/ \E a \in Accounts : Choose(a) \/ OpenSheet(a)
           \/ HoverDay \/ OpenEditor \/ ChooseFile \/ ClearFile
Plain == \/ \E a \in Accounts : ChangeAccount(a)
         \/ CreateTrade \/ ChangeTrade \/ RestoreTrade \/ CommitImport \/ NewAccount \/ ChangeFlow
         \/ \E id \in {0, 2} : ChangeTemplate(id)

\* The screen changes: nothing starts.
LEMMA ScreenStep ==
    ASSUME TypeOK, Screens
    PROVE  \E cs : Quiet(cs)
<1>1. /\ CacheOf(cache) /\ ui \in UiType /\ stored \in AccountsOrNone /\ calls \in CallsType
  BY Typed
<1>2. ASSUME User, NEW u \in UiType, NEW id \in AccountsOrNone, NEW cs, Going(cs), Render(u, cache, id, cs)
      PROVE  \E ds : Quiet(ds)
  BY <1>1, <1>2, RenderEffect DEF Quiet, User
<1>3. \A p \in Pages : Blank(p) \in UiType /\ [Blank(p) EXCEPT !.rows = ui.rows] \in UiType
  BY <1>1 DEF Blank, UiType
<1>4. ASSUME NEW p \in Pages, Open(p) PROVE \E cs : Quiet(cs)
  <2> DEFINE views == {"trades", "days"}
             stays == p \in views /\ ui.page \in views
             u == IF stays THEN [Blank(p) EXCEPT !.rows = ui.rows] ELSE Blank(p)
             homes == {"editor", "sheet"} \cup (IF ui.page = "days" THEN {"cards"} ELSE {})
                         \cup (IF stays THEN {} ELSE views \cup {ui.page})
  <2>1. Render(u, cache, stored, Leaving(homes)) /\ User
    BY <1>4 DEF Open
  <2>2. u \in UiType
    BY <1>3
  <2> HIDE DEF u, homes
  <2> QED BY <1>1, <1>2, <2>1, <2>2, LeavingGoes
<1>5. ASSUME NEW a \in Accounts, Choose(a) PROVE \E cs : Quiet(cs)
  <2>1. PICK stay \in BOOLEAN : User /\ LET kept == IF stay THEN calls ELSE Leaving({"cards"}) IN
        Render(ui, cache, a, [s \in Slots |->
            IF kept[s] # None /\ kept[s].home # None THEN [kept[s] EXCEPT !.hook = a] ELSE kept[s]])
    BY <1>5 DEF Choose
  <2> DEFINE kept == IF stay THEN calls ELSE Leaving({"cards"})
             cs == [s \in Slots |->
                      IF kept[s] # None /\ kept[s].home # None THEN [kept[s] EXCEPT !.hook = a] ELSE kept[s]]
  <2>2. Going(kept)
    BY <1>1, GoingOn, LeavingGoes
  <2>3. Render(ui, cache, a, cs) /\ User
    BY <2>1
  <2> HIDE DEF kept
  <2>4. Going(cs)
    BY <2>2, HookGoes
  <2>5. a \in AccountsOrNone
    BY DEF AccountsOrNone
  <2> HIDE DEF cs
  <2> QED BY <1>1, <1>2, <2>3, <2>4, <2>5
<1>6. ASSUME NEW a \in Accounts, OpenSheet(a) PROVE \E cs : Quiet(cs)
  <2> DEFINE u == [ui EXCEPT !.sheet = IF @ = a THEN None ELSE a]
  <2>1. Render(u, cache, stored, Leaving({"sheet"})) /\ User
    BY <1>6 DEF OpenSheet
  <2>2. u \in UiType
    BY <1>1 DEF UiType
  <2> HIDE DEF u
  <2> QED BY <1>1, <1>2, <2>1, <2>2, LeavingGoes
<1>7. ASSUME HoverDay PROVE \E cs : Quiet(cs)
  <2> DEFINE u == [ui EXCEPT !.day = ~@]
  <2>1. Render(u, cache, stored, calls) /\ User
    BY <1>7 DEF HoverDay
  <2>2. u \in UiType
    BY <1>1 DEF UiType
  <2> HIDE DEF u
  <2> QED BY <1>1, <1>2, <2>1, <2>2, GoingOn
<1>8. ASSUME OpenEditor PROVE \E cs : Quiet(cs)
  <2> DEFINE u == [ui EXCEPT !.editor = ~@]
  <2>1. Render(u, cache, stored, Leaving({"editor"})) /\ User
    BY <1>8 DEF OpenEditor
  <2>2. u \in UiType
    BY <1>1 DEF UiType
  <2> HIDE DEF u
  <2> QED BY <1>1, <1>2, <2>1, <2>2, LeavingGoes
<1>9. ASSUME ChooseFile \/ ClearFile PROVE \E cs : Quiet(cs)
  <2>1. PICK f \in {"none", "clean", "dirty"} : Render([ui EXCEPT !.file = f], cache, stored, calls) /\ User
    BY <1>9 DEF ChooseFile, ClearFile
  <2>2. [ui EXCEPT !.file = f] \in UiType
    BY <1>1 DEF UiType
  <2> QED BY <1>1, <1>2, <2>1, <2>2, GoingOn
<1> QED BY <1>4, <1>5, <1>6, <1>7, <1>8, <1>9 DEF Screens

\* A mutation as it is sent.
LEMMA CallTyped ==
    ASSUME TypeOK, NEW a \in AccountsOrNone,
           NEW op \in {"trade", "import", "flow", "account", "newAccount", "note", "reorder", "template"},
           NEW c, c = Call(op, a)
    PROVE  /\ c \in Requests /\ c.op = op /\ c.acc = a /\ c.hook = a /\ c.phase = "sent" /\ c.home = ui.page
           /\ c.arg = None /\ ~c.own
<1>1. ui.page \in Pages
  BY Typed DEF UiType
<1>2. <<>> \in Seq(Nat)
  OBVIOUS
<1>3. "" \in Notes
  BY NotesAssumption
<1> QED BY <1>1, <1>2, <1>3 DEF Call, Requests, AccountsOrNone

\* A mutation starts.
LEMMA StartStep ==
    ASSUME TypeOK, NEW d, CacheOf(d), NEW cs, Going(cs), NEW c \in Requests, OfOp(c), c.phase = "sent", Start(c, d, cs)
    PROVE  \E s \in Slots : Started(d, cs, s, c)
<1>1. PICK s \in Slots : calls[s] = None /\ Render(ui, d, stored, [cs EXCEPT ![s] = c])
  BY DEF Start
<1>2. Rendered(d) /\ calls' = StillOwn([cs EXCEPT ![s] = c])
  BY <1>1, Typed, RenderEffect
<1> QED BY <1>1, <1>2 DEF Started, Start, User

\* Mutations that are neither a note nor a change of order start.
LEMMA PlainStep ==
    ASSUME TypeOK, Plain
    PROVE  \E s \in Slots : \E c : Started(cache, calls, s, c) /\ c.op \notin {"note", "reorder"}
<1>1. /\ CacheOf(cache) /\ ui \in UiType /\ stored \in AccountsOrNone /\ calls \in CallsType /\ Going(calls)
  BY Typed, GoingOn
<1>2. Active \in AccountsOrNone /\ (Active # None => Active \in Accounts)
  BY <1>1, ActiveTyped
<1>3. ASSUME NEW c \in Requests, OfOp(c), c.phase = "sent", c.op \notin {"note", "reorder"}, Send(c)
      PROVE  \E s \in Slots : \E x : Started(cache, calls, s, x) /\ x.op \notin {"note", "reorder"}
  <2>1. Start(c, cache, calls)
    BY <1>3 DEF Send
  <2> QED BY <1>1, <1>3, <2>1, StartStep
<1>4. ASSUME NEW op \in {"trade", "import", "flow", "account"}, NEW a \in Accounts
      PROVE  LET c == Call(op, a) IN c \in Requests /\ OfOp(c) /\ c.phase = "sent" /\ c.op = op
  <2> DEFINE c == Call(op, a)
  <2>1. c \in Requests /\ c.op = op /\ c.acc = a /\ c.hook = a /\ c.phase = "sent"
    BY CallTyped DEF AccountsOrNone
  <2> HIDE DEF c
  <2>2. OfOp(c)
    BY <2>1 DEF OfOp
  <2> QED BY <2>1, <2>2 DEF c
<1>5. ASSUME NEW op \in {"newAccount", "template"}
      PROVE  LET c == Call(op, None) IN c \in Requests /\ OfOp(c) /\ c.phase = "sent" /\ c.op = op
  <2> DEFINE c == Call(op, None)
  <2>1. c \in Requests /\ c.op = op /\ c.acc = None /\ c.hook = None /\ c.phase = "sent"
    BY CallTyped DEF AccountsOrNone
  <2> HIDE DEF c
  <2>2. OfOp(c)
    BY <2>1 DEF OfOp
  <2> QED BY <2>1, <2>2 DEF c
<1> DEFINE Goal == \E s \in Slots : \E c : Started(cache, calls, s, c) /\ c.op \notin {"note", "reorder"}
<1>6. ASSUME NEW a \in Accounts, ChangeAccount(a) PROVE Goal
  BY <1>3, <1>4, <1>6 DEF ChangeAccount
<1>7. ASSUME CreateTrade \/ RestoreTrade PROVE Goal
  BY <1>2, <1>3, <1>4, <1>7 DEF CreateTrade, RestoreTrade
<1>8. ASSUME ChangeTrade PROVE Goal
  <2>1. RowsShown # None /\ Active # None /\ RowsShown \in {Active, ui.rows}
    BY <1>8 DEF ChangeTrade, RowsShown
  <2>2. RowsShown \in Accounts /\ Active \in Accounts
    BY <1>1, <1>2, <2>1 DEF UiType
  <2> DEFINE b == Call("trade", RowsShown)
             c == [b EXCEPT !.hook = Active]
  <2>3. b \in Requests /\ OfOp(b) /\ b.phase = "sent" /\ b.op = "trade"
    BY <1>4, <2>2
  <2>4. Send(c)
    BY <1>8 DEF ChangeTrade
  <2> HIDE DEF b
  <2>5. Like(b, c)
    BY <2>2, <2>3, CallFields
  <2> HIDE DEF c
  <2>6. c \in Requests /\ OfOp(c) /\ c.phase = "sent" /\ c.op = "trade"
    BY <2>3, <2>5, LikeOfOp DEF Like
  <2> QED BY <1>3, <2>4, <2>6
<1>9. ASSUME CommitImport PROVE Goal
  BY <1>2, <1>3, <1>4, <1>9 DEF CommitImport
<1>10. ASSUME NewAccount PROVE Goal
  BY <1>3, <1>5, <1>10 DEF NewAccount
<1>11. ASSUME ChangeFlow PROVE Goal
  <2>1. ui.sheet \in Accounts
    BY <1>1, <1>11 DEF ChangeFlow, UiType
  <2> DEFINE b == Call("flow", ui.sheet)
             c == [b EXCEPT !.home = "sheet"]
  <2>2. b \in Requests /\ OfOp(b) /\ b.phase = "sent" /\ b.op = "flow"
    BY <1>4, <2>1
  <2>3. Send(c)
    BY <1>11 DEF ChangeFlow
  <2> HIDE DEF b
  <2>4. c \in Requests /\ OfOp(c) /\ c.phase = "sent" /\ c.op = "flow"
    BY <2>2 DEF Requests, OfOp
  <2> HIDE DEF c
  <2> QED BY <1>3, <2>3, <2>4
<1>12. ASSUME NEW id \in {0, 2}, ChangeTemplate(id) PROVE Goal
  <2> DEFINE b == Call("template", None)
             c == [b EXCEPT !.home = "editor", !.id = id]
  <2>2. b \in Requests /\ OfOp(b) /\ b.phase = "sent" /\ b.op = "template"
    BY <1>5
  <2>3. Send(c)
    BY <1>12 DEF ChangeTemplate
  <2> HIDE DEF b
  <2>4. c \in Requests /\ OfOp(c) /\ c.phase = "sent" /\ c.op = "template"
    BY <2>2 DEF Requests, OfOp
  <2> HIDE DEF c
  <2> QED BY <1>3, <2>3, <2>4
<1> HIDE DEF Goal
<1>13. Goal
  BY <1>6, <1>7, <1>8, <1>9, <1>10, <1>11, <1>12 DEF Plain
<1> QED BY <1>13 DEF Goal

\* A list with two neighbours exchanged is one.
LEMMA SwappedTyped ==
    ASSUME NEW list \in Seq(Nat), NEW i \in Int, NEW j \in Int, Neighbours(list, i, j)
    PROVE  Swapped(list, i, j) \in Seq(Nat)
BY DEF Swapped, Neighbours

\* A template is moved.
LEMMA MoveStep ==
    ASSUME TypeOK, CallsInv, NEW i \in 1..4, NEW delta \in {-1, 1}, Move(i, delta)
    PROVE  \E s \in Slots : \E c : Started(cache, Blinded, s, c) /\ c.op = "reorder" /\ MoveOf(c, Blinded)
<1> DEFINE list == cache[TemplatesKey].data
           l == [list EXCEPT ![i] = list[i + delta], ![i + delta] = list[i]]
           b == Call("reorder", None)
           c == [b EXCEPT !.home = "editor", !.blind = BlindToOrder, !.list = l]
<1>1. /\ CacheOf(cache) /\ calls \in CallsType
  BY Typed
<1>2. list # None /\ i \in 1..Len(list) /\ i + delta \in 1..Len(list) /\ Start(c, cache, Blinded)
      /\ ~\E x \in UnderWay : x.op = "reorder" /\ x.home = "editor"
  BY DEF Move
<1> HIDE DEF c
<1>3. cache[TemplatesKey] \in Entries(TemplatesKey)
  BY <1>1, FixedKeys DEF CacheOf
<1>4. list \in Seq(Nat)
  <2>1. Answers(TemplatesKey) = Seq(Nat)
    BY AnswersAre
  <2> QED BY <1>2, <1>3, <2>1 DEF Entries
<1>5. Neighbours(list, i, i + delta) /\ l = Swapped(list, i, i + delta)
  BY <1>2 DEF Neighbours, Swapped
<1> HIDE DEF list, l
<1>6. l \in Seq(Nat)
  <2>1. i \in Int /\ i + delta \in Int
    OBVIOUS
  <2> QED BY <1>4, <1>5, <2>1, SwappedTyped
<1>7. b \in Requests /\ b.op = "reorder" /\ b.phase = "sent"
  BY CallTyped DEF AccountsOrNone
<1>8. BlindToOrder \in BOOLEAN
  BY DEF BlindToOrder
<1> HIDE DEF b, l
<1>9. c \in Requests /\ c.op = "reorder" /\ c.phase = "sent" /\ c.home = "editor" /\ c.list = l
  BY <1>6, <1>7, <1>8 DEF Requests, c
<1>10. c.blind = BlindToOrder
  BY <1>7, <1>8 DEF Requests, c
<1>11. OfOp(c)
  BY <1>9 DEF OfOp
<1>12. Going(Blinded) /\ \A s \in Slots : LeftBehind(calls[s]) => Blinded[s].blind
  BY <1>1, BlindedGoes
<1>13. \A s \in Slots : calls[s] # None /\ calls[s].op = "reorder" => LeftBehind(calls[s])
  <2>1. \A s \in Slots : calls[s] # None => calls[s] \in UnderWay /\ OfOp(calls[s])
    BY DEF UnderWay, CallsInv
  <2> QED BY <1>2, <2>1 DEF OfOp, LeftBehind
<1>14. \A s \in Slots : Blinded[s] # None /\ Blinded[s].op = "reorder" => Blinded[s].blind
  BY <1>12, <1>13 DEF Going, Like
<1>15. ~c.blind => LastOrder \notin missed /\ \A s \in Slots : ~(calls[s] # None /\ calls[s].op = "reorder")
  <2>1. \A s \in Slots : calls[s] # None => calls[s] \in UnderWay
    BY DEF UnderWay
  <2> QED BY <1>10, <1>13, <2>1 DEF BlindToOrder
<1>16. MoveOf(c, Blinded)
  <2>1. list # None /\ \E x, y \in Int : Neighbours(list, x, y) /\ c.list = Swapped(list, x, y)
    BY <1>2, <1>5, <1>9
  <2> QED BY <1>14, <1>15, <2>1 DEF MoveOf, list
<1>17. \E s \in Slots : Started(cache, Blinded, s, c)
  BY <1>1, <1>2, <1>9, <1>11, <1>12, StartStep
<1> QED BY <1>9, <1>16, <1>17

\* A note is saved.
LEMMA NoteStep ==
    ASSUME TypeOK, NEW p \in Periods, NEW text \in Notes, SaveNote(p, text)
    PROVE  \E s \in Slots : \E c, cs, d : Started(d, cs, s, c) /\ c.op = "note" /\ NoteOf(c, cs, d)
<1> DEFINE k == <<"notes", Active>>
           others == {s \in Slots : calls[s] # None /\ calls[s].op = "note" /\ calls[s].acc = Active}
           b == Call("note", Active)
           c == [b EXCEPT !.home = "cards", !.arg = p, !.text = text, !.prev = cache[k].data, !.own = others = {}]
           cs == [s \in Slots |-> IF s \in others THEN [calls[s] EXCEPT !.own = FALSE] ELSE calls[s]]
           d == Optimistic(cache, k, p, text)
           list == IF cache[k].data = None THEN [x \in Periods |-> ""] ELSE cache[k].data
           l == [list EXCEPT ![p] = text]
<1>1. /\ CacheOf(cache) /\ stored \in AccountsOrNone /\ calls \in CallsType
  BY Typed
<1>2. Active \in Accounts
  BY <1>1, ActiveTyped DEF SaveNote
<1>3. Start(c, d, cs)
  BY DEF SaveNote
<1>4. k \in Keys
  BY <1>2, KeysOfAccount DEF Kinds
<1>5. cache[k] \in Entries(k) /\ Answers(k) = [Periods -> Notes]
  BY <1>1, <1>2, <1>4, AnswersAre DEF CacheOf
<1>6. cache[k].data \in [Periods -> Notes] \cup {None}
  BY <1>5 DEF Entries
<1>7. list \in [Periods -> Notes]
  BY <1>6, NotesAssumption
<1> HIDE DEF list
<1>8. l \in [Periods -> Notes] /\ l[p] = text
  BY <1>7
<1>9. /\ d[k] = [[[[cache[k] EXCEPT !.fetch = "idle"] EXCEPT !.reply = None] EXCEPT !.data = l] EXCEPT !.inval = FALSE]
      /\ DOMAIN d = Keys /\ \A j \in Keys \ {k} : d[j] = cache[j]
  BY <1>1, <1>4 DEF Optimistic, SetData, Cancel, CacheOf, list
<1> HIDE DEF l, d
<1>10. d[k] \in Entries(k) /\ ~d[k].inval /\ d[k].fetch = "idle" /\ d[k].data = l
  BY <1>5, <1>8, <1>9 DEF Entries
<1>11. CacheOf(d)
  BY <1>1, <1>9, <1>10 DEF CacheOf
<1>12. b \in Requests /\ b.op = "note" /\ b.acc = Active /\ b.hook = Active /\ b.phase = "sent"
  BY <1>2, CallTyped DEF AccountsOrNone
<1> HIDE DEF b
<1>13. (others = {}) \in BOOLEAN
  OBVIOUS
<1> HIDE DEF others
<1>14. c \in Requests /\ c.op = "note" /\ c.acc = Active /\ c.hook = Active /\ c.phase = "sent" /\ c.arg = p /\ c.text = text
  <2> DEFINE e == [b EXCEPT !.home = "cards", !.arg = p, !.text = text, !.prev = cache[k].data]
             mine == others = {}
  <2>1. e \in Requests
    BY <1>6, <1>12 DEF Requests
  <2>2. e.op = b.op /\ e.acc = b.acc /\ e.hook = b.hook /\ e.phase = b.phase /\ e.arg = p /\ e.text = text
    BY <1>12 DEF Requests
  <2>3. c = [e EXCEPT !.own = mine]
    BY <1>12 DEF Requests
  <2> HIDE DEF e, c, mine
  <2>4. mine \in BOOLEAN
    BY <1>13 DEF mine
  <2>5. c \in Requests /\ c.op = e.op /\ c.acc = e.acc /\ c.hook = e.hook /\ c.phase = e.phase /\ c.arg = e.arg /\ c.text = e.text
    BY <2>1, <2>3, <2>4 DEF Requests
  <2> QED BY <1>12, <2>2, <2>5
<1> HIDE DEF c
<1>15. OfOp(c)
  BY <1>2, <1>14 DEF OfOp
<1>16. \A s \in Slots : calls[s] # None => Like(calls[s], cs[s]) /\ cs[s] # None
  <2> SUFFICES ASSUME NEW s \in Slots, calls[s] # None PROVE Like(calls[s], cs[s]) /\ cs[s] # None
    OBVIOUS
  <2>1. Like(calls[s], calls[s]) /\ Like(calls[s], [calls[s] EXCEPT !.own = FALSE])
    BY <1>1, CallFields DEF CallsType
  <2> QED BY <2>1, LikeReal
<1>17. \A s \in Slots : calls[s] = None => cs[s] = None
  BY DEF others
<1>18. Going(cs)
  <2>1. \A s \in Slots : cs[s] \in Requests \cup {None}
    BY <1>16, <1>17, LikeReal
  <2>2. cs \in CallsType
    BY <2>1 DEF CallsType
  <2> QED BY <1>16, <1>17, <2>2 DEF Going
<1>19. \A s \in Slots : cs[s] # None /\ cs[s].op = "note" /\ cs[s].acc = Active => ~cs[s].own
  <2> SUFFICES ASSUME NEW s \in Slots, calls[s] # None, cs[s].op = "note", cs[s].acc = Active PROVE ~cs[s].own
    BY <1>17
  <2>1. s \in others
    BY <1>16 DEF others, Like
  <2>2. ~[calls[s] EXCEPT !.own = FALSE].own
    BY <1>1, CallFields DEF CallsType
  <2> QED BY <2>1, <2>2
<1> HIDE DEF cs
<1>22. k \in OnScreen
  BY DEF SaveNote, OnScreen, Screen, AccountGate, DaysScreen, PeriodNotes
<1>20. NoteOf(c, cs, d)
  BY <1>22, <1>8, <1>9, <1>10, <1>14, <1>19 DEF NoteOf, Fetching
<1>21. \E s \in Slots : Started(d, cs, s, c)
  BY <1>3, <1>11, <1>14, <1>15, <1>18, StartStep
<1> QED BY <1>14, <1>20, <1>21

\* Everything the user does has one of these shapes.
LEMMA UserCases ==
    ASSUME UserActs
    PROVE  \/ Screens
           \/ Plain
           \/ \E p \in Periods, text \in Notes : SaveNote(p, text)
           \/ \E i \in 1..4, delta \in {-1, 1} : Move(i, delta)
BY DEF UserActs, Screens, Plain

-----------------------------------------------------------------------------
(* The server                                                              *)

\* The effect of a request, by operation.
LEMMA AfterIs ==
    ASSUME NEW c
    PROVE  /\ c.op \in {"trade", "import"} => After(c) = [srv EXCEPT !.trades[c.acc] = @ + 1]
           /\ c.op = "flow" => After(c) = [srv EXCEPT !.flows[c.acc] = @ + 1]
           /\ c.op = "account" => After(c) = [srv EXCEPT !.settings[c.acc] = @ + 1]
           /\ c.op = "newAccount" => After(c) = [srv EXCEPT !.list = Append(@, CHOOSE x \in Accounts : x \notin ToSet(@))]
           /\ c.op = "note" => After(c) = [srv EXCEPT !.notes[c.acc][c.arg] = c.text]
           /\ c.op = "reorder" => After(c) = [srv EXCEPT !.templates = c.list]
           /\ c.op = "template" /\ c.id = 0
                => After(c) = [srv EXCEPT !.templates = Append(@, srv.lastId + 1), !.lastId = @ + 1]
           /\ c.op = "template" /\ c.id # 0 => After(c) = [srv EXCEPT !.templates = Without(@, c.id)]
<1>1. c.op \in {"trade", "import"} => After(c) = [srv EXCEPT !.trades[c.acc] = @ + 1]
  BY DEF After
<1>2. c.op = "flow" => After(c) = [srv EXCEPT !.flows[c.acc] = @ + 1]
  BY DEF After
<1>3. c.op = "account" => After(c) = [srv EXCEPT !.settings[c.acc] = @ + 1]
  BY DEF After
<1>4. c.op = "newAccount" => After(c) = [srv EXCEPT !.list = Append(@, CHOOSE x \in Accounts : x \notin ToSet(@))]
  BY DEF After
<1>5. c.op = "note" => After(c) = [srv EXCEPT !.notes[c.acc][c.arg] = c.text]
  BY DEF After
<1>6. c.op = "reorder" => After(c) = [srv EXCEPT !.templates = c.list]
  BY DEF After
<1>7. c.op = "template" /\ c.id = 0
                => After(c) = [srv EXCEPT !.templates = Append(@, srv.lastId + 1), !.lastId = @ + 1]
  BY DEF After
<1>8. c.op = "template" /\ c.id # 0 => After(c) = [srv EXCEPT !.templates = Without(@, c.id)]
  BY DEF After
<1> QED BY <1>1, <1>2, <1>3, <1>4, <1>5, <1>6, <1>7, <1>8

\* A list without one of its elements: the others, in their order.
LEMMA WithoutIs ==
    ASSUME NEW l \in Seq(Nat), NEW id \in ToSet(l)
    PROVE  \E i \in 1..Len(l) :
              /\ l[i] = id
              /\ Without(l, id) \in Seq(Nat) /\ Len(Without(l, id)) = Len(l) - 1
              /\ \A j \in 1..(Len(l) - 1) : Without(l, id)[j] = IF j < i THEN l[j] ELSE l[j + 1]
<1> DEFINE i == CHOOSE i \in DOMAIN l : l[i] = id
           a == SubSeq(l, 1, i - 1)
           b == SubSeq(l, i + 1, Len(l))
<1>1. i \in 1..Len(l) /\ l[i] = id
  BY DEF ToSet
<1>2. Without(l, id) = a \o b
  BY DEF Without, RemoveAt
<1> HIDE DEF i
<1>3. a \in Seq(Nat) /\ Len(a) = i - 1 /\ \A j \in 1..(i - 1) : a[j] = l[j]
  BY <1>1
<1>4. b \in Seq(Nat) /\ Len(b) = Len(l) - i /\ \A j \in 1..(Len(l) - i) : b[j] = l[i + j]
  BY <1>1
<1> HIDE DEF a, b
<1>5. a \o b \in Seq(Nat) /\ Len(a \o b) = Len(a) + Len(b)
      /\ \A j \in 1..(Len(a) + Len(b)) : (a \o b)[j] = IF j <= Len(a) THEN a[j] ELSE b[j - Len(a)]
  BY <1>3, <1>4, ConcatProperties
<1> DEFINE r == a \o b
<1> HIDE DEF r
<1>6. r \in Seq(Nat) /\ Len(r) = Len(l) - 1 /\ \A j \in 1..(Len(l) - 1) : r[j] = IF j <= i - 1 THEN a[j] ELSE b[j - (i - 1)]
  <2>1. r = a \o b
    BY DEF r
  <2>2. Len(l) \in Nat /\ i \in Int /\ Len(a) = i - 1 /\ Len(b) = Len(l) - i
    BY <1>1, <1>3, <1>4
  <2>3. Len(a) + Len(b) = Len(l) - 1
    BY <2>2
  <2> QED BY <1>5, <2>1, <2>2, <2>3, Zenon
<1>7. \A j \in 1..(Len(l) - 1) : r[j] = IF j < i THEN l[j] ELSE l[j + 1]
  <2> SUFFICES ASSUME NEW j \in 1..(Len(l) - 1) PROVE r[j] = IF j < i THEN l[j] ELSE l[j + 1]
    OBVIOUS
  <2>1. CASE j < i
    BY <1>1, <1>3, <1>6, <2>1
  <2>2. CASE ~(j < i)
    <3>1. j - (i - 1) \in 1..(Len(l) - i) /\ i + (j - (i - 1)) = j + 1
      BY <1>1, <2>2
    <3>2. r[j] = b[j - (i - 1)]
      BY <1>1, <1>6, <2>2
    <3> QED BY <1>4, <2>2, <3>1, <3>2
  <2> QED BY <2>1, <2>2
<1> QED BY <1>1, <1>2, <1>6, <1>7 DEF r

\* A database with one of its tables changed.
LEMMA SrvWith ==
    ASSUME NEW z, z \in SrvType
    PROVE  /\ \A x \in Seq(Accounts) : [z EXCEPT !.list = x] \in SrvType
           /\ \A x \in [Accounts -> Nat] : /\ [z EXCEPT !.settings = x] \in SrvType
                                          /\ [z EXCEPT !.trades = x] \in SrvType
                                          /\ [z EXCEPT !.flows = x] \in SrvType
           /\ \A x \in [Accounts -> [Periods -> Notes]] : [z EXCEPT !.notes = x] \in SrvType
           /\ \A x \in Seq(Nat) : [z EXCEPT !.templates = x] \in SrvType
           /\ \A x \in Nat : [z EXCEPT !.lastId = x] \in SrvType
<1>1. \A x \in Seq(Accounts) : [z EXCEPT !.list = x] \in SrvType
  BY DEF SrvType
<1>2. \A x \in [Accounts -> Nat] : [z EXCEPT !.settings = x] \in SrvType
  BY DEF SrvType
<1>3. \A x \in [Accounts -> Nat] : [z EXCEPT !.trades = x] \in SrvType
  BY DEF SrvType
<1>4. \A x \in [Accounts -> Nat] : [z EXCEPT !.flows = x] \in SrvType
  BY DEF SrvType
<1>5. \A x \in [Accounts -> [Periods -> Notes]] : [z EXCEPT !.notes = x] \in SrvType
  BY DEF SrvType
<1>6. \A x \in Seq(Nat) : [z EXCEPT !.templates = x] \in SrvType
  BY DEF SrvType
<1>7. \A x \in Nat : [z EXCEPT !.lastId = x] \in SrvType
  BY DEF SrvType
<1> QED BY <1>1, <1>2, <1>3, <1>4, <1>5, <1>6, <1>7

\* The tables of the database.
LEMMA SrvFields ==
    ASSUME NEW z, z \in SrvType
    PROVE  /\ z.list \in Seq(Accounts) /\ z.settings \in [Accounts -> Nat] /\ z.trades \in [Accounts -> Nat]
           /\ z.flows \in [Accounts -> Nat] /\ z.notes \in [Accounts -> [Periods -> Notes]]
           /\ z.templates \in Seq(Nat) /\ z.lastId \in Nat
BY DEF SrvType

\* A request that takes effect leaves a database.
LEMMA AfterTyped ==
    ASSUME srv \in SrvType, NEW c \in Requests, OfOp(c), Accepts(c)
    PROVE  After(c) \in SrvType
<1>0. /\ srv.list \in Seq(Accounts) /\ srv.settings \in [Accounts -> Nat] /\ srv.trades \in [Accounts -> Nat]
      /\ srv.flows \in [Accounts -> Nat] /\ srv.notes \in [Accounts -> [Periods -> Notes]]
      /\ srv.templates \in Seq(Nat) /\ srv.lastId \in Nat
  BY SrvFields
<1>1. CASE c.op \in {"trade", "import", "flow", "account"}
  <2>1. c.acc \in Accounts
    BY <1>1 DEF OfOp
  <2> DEFINE t == [srv.trades EXCEPT ![c.acc] = @ + 1]
             f == [srv.flows EXCEPT ![c.acc] = @ + 1]
             g == [srv.settings EXCEPT ![c.acc] = @ + 1]
  <2>2. t \in [Accounts -> Nat] /\ f \in [Accounts -> Nat] /\ g \in [Accounts -> Nat]
    BY <1>0, <2>1
  <2>3. \/ After(c) = [srv EXCEPT !.trades = t]
        \/ After(c) = [srv EXCEPT !.flows = f]
        \/ After(c) = [srv EXCEPT !.settings = g]
    BY <1>1, AfterIs
  <2> HIDE DEF t, f, g
  <2>4. [srv EXCEPT !.trades = t] \in SrvType
    BY <2>2, SrvWith
  <2>5. [srv EXCEPT !.flows = f] \in SrvType
    BY <2>2, SrvWith
  <2>6. [srv EXCEPT !.settings = g] \in SrvType
    BY <2>2, SrvWith
  <2> QED BY <2>3, <2>4, <2>5, <2>6
<1>2. CASE c.op = "newAccount"
  <2>1. Accounts # ToSet(srv.list)
    BY <1>2 DEF Accepts
  <2>2. ToSet(srv.list) \subseteq Accounts
    BY <1>0 DEF ToSet
  <2> DEFINE new == CHOOSE x \in Accounts : x \notin ToSet(srv.list)
  <2>3. new \in Accounts
    BY <2>1, <2>2
  <2> DEFINE l == Append(srv.list, new)
  <2>4. After(c) = [srv EXCEPT !.list = l]
    BY <1>2, AfterIs
  <2> HIDE DEF new
  <2>5. l \in Seq(Accounts)
    BY <1>0, <2>3
  <2> HIDE DEF l
  <2> QED BY <2>4, <2>5, SrvWith
<1>3. CASE c.op = "note"
  <2>1. c.acc \in Accounts /\ c.arg \in Periods /\ c.text \in Notes
    BY <1>3 DEF OfOp, Requests
  <2> DEFINE n == [srv.notes EXCEPT ![c.acc] = [@ EXCEPT ![c.arg] = c.text]]
  <2>2. After(c) = [srv EXCEPT !.notes = n]
    BY <1>3, AfterIs
  <2>3. n \in [Accounts -> [Periods -> Notes]]
    BY <1>0, <2>1
  <2> HIDE DEF n
  <2> QED BY <2>2, <2>3, SrvWith
<1>4. CASE c.op = "reorder"
  <2>1. c.list \in Seq(Nat)
    BY DEF Requests
  <2>2. After(c) = [srv EXCEPT !.templates = c.list]
    BY <1>4, AfterIs
  <2> QED BY <2>1, <2>2, SrvWith
<1>5. CASE c.op = "template" /\ c.id = 0
  <2> DEFINE l == Append(srv.templates, srv.lastId + 1)
             i == srv.lastId + 1
             z == [srv EXCEPT !.templates = l]
  <2>1. l \in Seq(Nat) /\ i \in Nat
    BY <1>0
  <2>2. After(c) = [z EXCEPT !.lastId = i]
    BY <1>5, AfterIs
  <2> HIDE DEF l, i
  <2>3. z \in SrvType
    BY <2>1, SrvWith
  <2> HIDE DEF z
  <2> QED BY <2>1, <2>2, <2>3, SrvWith
<1>6. CASE c.op = "template" /\ c.id # 0
  <2>1. c.id \in ToSet(srv.templates)
    BY <1>6 DEF Accepts
  <2>2. Without(srv.templates, c.id) \in Seq(Nat)
    BY <1>0, <2>1, WithoutIs
  <2>3. After(c) = [srv EXCEPT !.templates = Without(srv.templates, c.id)]
    BY <1>6, AfterIs
  <2> QED BY <2>2, <2>3, SrvWith
<1> QED BY <1>1, <1>2, <1>3, <1>4, <1>5, <1>6 DEF Requests

\* Only the keys that `Changed` names have another value after c.
LEMMA ValueKept ==
    ASSUME srv \in SrvType, NEW c \in Requests, OfOp(c), srv' = After(c), NEW k \in Keys, k \notin Changed(c)
    PROVE  Value(k)' = Value(k)
<1> DEFINE a == c.acc
<1>1. CASE c.op \in {"trade", "import"}
  <2>1. a \in Accounts /\ srv' = [srv EXCEPT !.trades[a] = @ + 1]
    BY <1>1, AfterIs DEF OfOp
  <2>2. /\ srv'.list = srv.list /\ srv'.settings = srv.settings /\ srv'.flows = srv.flows /\ srv'.notes = srv.notes
        /\ srv'.templates = srv.templates /\ \A b \in Accounts \ {a} : srv'.trades[b] = srv.trades[b]
    BY <2>1 DEF SrvType
  <2>3. k[1] \in Kinds \ {"flows", "notes"} /\ k = <<k[1], k[2]>> => k[2] # a
    BY <1>1 DEF Changed, TradesAll, StatsAll, ChartsAll, PeriodsAll, Trash, Kinds
  <2> QED BY <2>2, <2>3, KeyCases DEF Value, Kinds, AccountsKey, TemplatesKey
<1>2. CASE c.op = "flow"
  <2>1. a \in Accounts /\ srv' = [srv EXCEPT !.flows[a] = @ + 1]
    BY <1>2, AfterIs DEF OfOp
  <2>2. /\ srv'.list = srv.list /\ srv'.settings = srv.settings /\ srv'.trades = srv.trades /\ srv'.notes = srv.notes
        /\ srv'.templates = srv.templates /\ \A b \in Accounts \ {a} : srv'.flows[b] = srv.flows[b]
    BY <2>1 DEF SrvType
  <2>3. k[1] \in {"flows", "stats"} /\ k = <<k[1], k[2]>> => k[2] # a
    BY <1>2 DEF Changed, StatsAll, CashFlows
  <2> QED BY <2>2, <2>3, KeyCases DEF Value, Kinds, AccountsKey, TemplatesKey
<1>3. CASE c.op = "account"
  <2>1. a \in Accounts /\ srv' = [srv EXCEPT !.settings[a] = @ + 1]
    BY <1>3, AfterIs DEF OfOp
  <2>2. /\ srv'.list = srv.list /\ srv'.flows = srv.flows /\ srv'.trades = srv.trades /\ srv'.notes = srv.notes
        /\ srv'.templates = srv.templates /\ \A b \in Accounts \ {a} : srv'.settings[b] = srv.settings[b]
    BY <2>1 DEF SrvType
  <2>3. k # AccountsKey /\ (k[1] \in Kinds \ {"flows", "notes"} /\ k = <<k[1], k[2]>> => k[2] # a)
    <3>1. k \notin {AccountsKey} /\ k \notin OfAccount(a) \ (CashFlows(a) \cup PeriodNotes(a))
      BY <1>3 DEF Changed
    <3>2. k = <<k[1], a>> /\ k[1] \in Kinds \ {"flows", "notes"} => k \in OfAccount(a) \ (CashFlows(a) \cup PeriodNotes(a))
      BY DEF OfAccount, TradesAll, StatsAll, ChartsAll, PeriodsAll, Trash, CashFlows, PeriodNotes, Kinds
    <3> QED BY <3>1, <3>2
  <2> QED BY <2>2, <2>3, KeyCases DEF Value, Kinds, AccountsKey, TemplatesKey
<1>4. CASE c.op = "newAccount"
  <2>1. srv' = [srv EXCEPT !.list = Append(@, CHOOSE x \in Accounts : x \notin ToSet(@))]
    BY <1>4, AfterIs
  <2>2. /\ srv'.settings = srv.settings /\ srv'.flows = srv.flows /\ srv'.trades = srv.trades /\ srv'.notes = srv.notes
        /\ srv'.templates = srv.templates
    BY <2>1 DEF SrvType
  <2>3. k # AccountsKey
    BY <1>4 DEF Changed
  <2> QED BY <2>2, <2>3, KeyCases DEF Value, Kinds, AccountsKey, TemplatesKey
<1>5. CASE c.op = "note"
  <2>1. a \in Accounts /\ srv' = [srv EXCEPT !.notes[a][c.arg] = c.text]
    BY <1>5, AfterIs DEF OfOp
  <2>2. /\ srv'.list = srv.list /\ srv'.flows = srv.flows /\ srv'.trades = srv.trades /\ srv'.settings = srv.settings
        /\ srv'.templates = srv.templates /\ \A b \in Accounts \ {a} : srv'.notes[b] = srv.notes[b]
    BY <2>1 DEF SrvType
  <2>3. k[1] = "notes" /\ k = <<k[1], k[2]>> => k[2] # a
    BY <1>5 DEF Changed, PeriodNotes
  <2> QED BY <2>2, <2>3, KeyCases DEF Value, Kinds, AccountsKey, TemplatesKey
<1>6. CASE c.op \in {"reorder", "template"}
  <2>1. k # TemplatesKey
    BY <1>6 DEF Changed
  <2>2. srv'.list = srv.list /\ srv'.flows = srv.flows /\ srv'.trades = srv.trades /\ srv'.settings = srv.settings /\ srv'.notes = srv.notes
    <3>1. \/ srv' = [srv EXCEPT !.templates = c.list]
          \/ srv' = [srv EXCEPT !.templates = Append(@, srv.lastId + 1), !.lastId = @ + 1]
          \/ srv' = [srv EXCEPT !.templates = Without(@, c.id)]
      BY <1>6, AfterIs
    <3> QED BY <3>1 DEF SrvType
  <2> QED BY <2>1, <2>2, KeyCases DEF Value, Kinds, AccountsKey, TemplatesKey
<1> QED BY <1>1, <1>2, <1>3, <1>4, <1>5, <1>6 DEF Requests

\* What a key is worth depends on the database alone.
LEMMA ValueSame ==
    ASSUME srv' = srv, NEW k
    PROVE  Value(k)' = Value(k)
BY DEF Value

-----------------------------------------------------------------------------
(* Sweeps and answers                                                      *)

\* What a sweep does to an entry.
LEMMA InvalidEntry ==
    ASSUME NEW d, CacheOf(d), NEW K, NEW screen, NEW k \in Keys, NEW i, i = Invalidate(d, K, screen)[k]
    PROVE  /\ i \in Entries(k) /\ i.data = d[k].data
           /\ k \notin K \/ d[k] = NoEntry => i = d[k]
           /\ k \in K /\ d[k] # NoEntry => i.inval
           /\ i = d[k] \/ i.fetch = "asked" \/ (i.fetch = d[k].fetch /\ i.reply = d[k].reply)
           /\ k \in K /\ k \in screen /\ d[k] # NoEntry /\ (d[k].data # None \/ ~Fetching(d[k])) => i.fetch = "asked"
<1> DEFINE e == d[k]
           m == [e EXCEPT !.inval = TRUE]
<1>1. e \in Entries(k)
  BY DEF CacheOf
<1>2. i = IF k \notin K \/ e = NoEntry THEN e
          ELSE IF k \in screen /\ (e.data # None \/ ~Fetching(e)) THEN Asked(m) ELSE m
  BY DEF Invalidate
<1> HIDE DEF e
<1>3. m \in Entries(k) /\ m.inval /\ m.data = e.data /\ m.fetch = e.fetch /\ m.reply = e.reply
  BY <1>1, MarkFields
<1> HIDE DEF m
<1>4. Asked(m) \in Entries(k) /\ Asked(m).inval /\ Asked(m).data = e.data /\ Asked(m).fetch = "asked"
  BY <1>3, EntryFields
<1>5. i \in Entries(k) /\ i.data = e.data
  BY <1>1, <1>2, <1>3, <1>4
<1>6. k \in K /\ e # NoEntry => i.inval
  BY <1>2, <1>3, <1>4
<1>7. i = e \/ i.fetch = "asked" \/ (i.fetch = e.fetch /\ i.reply = e.reply)
  BY <1>2, <1>3, <1>4
<1> QED BY <1>2, <1>4, <1>5, <1>6, <1>7 DEF e

\* A cache that is swept is a cache.
LEMMA InvalidCache ==
    ASSUME NEW d, CacheOf(d), NEW K, NEW screen
    PROVE  CacheOf(Invalidate(d, K, screen))
BY InvalidEntry DEF CacheOf, Invalidate

\* What a note that failed puts back.
LEMMA RolledBack ==
    ASSUME CacheOf(cache), NEW c \in Requests, OfOp(c), c.op = "note"
    PROVE  LET k == <<"notes", c.hook>> d == RollBack(c) IN
           /\ CacheOf(d) /\ k \in Keys /\ \A j \in Keys \ {k} : d[j] = cache[j]
           /\ d[k].fetch = cache[k].fetch /\ d[k].reply = cache[k].reply
           /\ d[k] = cache[k] \/ d[k].data # None
<1> DEFINE k == <<"notes", c.hook>>
           d == RollBack(c)
<1>1. c.hook \in Accounts /\ c.prev \in [Periods -> Notes] \cup {None}
  BY DEF OfOp, Requests
<1>2. k \in Keys /\ Answers(k) = [Periods -> Notes]
  BY <1>1, KeysOfAccount, AnswersAre DEF Kinds
<1>3. cache[k] \in Entries(k)
  BY <1>2 DEF CacheOf
<1>4. CASE c.prev = None
  <2>1. d = cache
    BY <1>4 DEF RollBack
  <2> QED BY <1>2, <2>1
<1>5. CASE c.prev # None
  <2>1. /\ d[k] = [[cache[k] EXCEPT !.data = c.prev] EXCEPT !.inval = FALSE]
        /\ DOMAIN d = Keys /\ \A j \in Keys \ {k} : d[j] = cache[j]
    BY <1>2, <1>5 DEF RollBack, SetData, CacheOf
  <2> HIDE DEF d
  <2>2. d[k] \in Entries(k) /\ d[k].fetch = cache[k].fetch /\ d[k].reply = cache[k].reply /\ d[k].data = c.prev
    BY <1>1, <1>2, <1>3, <2>1 DEF Entries
  <2>3. CacheOf(d)
    BY <2>1, <2>2 DEF CacheOf
  <2>4. d[k].data # None
    BY <1>5, <2>2
  <2> HIDE DEF k
  <2>5. CacheOf(d) /\ k \in Keys /\ (\A j \in Keys \ {k} : d[j] = cache[j])
           /\ d[k].fetch = cache[k].fetch /\ d[k].reply = cache[k].reply
           /\ (d[k] = cache[k] \/ d[k].data # None)
    BY <1>2, <2>1, <2>2, <2>3, <2>4
  <2> QED BY <2>5 DEF d, k
<1> QED BY <1>4, <1>5

\* The cache once the answer to c has been dealt with: what it failed to do is
\* undone, and a sweep.
Undone(c, failed) == IF failed /\ c.op = "note" THEN RollBack(c) ELSE cache
Dealt(c, failed) == IF failed /\ c.op # "note" THEN cache ELSE Swept(c, Undone(c, failed))

\* An answer: mutation c of slot s ends, or (a change of order) settles.
Ended(s, c, failed) ==
    /\ s \in Slots /\ c = calls[s] /\ c # None
    /\ CacheOf(Dealt(c, failed)) /\ Rendered(Dealt(c, failed))
    /\ \E x \in {None, [c EXCEPT !.phase = "settling"]} :
        /\ calls' = StillOwn([calls EXCEPT ![s] = x])
        /\ c.op = "reorder" /\ (c.phase = "committed" \/ ~failed) /\ x = None => LastOrder \in missed'
        /\ x # None => ~failed /\ c.op = "reorder" /\ TemplatesKey \in OnScreen
    /\ failed => /\ c.phase \in {"sent", "refused", "committed"}
                 /\ (c.op = "note" /\ c.hook = c.acc) \/ Cached(Changed(c)) \subseteq missed'
    /\ ~failed => /\ c.phase = "committed"
                  /\ c.hook = c.acc \/ Cached(Changed(c)) \subseteq missed'
                  /\ c.op = "import" => Cached(PeriodsAll(c.acc)) \subseteq missed'
    /\ (failed /\ c.op # "note") \/ Overtaken(cache, Sweep(c), OnScreen) \subseteq missed'
    /\ missed \subseteq missed'
    /\ LastOrder \in missed' => LastOrder \in missed \/ c.op = "reorder"
    /\ missed' \subseteq missed \cup Keys \cup {LastOrder}
    /\ srv' = srv

\* What a call changes and what it sweeps are keys.
LEMMA ChangedKeys ==
    ASSUME NEW c \in Requests, OfOp(c)
    PROVE  Changed(c) \subseteq Keys /\ (c.hook \in Accounts \/ c.op \in {"newAccount", "reorder", "template"} => Sweep(c) \subseteq Keys)
<1>1. CASE c.op \in {"newAccount", "reorder", "template"}
  BY <1>1, FixedKeys DEF Changed, Sweep, Keys
<1>2. CASE c.op \notin {"newAccount", "reorder", "template"}
  <2>1. c.acc \in Accounts /\ c.hook \in Accounts
    BY <1>2 DEF OfOp
  <2>2. \A a \in Accounts : OfAccount(a) \subseteq Keys
    BY DEF Keys, AllAccounts
  <2>3. AllAccounts \subseteq Keys
    BY DEF Keys
  <2>4. Changed(c) \subseteq Keys
    <3>1. Changed(c) \subseteq {AccountsKey} \cup OfAccount(c.acc)
      BY <1>2 DEF Changed, OfAccount, Requests
    <3> QED BY <2>1, <2>2, <3>1, FixedKeys
  <2>5. Sweep(c) \subseteq Keys
    <3>1. Sweep(c) \subseteq AllAccounts \cup OfAccount(c.hook)
      BY <1>2 DEF Sweep, OfAccount, Requests, Refresh, ImportRefresh, FlowRefresh
    <3> QED BY <2>1, <2>2, <2>3, <3>1
  <2> QED BY <2>4, <2>5
<1> QED BY <1>1, <1>2

\* A call in another phase.
LEMMA PhaseTyped ==
    ASSUME NEW c \in Requests, NEW phase \in {"sent", "committed", "refused", "settling"},
           NEW x, x = [c EXCEPT !.phase = phase]
    PROVE  /\ x \in Requests /\ x # None /\ x.phase = phase /\ x.op = c.op /\ x.own = c.own /\ x.acc = c.acc
           /\ x.list = c.list /\ x.arg = c.arg /\ x.text = c.text /\ x.blind = c.blind
           /\ (OfOp(c) => OfOp(x)) /\ Changed(x) = Changed(c)
<1>1. /\ x \in Requests /\ x.phase = phase /\ x.op = c.op /\ x.own = c.own /\ x.acc = c.acc
      /\ x.list = c.list /\ x.arg = c.arg /\ x.text = c.text /\ x.hook = c.hook /\ x.home = c.home
      /\ x.blind = c.blind
  BY DEF Requests
<1>2. x # None
  BY <1>1, NoneAssumption
<1>3. Changed(x) = Changed(c)
  BY <1>1 DEF Changed
<1> QED BY <1>1, <1>2, <1>3 DEF OfOp

\* A mutation succeeds.
LEMMA SucceedStep ==
    ASSUME TypeOK, CallsInv, NEW s \in Slots, Succeed(s)
    PROVE  Ended(s, calls[s], FALSE)
<1> DEFINE c == calls[s]
           waits == c.op = "reorder" /\ TemplatesKey \in OnScreen
           u == IF c.op = "import" /\ c.home = "import" THEN [ui EXCEPT !.file = "none"] ELSE ui
           x == IF waits THEN [c EXCEPT !.phase = "settling"] ELSE None
           more == Cached((IF c.op = "import" THEN PeriodsAll(c.acc) ELSE {})
                          \cup (IF c.hook # c.acc THEN Changed(c) ELSE {}))
           last == IF c.op = "reorder" /\ ~waits THEN {LastOrder} ELSE {}
           over == Overtaken(cache, Sweep(c), OnScreen)
<1>1. /\ CacheOf(cache) /\ ui \in UiType /\ stored \in AccountsOrNone /\ calls \in CallsType
  BY Typed
<1>2. /\ c # None /\ c.phase = "committed" /\ Render(u, Swept(c, cache), stored, [calls EXCEPT ![s] = x])
      /\ missed' = missed \cup over \cup more \cup last /\ srv' = srv
  BY DEF Succeed
<1>3. c \in Requests /\ OfOp(c)
  BY <1>1, <1>2 DEF CallsType, CallsInv
<1>4. u \in UiType
  BY <1>1 DEF UiType
<1>5. CacheOf(Swept(c, cache))
  BY <1>1, InvalidCache DEF Swept
<1>6. Changed(c) \subseteq Keys /\ Sweep(c) \subseteq Keys
  BY <1>3, ChangedKeys DEF OfOp
<1>7. Cached(Changed(c)) \subseteq Keys /\ (c.op = "import" => Cached(PeriodsAll(c.acc)) \subseteq Keys)
  <2>1. c.op = "import" => PeriodsAll(c.acc) \subseteq Changed(c)
    BY DEF Changed
  <2> QED BY <1>6, <2>1 DEF Cached
<1>8. over \subseteq Keys
  BY <1>6 DEF Overtaken
<1> HIDE DEF c, u
<1>9. Rendered(Swept(c, cache)) /\ calls' = StillOwn([calls EXCEPT ![s] = x])
  BY <1>1, <1>2, <1>4, <1>5, RenderEffect
<1>10. Dealt(c, FALSE) = Swept(c, cache)
  BY DEF Dealt, Undone
<1>11. more \subseteq Keys
  BY <1>6, <1>7 DEF Cached
<1>12. /\ c.hook = c.acc \/ Cached(Changed(c)) \subseteq more
       /\ c.op = "import" => Cached(PeriodsAll(c.acc)) \subseteq more
  BY DEF Cached
<1> HIDE DEF more, over
<1>13. /\ LastOrder \in missed' => LastOrder \in missed \/ c.op = "reorder"
       /\ missed' \subseteq missed \cup Keys \cup {LastOrder}
  BY <1>2, <1>8, <1>11, FixedKeys
<1>14. /\ x \in {None, [c EXCEPT !.phase = "settling"]}
       /\ c.op = "reorder" /\ x = None => LastOrder \in missed'
       /\ x # None => c.op = "reorder" /\ TemplatesKey \in OnScreen
  <2>1. [c EXCEPT !.phase = "settling"] # None
    BY <1>3, PhaseTyped
  <2> QED BY <1>2, <2>1
<1> QED BY <1>2, <1>5, <1>9, <1>10, <1>12, <1>13, <1>14 DEF Ended, c, over

\* A mutation fails.
LEMMA FailStep ==
    ASSUME TypeOK, CallsInv, NEW s \in Slots, Fail(s)
    PROVE  Ended(s, calls[s], TRUE)
<1> DEFINE c == calls[s]
           d == IF c.op = "note" THEN Swept(c, RollBack(c)) ELSE cache
           more == Cached(IF c.op = "note" /\ c.hook = c.acc THEN {} ELSE Changed(c))
           last == IF c.op = "reorder" /\ c.phase = "committed" THEN {LastOrder} ELSE {}
           over == IF c.op = "note" THEN Overtaken(cache, Sweep(c), OnScreen) ELSE {}
<1>1. /\ CacheOf(cache) /\ ui \in UiType /\ stored \in AccountsOrNone /\ calls \in CallsType
  BY Typed
<1>2. /\ c # None /\ c.phase \in {"sent", "refused", "committed"}
      /\ Render(ui, d, stored, [calls EXCEPT ![s] = None])
      /\ missed' = missed \cup over \cup more \cup last /\ srv' = srv
  BY DEF Fail
<1>3. c \in Requests /\ OfOp(c)
  BY <1>1, <1>2 DEF CallsType, CallsInv
<1>4. CacheOf(d)
  BY <1>1, <1>3, RolledBack, InvalidCache DEF Swept
<1>5. Changed(c) \subseteq Keys /\ Sweep(c) \subseteq Keys
  BY <1>3, ChangedKeys DEF OfOp
<1>6. more \subseteq Keys
  BY <1>5 DEF Cached
<1>7. over \subseteq Keys
  BY <1>5 DEF Overtaken
<1>8. (c.op = "note" /\ c.hook = c.acc) \/ Cached(Changed(c)) \subseteq more
  OBVIOUS
<1>9. d = Dealt(c, TRUE)
  BY DEF Dealt, Undone
<1> HIDE DEF c, d
<1>10. Rendered(d) /\ calls' = StillOwn([calls EXCEPT ![s] = None])
  BY <1>1, <1>2, <1>4, RenderEffect
<1> HIDE DEF more
<1>11. /\ LastOrder \in missed' => LastOrder \in missed \/ c.op = "reorder"
       /\ missed' \subseteq missed \cup Keys \cup {LastOrder}
  BY <1>2, <1>6, <1>7, FixedKeys
<1>12. c.op # "note" \/ Overtaken(cache, Sweep(c), OnScreen) \subseteq missed'
  BY <1>2
<1> HIDE DEF over
<1>13. /\ (c.op = "reorder" /\ c.phase = "committed" => LastOrder \in missed')
       /\ missed \subseteq missed'
  BY <1>2
<1>14. c.op = "reorder" /\ c.phase = "committed" => LastOrder \in missed'
  BY <1>13
<1> QED BY <1>2, <1>4, <1>8, <1>9, <1>10, <1>11, <1>12, <1>13 DEF Ended, c

-----------------------------------------------------------------------------
(* Loads                                                                   *)

\* Only a change of order that settles leaves when the templates are loaded.
LEMMA LoadedGoes ==
    ASSUME calls \in CallsType, NEW K
    PROVE  /\ Loaded(calls, K) \in CallsType
           /\ \A s \in Slots : Loaded(calls, K)[s] \in {None, calls[s]}
           /\ \A s \in Slots : calls[s] # None /\ Loaded(calls, K)[s] = None
                => calls[s].phase = "settling" /\ TemplatesKey \in K
BY DEF Loaded, CallsType

\* Answers to the loads of K: the cache is d, and who settled is done.
Answered(d, K) ==
    /\ CacheOf(d) /\ Rendered(d) /\ calls' = StillOwn(Loaded(calls, K)) /\ srv' = srv
    /\ \A k \in Keys \ K : d[k] = cache[k]

\* All that is asked for is loaded, but for one load.
LEMMA LoadStep ==
    ASSUME TypeOK, NEW late, Load(late)
    PROVE  \E d, K : /\ Answered(d, K) /\ K = AskedKeys \ {late}
                     /\ \A k \in K : d[k] = Fresh(Value(k))
                     /\ missed' = missed \ (K \cup OrderOf(K))
<1> DEFINE K == AskedKeys \ {late}
           d == [k \in Keys |-> IF k \in K THEN Fresh(Value(k)) ELSE cache[k]]
<1>1. /\ CacheOf(cache) /\ ui \in UiType /\ stored \in AccountsOrNone /\ srv \in SrvType
  BY Typed
<1>2. Render(ui, d, stored, Loaded(calls, K)) /\ srv' = srv /\ missed' = missed \ (K \cup OrderOf(K))
  BY DEF Load
<1>3. CacheOf(d)
  BY <1>1, ValueTyped, FreshTyped DEF CacheOf
<1>4. (\A k \in K : d[k] = Fresh(Value(k))) /\ \A k \in Keys \ K : d[k] = cache[k]
  BY DEF AskedKeys
<1> HIDE DEF d, K
<1>5. Rendered(d) /\ calls' = StillOwn(Loaded(calls, K))
  BY <1>1, <1>2, <1>3, RenderEffect
<1>6. Answered(d, K)
  BY <1>2, <1>3, <1>4, <1>5 DEF Answered
<1> QED BY <1>2, <1>4, <1>6 DEF K

\* The late answer comes.
LEMMA ArriveStep ==
    ASSUME TypeOK, NEW k \in Keys, Arrive(k)
    PROVE  /\ cache[k].fetch = "served"
           /\ \E d : Answered(d, {k}) /\ d[k] = Fresh(cache[k].reply)
           /\ missed' = IF k \in missed THEN missed \cup OrderOf({k}) ELSE missed \ OrderOf({k})
<1> DEFINE d == [cache EXCEPT ![k] = Fresh(cache[k].reply)]
<1>1. /\ CacheOf(cache) /\ ui \in UiType /\ stored \in AccountsOrNone
  BY Typed
<1>2. /\ cache[k].fetch = "served" /\ Render(ui, d, stored, Loaded(calls, {k})) /\ srv' = srv
      /\ missed' = IF k \in missed THEN missed \cup OrderOf({k}) ELSE missed \ OrderOf({k})
  BY DEF Arrive
<1>3. cache[k] \in Entries(k) /\ DOMAIN cache = Keys
  BY <1>1 DEF CacheOf
<1>4. Fresh(cache[k].reply) \in Entries(k)
  <2>1. cache[k].reply \in Answers(k) \cup {None}
    BY <1>3 DEF Entries
  <2> QED BY <2>1, FreshTyped
<1>5. /\ d[k] = Fresh(cache[k].reply) /\ \A j \in Keys \ {k} : d[j] = cache[j]
      /\ DOMAIN d = Keys
  BY <1>3
<1> HIDE DEF d
<1>6. CacheOf(d)
  BY <1>1, <1>4, <1>5 DEF CacheOf
<1>7. Rendered(d) /\ calls' = StillOwn(Loaded(calls, {k}))
  BY <1>1, <1>2, <1>6, RenderEffect
<1>8. Answered(d, {k})
  BY <1>2, <1>5, <1>6, <1>7 DEF Answered
<1> QED BY <1>2, <1>5, <1>8

\* A load fails.
LEMMA FailLoadStep ==
    ASSUME TypeOK, NEW k \in Keys, FailLoad(k)
    PROVE  /\ cache[k].fetch = "asked"
           /\ \E d : /\ Answered(d, {k})
                     /\ d[k].inval /\ d[k].fetch = "failed" /\ d[k].data = cache[k].data
           /\ missed' = missed \cup (IF Loaded(calls, {k}) # calls THEN {LastOrder} ELSE {})
<1> DEFINE e == [cache[k] EXCEPT !.inval = TRUE, !.fetch = "failed", !.reply = None]
           d == [cache EXCEPT ![k] = e]
<1>1. /\ CacheOf(cache) /\ ui \in UiType /\ stored \in AccountsOrNone
  BY Typed
<1>2. /\ AskedKeys = {k} /\ Render(ui, d, stored, Loaded(calls, {k})) /\ srv' = srv
      /\ missed' = missed \cup (IF Loaded(calls, {k}) # calls THEN {LastOrder} ELSE {})
  BY DEF FailLoad
<1>3. cache[k] \in Entries(k) /\ DOMAIN cache = Keys
  BY <1>1 DEF CacheOf
<1>4. e \in Entries(k) /\ e.inval /\ e.fetch = "failed" /\ e.data = cache[k].data
  BY <1>3 DEF Entries
<1> HIDE DEF e
<1>5. d[k] = e /\ (\A j \in Keys \ {k} : d[j] = cache[j]) /\ DOMAIN d = Keys
  BY <1>3
<1> HIDE DEF d
<1>6. CacheOf(d)
  BY <1>1, <1>4, <1>5 DEF CacheOf
<1>7. Rendered(d) /\ calls' = StillOwn(Loaded(calls, {k}))
  BY <1>1, <1>2, <1>6, RenderEffect
<1>8. Answered(d, {k})
  BY <1>2, <1>5, <1>6, <1>7 DEF Answered
<1>9. cache[k].fetch = "asked"
  BY <1>2 DEF AskedKeys
<1> QED BY <1>2, <1>4, <1>5, <1>8, <1>9

\* The late load reaches the database.
LEMMA ServeStep ==
    ASSUME TypeOK, NEW k \in Keys, Serve(k)
    PROVE  /\ CacheOf(cache') /\ \A j \in Keys \ {k} : cache'[j] = cache[j]
           /\ cache[k].fetch = "asked" /\ cache'[k].fetch = "served" /\ cache'[k].reply = Value(k)
           /\ cache'[k].data = cache[k].data /\ cache'[k].inval = cache[k].inval
           /\ missed' = missed \ {k} /\ srv' = srv /\ ui' = ui /\ stored' = stored /\ calls' = calls
<1>1. CacheOf(cache) /\ srv \in SrvType
  BY Typed
<1>2. cache[k] \in Entries(k) /\ DOMAIN cache = Keys /\ Value(k) \in Answers(k)
  BY <1>1, ValueTyped DEF CacheOf
<1> DEFINE e == [[cache[k] EXCEPT !.fetch = "served"] EXCEPT !.reply = Value(k)]
<1>3. cache'[k] = e /\ (\A j \in Keys \ {k} : cache'[j] = cache[j]) /\ DOMAIN cache' = Keys
  BY <1>2 DEF Serve
<1>4. e \in Entries(k) /\ e.fetch = "served" /\ e.reply = Value(k) /\ e.data = cache[k].data /\ e.inval = cache[k].inval
  BY <1>2 DEF Entries
<1> HIDE DEF e
<1>5. CacheOf(cache')
  BY <1>1, <1>3, <1>4 DEF CacheOf
<1>6. cache[k].fetch = "asked"
  BY DEF Serve, AskedKeys
<1> QED BY <1>3, <1>4, <1>5, <1>6 DEF Serve

-----------------------------------------------------------------------------
(* Types                                                                   *)

\* The steps, by shape.
LEMMA NextCases ==
    ASSUME [Next]_vars
    PROVE  \/ Screens \/ Plain
           \/ \E p \in Periods, text \in Notes : SaveNote(p, text)
           \/ \E i \in 1..4, delta \in {-1, 1} : Move(i, delta)
           \/ \E s \in Slots : Commit(s) \/ Refuse(s) \/ Succeed(s) \/ Fail(s)
           \/ \E late : Load(late)
           \/ \E k \in Keys : Serve(k) \/ FailLoad(k) \/ Arrive(k)
           \/ UNCHANGED vars
<1>1. CASE UserActs
  BY <1>1, UserCases
<1>2. CASE \E s \in Slots : Commit(s) \/ Refuse(s) \/ Succeed(s) \/ Fail(s)
  BY <1>2
<1>3. CASE Load(None) \/ \E k \in AskedKeys : Load(k)
  BY <1>3
<1>4. CASE \E k \in AskedKeys : Serve(k) \/ FailLoad(k)
  BY <1>4 DEF AskedKeys
<1>5. CASE \E k \in Keys : Arrive(k)
  BY <1>5
<1>6. CASE UNCHANGED vars
  BY <1>6
<1> QED BY <1>1, <1>2, <1>3, <1>4, <1>5, <1>6 DEF Next

\* What the user does, and what fails, is bounded.
LEMMA CountersStep ==
    ASSUME steps \in 0..MaxSteps, fails \in 0..MaxFails, [Next]_vars
    PROVE  steps' \in 0..MaxSteps /\ fails' \in 0..MaxFails
<1>1. ASSUME User PROVE steps' \in 0..MaxSteps /\ fails' \in 0..MaxFails
  BY <1>1, BoundsAssumption DEF User, Act, Room
<1>2. CASE Screens
  <2>1. User
    BY <1>2 DEF Screens, Open, Choose, OpenSheet, HoverDay, OpenEditor, ChooseFile, ClearFile
  <2> QED BY <1>1, <2>1
<1>3. CASE Plain
  <2>1. User
    BY <1>3 DEF Plain, ChangeAccount, CreateTrade, ChangeTrade, RestoreTrade, CommitImport, NewAccount, ChangeFlow,
                ChangeTemplate, Send, Start
  <2> QED BY <1>1, <2>1
<1>4. CASE (\E p \in Periods, text \in Notes : SaveNote(p, text)) \/ \E i \in 1..4, delta \in {-1, 1} : Move(i, delta)
  <2>1. User
    BY <1>4 DEF SaveNote, Move, Start
  <2> QED BY <1>1, <2>1
<1>5. CASE \E s \in Slots : Commit(s) \/ Refuse(s) \/ Succeed(s)
  BY <1>5 DEF Commit, Refuse, Succeed
<1>6. CASE \E s \in Slots : Fail(s)
  BY <1>6, BoundsAssumption DEF Fail
<1>7. CASE \E late : Load(late)
  BY <1>7 DEF Load
<1>8. CASE \E k \in Keys : Serve(k) \/ Arrive(k)
  BY <1>8 DEF Serve, Arrive
<1>9. CASE \E k \in Keys : FailLoad(k)
  BY <1>9, BoundsAssumption DEF FailLoad
<1>10. CASE UNCHANGED vars
  BY <1>10 DEF vars
<1> QED BY <1>2, <1>3, <1>4, <1>5, <1>6, <1>7, <1>8, <1>9, <1>10, NextCases

\* Calls that are like those under way, and those that begin or settle, are
\* what calls are.
Proper(cs) == cs \in CallsType /\ \A s \in Slots : cs[s] # None => OfOp(cs[s])

\* A render leaves proper calls proper.
LEMMA ProperStill ==
    ASSUME NEW cs, Proper(cs)
    PROVE  Proper(StillOwn(cs))
BY StillOwnEffect, LikeOfOp DEF Proper

\* So does what the user does.
LEMMA ProperGoing ==
    ASSUME CallsInv, NEW cs, Going(cs)
    PROVE  Proper(cs)
BY LikeOfOp DEF Proper, Going, CallsInv

\* And so does a proper call more.
LEMMA ProperWith ==
    ASSUME NEW cs, Proper(cs), NEW s \in Slots, NEW x, x = None \/ (x \in Requests /\ OfOp(x))
    PROVE  Proper([cs EXCEPT ![s] = x])
BY DEF Proper, CallsType

\* Loads leave proper calls proper.
LEMMA ProperLoaded ==
    ASSUME calls \in CallsType, CallsInv, NEW K
    PROVE  Proper(Loaded(calls, K))
BY LoadedGoes DEF Proper, CallsInv

\* Every step keeps the types.
LEMMA TypesStep ==
    ASSUME TypeOK, CallsInv, [Next]_vars
    PROVE  TypeOK' /\ CallsInv'
<1>1. /\ srv \in SrvType /\ CacheOf(cache) /\ ui \in UiType /\ stored \in AccountsOrNone /\ calls \in CallsType
      /\ missed \subseteq Keys \cup {LastOrder} /\ steps \in 0..MaxSteps /\ fails \in 0..MaxFails
  BY Typed
<1>2. steps' \in 0..MaxSteps /\ fails' \in 0..MaxFails
  BY <1>1, CountersStep
<1>3. ASSUME srv' \in SrvType, CacheOf(cache'), ui' \in UiType, stored' \in AccountsOrNone, Proper(calls'),
             missed' \subseteq Keys \cup {LastOrder}
      PROVE  TypeOK' /\ CallsInv'
  <2>1. calls' \in CallsType /\ CallsInv'
    BY <1>3 DEF Proper, CallsInv
  <2> QED BY <1>2, <1>3, <2>1, Typed
<1>4. ASSUME NEW d, Rendered(d), NEW cs, Proper(cs), calls' = StillOwn(cs), srv' = srv,
             missed' \subseteq Keys \cup {LastOrder}
      PROVE  TypeOK' /\ CallsInv'
  BY <1>1, <1>3, <1>4, ProperStill DEF Rendered
<1>5. Proper(calls)
  BY <1>1 DEF Proper, CallsInv
<1>6. ASSUME NEW cs, Quiet(cs) PROVE TypeOK' /\ CallsInv'
  BY <1>1, <1>4, <1>6, ProperGoing DEF Quiet
<1>7. ASSUME NEW d, NEW cs, NEW s \in Slots, NEW c, Started(d, cs, s, c) PROVE TypeOK' /\ CallsInv'
  <2>1. Proper([cs EXCEPT ![s] = c])
    BY <1>7, ProperGoing, ProperWith DEF Started
  <2> QED BY <1>1, <1>4, <1>7, <2>1 DEF Started
<1>8. CASE Screens
  BY <1>6, <1>8, ScreenStep
<1>9. CASE Plain
  BY <1>7, <1>9, PlainStep
<1>10. CASE \E p \in Periods, text \in Notes : SaveNote(p, text)
  BY <1>7, <1>10, NoteStep
<1>11. CASE \E i \in 1..4, delta \in {-1, 1} : Move(i, delta)
  BY <1>7, <1>11, MoveStep
<1>12. ASSUME NEW s \in Slots, Commit(s) PROVE TypeOK' /\ CallsInv'
  <2>1. calls[s] \in Requests /\ OfOp(calls[s]) /\ Accepts(calls[s]) /\ srv' = After(calls[s])
        /\ cache' = cache /\ ui' = ui /\ stored' = stored /\ missed' = missed
    BY <1>1, <1>12 DEF Commit, Sent, CallsType, CallsInv
  <2> DEFINE x == [calls[s] EXCEPT !.phase = "committed"]
  <2>2. calls' = [calls EXCEPT ![s] = x]
    BY <1>12 DEF Commit
  <2>3. x \in Requests /\ OfOp(x)
    BY <2>1, PhaseTyped
  <2> HIDE DEF x
  <2>4. Proper(calls')
    BY <1>5, <2>2, <2>3, ProperWith
  <2>5. srv' \in SrvType
    BY <1>1, <2>1, AfterTyped
  <2> QED BY <1>1, <1>3, <2>1, <2>4, <2>5
<1>13. ASSUME NEW s \in Slots, Refuse(s) PROVE TypeOK' /\ CallsInv'
  <2>1. calls[s] \in Requests /\ OfOp(calls[s]) /\ srv' = srv
        /\ cache' = cache /\ ui' = ui /\ stored' = stored /\ missed' = missed
    BY <1>1, <1>13 DEF Refuse, Sent, CallsType, CallsInv
  <2> DEFINE x == [calls[s] EXCEPT !.phase = "refused"]
  <2>2. calls' = [calls EXCEPT ![s] = x]
    BY <1>13 DEF Refuse
  <2>3. x \in Requests /\ OfOp(x)
    BY <2>1, PhaseTyped
  <2> HIDE DEF x
  <2>4. Proper(calls')
    BY <1>5, <2>2, <2>3, ProperWith
  <2> QED BY <1>1, <1>3, <2>1, <2>4
<1>14. ASSUME NEW s \in Slots, NEW failed, Ended(s, calls[s], failed) PROVE TypeOK' /\ CallsInv'
  <2> DEFINE c == calls[s]
  <2>1. c \in Requests /\ OfOp(c)
    BY <1>1, <1>14 DEF CallsType, CallsInv, Ended
  <2>2. PICK x \in {None, [c EXCEPT !.phase = "settling"]} : calls' = StillOwn([calls EXCEPT ![s] = x])
    BY <1>14 DEF Ended
  <2>3. x = None \/ (x \in Requests /\ OfOp(x))
    BY <2>1, <2>2, PhaseTyped
  <2>4. Proper([calls EXCEPT ![s] = x])
    BY <1>5, <2>3, ProperWith
  <2>5. Rendered(Dealt(c, failed)) /\ srv' = srv /\ missed' \subseteq Keys \cup {LastOrder}
    BY <1>1, <1>14 DEF Ended
  <2> QED BY <1>4, <2>2, <2>4, <2>5
<1>15. CASE \E s \in Slots : Succeed(s) \/ Fail(s)
  BY <1>14, <1>15, SucceedStep, FailStep
<1>16. ASSUME NEW d, NEW K, Answered(d, K), missed' \subseteq Keys \cup {LastOrder} PROVE TypeOK' /\ CallsInv'
  BY <1>1, <1>4, <1>16, ProperLoaded DEF Answered
<1>17. CASE \E late : Load(late)
  BY <1>1, <1>16, <1>17, LoadStep
<1>18. ASSUME NEW k \in Keys, FailLoad(k) PROVE TypeOK' /\ CallsInv'
  BY <1>1, <1>16, <1>18, FailLoadStep
<1>19. ASSUME NEW k \in Keys, Arrive(k) PROVE TypeOK' /\ CallsInv'
  <2>1. missed' \subseteq Keys \cup {LastOrder}
    BY <1>1, <1>19, ArriveStep DEF OrderOf
  <2> QED BY <1>16, <1>19, <2>1, ArriveStep
<1>20. ASSUME NEW k \in Keys, Serve(k) PROVE TypeOK' /\ CallsInv'
  BY <1>1, <1>3, <1>5, <1>20, ServeStep
<1>21. CASE UNCHANGED vars
  BY <1>1, <1>3, <1>5, <1>21 DEF vars
<1> QED BY <1>8, <1>9, <1>10, <1>11, <1>12, <1>13, <1>15, <1>17, <1>18, <1>19, <1>20, <1>21, NextCases

-----------------------------------------------------------------------------
(* What is shown as fresh is true                                          *)

\* A load asked for takes nothing from what is sure.
LEMMA SureMounted ==
    ASSUME NEW k, NEW e \in Entries(k), NEW f, NEW v, Sure(e, v), Mounted(e, f)
    PROVE  Sure(f, v)
BY EntryFields DEF Sure, Mounted

\* Of what was never used everything is sure.
LEMMA SureNoEntry ==
    ASSUME NEW v PROVE Sure(NoEntry, v)
BY DEF Sure, NoEntry

\* And of what was just loaded.
LEMMA SureFresh ==
    ASSUME NEW v PROVE Sure(Fresh(v), v)
BY DEF Sure, Fresh

\* A doubt lasts as long as the call that it comes from.
LEMMA DoubtKept ==
    ASSUME NEW cs, NEW ds, NEW k,
           \A s \in Slots : cs[s] # None /\ cs[s].phase # "settling"
                => ds[s] # None /\ ds[s].phase # "settling" /\ Changed(ds[s]) = Changed(cs[s]),
           Doubt(k, cs)
    PROVE  Doubt(k, ds)
BY DEF Doubt

\* A render leaves every doubt.
LEMMA StillDoubt ==
    ASSUME NEW cs, Proper(cs), NEW k, Doubt(k, cs)
    PROVE  Doubt(k, StillOwn(cs))
<1> DEFINE ds == StillOwn(cs)
<1>1. \A s \in Slots : cs[s] # None => ds[s] # None /\ Like(cs[s], ds[s]) /\ OfOp(cs[s])
  BY StillOwnEffect DEF Proper
<1> HIDE DEF ds
<1>2. \A s \in Slots : cs[s] # None => ds[s] # None /\ ds[s].phase = cs[s].phase /\ Changed(ds[s]) = Changed(cs[s])
  BY <1>1, LikeOfOp DEF Like
<1>3. Doubt(k, ds)
  BY <1>2, DoubtKept
<1> QED BY <1>3 DEF ds

\* What a call changes its sweep covers, when its hook is where it acts; but for
\* the cards of an import.
LEMMA SweepCovers ==
    ASSUME NEW c \in Requests, OfOp(c), c.hook = c.acc
    PROVE  Changed(c) \subseteq Sweep(c) \cup (IF c.op = "import" THEN PeriodsAll(c.acc) ELSE {})
<1>1. CASE c.op \in {"trade", "import", "flow", "note", "reorder", "template"}
  BY <1>1 DEF Changed, Sweep, Refresh, ImportRefresh, FlowRefresh
<1>2. CASE c.op = "newAccount"
  BY <1>2 DEF Changed, Sweep, AllAccounts
<1>3. CASE c.op = "account"
  <2>1. c.acc \in Accounts
    BY <1>3 DEF OfOp
  <2>2. OfAccount(c.acc) \subseteq AllAccounts /\ AccountsKey \in AllAccounts
    BY <2>1 DEF AllAccounts
  <2> QED BY <1>3, <2>2 DEF Changed, Sweep
<1> QED BY <1>1, <1>2, <1>3 DEF Requests

\* An answer leaves a key sure, or in doubt, or missed.
LEMMA DealtSure ==
    ASSUME TypeOK, CallsInv, FreshInv, NEW s, NEW c, NEW failed \in BOOLEAN, Ended(s, c, failed),
           NEW k \in Keys, k \notin missed', ~\E t \in Slots : /\ t # s /\ calls[t] # None
                                                               /\ calls[t].phase # "settling" /\ k \in Changed(calls[t])
    PROVE  Sure(Dealt(c, failed)[k], Value(k))
<1> DEFINE v == Value(k)
           d == Undone(c, failed)
<1>1. CacheOf(cache) /\ calls \in CallsType
  BY Typed
<1>2. s \in Slots /\ c = calls[s] /\ c # None /\ c \in Requests /\ OfOp(c)
  BY <1>1 DEF Ended, CallsType, CallsInv
<1>3. k \notin missed /\ (k \in Changed(c) \/ Sure(cache[k], v))
  BY <1>2 DEF Ended, FreshInv, Doubt
<1>4. ASSUME k \in Changed(c), Cached(Changed(c)) \subseteq missed' PROVE Sure(cache[k], v)
  <2>1. cache[k] = NoEntry
    BY <1>4 DEF Cached
  <2> QED BY <2>1, SureNoEntry
<1>5. CASE failed /\ c.op # "note"
  <2>1. Dealt(c, failed) = cache
    BY <1>5 DEF Dealt
  <2>2. Cached(Changed(c)) \subseteq missed'
    BY <1>5 DEF Ended
  <2> QED BY <1>3, <1>4, <2>1, <2>2
<1>6. CASE ~(failed /\ c.op # "note")
  <2>1. Dealt(c, failed) = Invalidate(d, Sweep(c), OnScreen)
    BY <1>6 DEF Dealt, Swept
  <2>2. CacheOf(d) /\ d[k].fetch = cache[k].fetch /\ d[k].reply = cache[k].reply
        /\ (d[k] = cache[k] \/ (d[k].data # None /\ k \in Sweep(c)))
    <3>1. CASE failed /\ c.op = "note"
      <4> DEFINE h == <<"notes", c.hook>>
      <4>1. /\ CacheOf(d) /\ \A j \in Keys \ {h} : d[j] = cache[j]
            /\ d[h].fetch = cache[h].fetch /\ d[h].reply = cache[h].reply
            /\ d[h] = cache[h] \/ d[h].data # None
        BY <1>1, <1>2, <3>1, RolledBack DEF Undone
      <4>2. h \in Sweep(c)
        BY <3>1 DEF Sweep, PeriodNotes
      <4> HIDE DEF d
      <4> QED BY <4>1, <4>2
    <3>2. CASE ~(failed /\ c.op = "note")
      BY <1>1, <3>2 DEF Undone
    <3> QED BY <3>1, <3>2
  <2>3. Overtaken(cache, Sweep(c), OnScreen) \subseteq missed'
    BY <1>6 DEF Ended
  <2> HIDE DEF d, v
  <2> DEFINE i == Invalidate(d, Sweep(c), OnScreen)[k]
  <2>4. /\ k \notin Sweep(c) \/ d[k] = NoEntry => i = d[k]
        /\ k \in Sweep(c) /\ d[k] # NoEntry => i.inval
        /\ i = d[k] \/ i.fetch = "asked" \/ (i.fetch = d[k].fetch /\ i.reply = d[k].reply)
        /\ k \in Sweep(c) /\ k \in OnScreen /\ d[k] # NoEntry /\ (d[k].data # None \/ ~Fetching(d[k])) => i.fetch = "asked"
    BY <2>2, InvalidEntry
  <2> HIDE DEF i
  <2>5. CASE k \notin Sweep(c)
    <3>1. i = cache[k]
      BY <2>2, <2>4, <2>5
    <3>2. Sure(cache[k], v)
      <4>1. CASE k \in Changed(c)
        <5>1. CASE c.hook # c.acc
          <6>1. Cached(Changed(c)) \subseteq missed'
            BY <5>1 DEF Ended
          <6> QED BY <1>4, <4>1, <6>1
        <5>2. CASE c.hook = c.acc
          <6>1. c.op = "import" /\ k \in PeriodsAll(c.acc)
            BY <1>2, <2>5, <4>1, <5>2, SweepCovers
          <6>2. Cached(PeriodsAll(c.acc)) \subseteq missed'
            BY <1>6, <6>1 DEF Ended
          <6>3. cache[k] = NoEntry
            BY <6>1, <6>2 DEF Cached
          <6> QED BY <6>3, SureNoEntry
        <5> QED BY <5>1, <5>2
      <4> QED BY <1>3, <4>1 DEF v
    <3> QED BY <2>1, <3>1, <3>2 DEF i, v
  <2>6. CASE k \in Sweep(c) /\ d[k] = NoEntry
    <3>1. i = NoEntry
      BY <2>4, <2>6
    <3> QED BY <2>1, <3>1, SureNoEntry DEF i
  <2>7. CASE k \in Sweep(c) /\ d[k] # NoEntry
    <3>1. i.inval
      BY <2>4, <2>7
    <3>2. ASSUME i.fetch = "served" PROVE i.reply = v
      <4>1. cache[k].fetch = "served" /\ i.reply = cache[k].reply
        BY <2>2, <2>4, <3>2
      <4>2. ~(k \in OnScreen /\ d[k].data # None)
        BY <2>4, <2>7, <3>2
      <4>3. k \notin OnScreen \/ cache[k].data = None
        BY <2>2, <4>2
      <4>4. k \notin Overtaken(cache, Sweep(c), OnScreen)
        BY <2>3
      <4> QED BY <2>7, <4>1, <4>3, <4>4 DEF Overtaken, v
    <3>3. Sure(i, v)
      BY <3>1, <3>2 DEF Sure
    <3> QED BY <2>1, <3>3 DEF i, v
  <2> QED BY <2>5, <2>6, <2>7
<1> QED BY <1>5, <1>6

\* Every step keeps what is shown as fresh true, in doubt or missed.
LEMMA FreshStep ==
    ASSUME TypeOK, CallsInv, FreshInv, [Next]_vars
    PROVE  FreshInv'
<1>1. /\ srv \in SrvType /\ CacheOf(cache) /\ calls \in CallsType /\ Proper(calls)
  BY Typed DEF Proper, CallsInv
<1>2. ASSUME \A k \in Keys : k \notin missed' => Sure(cache'[k], Value(k)') \/ Doubt(k, calls')
      PROVE  FreshInv'
  BY <1>2 DEF FreshInv
<1>3. \A k \in Keys : k \notin missed => Sure(cache[k], Value(k)) \/ Doubt(k, calls)
  BY DEF FreshInv
\* The screen and the calls go on: the doubts stay, and what was sure is.
<1>4. ASSUME NEW d, CacheOf(d), Rendered(d), srv' = srv, NEW k \in Keys, Sure(d[k], Value(k))
      PROVE  Sure(cache'[k], Value(k)')
  <2>1. d[k] \in Entries(k) /\ Mounted(d[k], cache'[k])
    BY <1>4 DEF CacheOf, Rendered
  <2>2. Sure(cache'[k], Value(k))
    BY <1>4, <2>1, SureMounted
  <2> QED BY <1>4, <2>2, ValueSame
<1>5. ASSUME NEW cs, Going(cs), NEW k, Doubt(k, calls) PROVE Doubt(k, cs)
  <2>1. \A s \in Slots : calls[s] # None => cs[s] # None /\ cs[s].phase = calls[s].phase /\ Changed(cs[s]) = Changed(calls[s])
    BY <1>5, LikeOfOp DEF Going, Like, CallsInv
  <2> QED BY <1>5, <2>1, DoubtKept
<1>6. ASSUME NEW cs, Quiet(cs) PROVE FreshInv'
  <2>1. Proper(cs)
    BY <1>6, ProperGoing DEF Quiet
  <2>2. \A k \in Keys : Doubt(k, calls) => Doubt(k, calls')
    BY <1>5, <1>6, <2>1, StillDoubt DEF Quiet
  <2>3. \A k \in Keys : Sure(cache[k], Value(k)) => Sure(cache'[k], Value(k)')
    BY <1>1, <1>4, <1>6 DEF Quiet
  <2>4. missed' = missed
    BY <1>6 DEF Quiet
  <2> QED BY <1>2, <1>3, <2>2, <2>3, <2>4
<1>7. ASSUME NEW d, NEW cs, NEW s \in Slots, NEW c, Started(d, cs, s, c),
             \A k \in Keys : d[k] = cache[k] \/ k \in Changed(c)
      PROVE  FreshInv'
  <2> DEFINE ds == [cs EXCEPT ![s] = c]
  <2>1. Going(cs) /\ c \in Requests /\ OfOp(c) /\ c.phase = "sent" /\ calls[s] = None /\ calls' = StillOwn(ds) /\ c # None
    BY <1>7, NoneAssumption DEF Started
  <2>2. Proper(ds)
    BY <2>1, ProperGoing, ProperWith
  <2>3. \A t \in Slots : t # s => ds[t] = cs[t]
    BY <2>1 DEF Going, CallsType
  <2>4. ds[s] = c
    BY <2>1 DEF Going, CallsType
  <2> HIDE DEF ds
  <2>5. \A k \in Keys : Doubt(k, calls) => Doubt(k, ds)
    <3> SUFFICES ASSUME NEW k \in Keys, Doubt(k, calls) PROVE Doubt(k, ds)
      OBVIOUS
    <3>1. PICK t \in Slots : calls[t] # None /\ calls[t].phase # "settling" /\ k \in Changed(calls[t])
      BY DEF Doubt
    <3>2. t # s /\ cs[t] # None /\ Like(calls[t], cs[t]) /\ OfOp(calls[t])
      BY <2>1, <3>1 DEF Going, CallsInv
    <3>3. cs[t].phase # "settling" /\ k \in Changed(cs[t])
      BY <3>1, <3>2, LikeOfOp DEF Like
    <3> QED BY <2>3, <3>2, <3>3 DEF Doubt
  <2>6. \A k \in Keys : k \in Changed(c) => Doubt(k, ds)
    BY <2>1, <2>4 DEF Doubt
  <2>7. \A k \in Keys : Doubt(k, ds) => Doubt(k, calls')
    BY <2>1, <2>2, StillDoubt
  <2>8. CacheOf(d) /\ Rendered(d) /\ srv' = srv /\ missed' = missed
    BY <1>7 DEF Started
  <2>9. \A k \in Keys : Sure(d[k], Value(k)) => Sure(cache'[k], Value(k)')
    BY <1>4, <2>8
  <2> QED BY <1>2, <1>3, <1>7, <2>5, <2>6, <2>7, <2>8, <2>9
<1>8. CASE Screens
  BY <1>6, <1>8, ScreenStep
<1>9. CASE Plain
  BY <1>7, <1>9, PlainStep
<1>10. ASSUME NEW p \in Periods, NEW text \in Notes, SaveNote(p, text) PROVE FreshInv'
  <2>0. PICK s \in Slots : \E c, cs, d : Started(d, cs, s, c) /\ c.op = "note" /\ NoteOf(c, cs, d)
    BY <1>10, NoteStep
  <2>1. PICK c, cs, d : Started(d, cs, s, c) /\ c.op = "note" /\ NoteOf(c, cs, d)
    BY <2>0
  <2>2. \A k \in Keys : d[k] = cache[k] \/ k \in Changed(c)
    BY <2>1 DEF NoteOf, Changed, PeriodNotes
  <2> QED BY <1>7, <2>1, <2>2
<1>11. CASE \E i \in 1..4, delta \in {-1, 1} : Move(i, delta)
  BY <1>7, <1>11, MoveStep
\* A call takes effect: what it changes is in doubt.
<1>12. ASSUME NEW s \in Slots, calls[s] # None, calls[s].phase = "sent", NEW phase \in {"committed", "refused"},
              calls' = [calls EXCEPT ![s].phase = phase], cache' = cache, missed' = missed,
              srv' = srv \/ srv' = After(calls[s])
       PROVE  FreshInv'
  <2> DEFINE c == calls[s]
             x == [c EXCEPT !.phase = phase]
  <2>1. c \in Requests /\ OfOp(c)
    BY <1>1, <1>12 DEF CallsType, CallsInv
  <2>2. x # None /\ x.phase = phase /\ Changed(x) = Changed(c)
    BY <2>1, PhaseTyped
  <2>3. calls' = [calls EXCEPT ![s] = x]
    BY <1>12
  <2> HIDE DEF x
  <2>4. calls'[s] = x /\ \A t \in Slots : t # s => calls'[t] = calls[t]
    BY <1>1, <2>3 DEF CallsType
  <2>5. \A t \in Slots : calls[t] # None /\ calls[t].phase # "settling"
                => calls'[t] # None /\ calls'[t].phase # "settling" /\ Changed(calls'[t]) = Changed(calls[t])
    BY <2>2, <2>4
  <2>6. \A k \in Keys : Doubt(k, calls) => Doubt(k, calls')
    BY <2>5, DoubtKept
  <2>7. \A k \in Changed(c) : Doubt(k, calls')
    BY <2>2, <2>4 DEF Doubt
  <2>8. \A k \in Keys : k \in Changed(c) \/ Value(k)' = Value(k)
    BY <1>1, <1>12, <2>1, ValueSame, ValueKept
  <2> QED BY <1>2, <1>3, <1>12, <2>6, <2>7, <2>8
<1>13. CASE \E s \in Slots : Commit(s) \/ Refuse(s)
  BY <1>12, <1>13 DEF Commit, Refuse, Sent
<1>14. ASSUME NEW s \in Slots, NEW failed \in BOOLEAN, Ended(s, calls[s], failed) PROVE FreshInv'
  <2> DEFINE c == calls[s]
             Else(k) == \E t \in Slots : /\ t # s /\ calls[t] # None
                                         /\ calls[t].phase # "settling" /\ k \in Changed(calls[t])
  <2>1. PICK x \in {None, [c EXCEPT !.phase = "settling"]} : calls' = StillOwn([calls EXCEPT ![s] = x])
    BY <1>14 DEF Ended
  <2>2. c \in Requests /\ OfOp(c)
    BY <1>1, <1>14 DEF Ended, CallsType, CallsInv
  <2> DEFINE ds == [calls EXCEPT ![s] = x]
  <2>3. Proper(ds)
    BY <1>1, <2>1, <2>2, ProperWith, PhaseTyped
  <2>4. \A t \in Slots : t # s => ds[t] = calls[t]
    BY <1>1 DEF CallsType
  <2>5. calls' = StillOwn(ds)
    BY <2>1
  <2> HIDE DEF ds
  <2>6. \A k \in Keys : Else(k) => Doubt(k, calls')
    <3>1. \A k \in Keys : Else(k) => Doubt(k, ds)
      BY <2>4 DEF Doubt
    <3> QED BY <2>3, <2>5, <3>1, StillDoubt
  <2>7. \A k \in Keys : k \notin missed' /\ ~Else(k) => Sure(Dealt(c, failed)[k], Value(k))
    BY <1>14, DealtSure
  <2>8. CacheOf(Dealt(c, failed)) /\ Rendered(Dealt(c, failed)) /\ srv' = srv
    BY <1>14 DEF Ended
  <2>9. \A k \in Keys : k \notin missed' /\ ~Else(k) => Sure(cache'[k], Value(k)')
    BY <1>4, <2>7, <2>8
  <2> QED BY <1>2, <2>6, <2>9
<1>15. CASE \E s \in Slots : Succeed(s) \/ Fail(s)
  BY <1>14, <1>15, SucceedStep, FailStep
\* Loads are answered: nobody leaves but those who had settled.
<1>16. ASSUME NEW d, NEW K, Answered(d, K),
              \A k \in Keys : k \notin missed' /\ k \in K => Sure(d[k], Value(k)) \/ Doubt(k, calls),
              \A k \in Keys \ K : k \notin missed' => k \notin missed
       PROVE  FreshInv'
  <2> DEFINE cs == Loaded(calls, K)
  <2>1. Proper(cs)
    BY <1>1, ProperLoaded
  <2>2. \A s \in Slots : calls[s] # None /\ calls[s].phase # "settling" => cs[s] = calls[s]
    BY <1>1, LoadedGoes
  <2> HIDE DEF cs
  <2>3. \A k \in Keys : Doubt(k, calls) => Doubt(k, cs)
    BY <2>2 DEF Doubt
  <2>4. calls' = StillOwn(cs)
    BY <1>16 DEF Answered, cs
  <2>5. \A k \in Keys : Doubt(k, calls) => Doubt(k, calls')
    BY <2>1, <2>3, <2>4, StillDoubt
  <2>6. CacheOf(d) /\ Rendered(d) /\ srv' = srv /\ \A k \in Keys \ K : d[k] = cache[k]
    BY <1>16 DEF Answered
  <2>7. \A k \in Keys : k \notin missed' => Sure(d[k], Value(k)) \/ Doubt(k, calls)
    BY <1>3, <1>16, <2>6
  <2>8. \A k \in Keys : Sure(d[k], Value(k)) => Sure(cache'[k], Value(k)')
    BY <1>4, <2>6
  <2> QED BY <1>2, <2>5, <2>7, <2>8
<1>17. ASSUME NEW late, Load(late) PROVE FreshInv'
  <2>1. PICK d, K : /\ Answered(d, K) /\ \A k \in K : d[k] = Fresh(Value(k))
                    /\ missed' = missed \ (K \cup OrderOf(K))
    BY <1>17, LoadStep
  <2>2. \A k \in Keys : k \in K => Sure(d[k], Value(k))
    BY <2>1, SureFresh
  <2>3. \A k \in Keys \ K : k \notin missed' => k \notin missed
    BY <2>1, FixedKeys DEF OrderOf
  <2> QED BY <1>16, <2>1, <2>2, <2>3
<1>18. ASSUME NEW k \in Keys, Arrive(k) PROVE FreshInv'
  <2>1. PICK d : Answered(d, {k}) /\ d[k] = Fresh(cache[k].reply)
    BY <1>18, ArriveStep
  <2>2. cache[k].fetch = "served" /\ missed' = IF k \in missed THEN missed \cup OrderOf({k}) ELSE missed \ OrderOf({k})
    BY <1>18, ArriveStep
  <2>3. \A j \in Keys : j \notin missed' => j \notin missed
    BY <2>2, FixedKeys DEF OrderOf
  <2>4. k \notin missed' => Sure(d[k], Value(k)) \/ Doubt(k, calls)
    <3>1. ASSUME Sure(cache[k], Value(k)) PROVE Sure(d[k], Value(k))
      <4>1. cache[k].reply = Value(k)
        BY <2>2, <3>1 DEF Sure
      <4> QED BY <2>1, <4>1, SureFresh
    <3> QED BY <1>3, <2>3, <3>1
  <2> QED BY <1>16, <2>1, <2>3, <2>4
<1>19. ASSUME NEW k \in Keys, FailLoad(k) PROVE FreshInv'
  <2>1. PICK d : Answered(d, {k}) /\ d[k].inval /\ d[k].fetch = "failed"
    BY <1>19, FailLoadStep
  <2>2. missed \subseteq missed'
    BY <1>19, FailLoadStep
  <2>3. Sure(d[k], Value(k))
    BY <2>1 DEF Sure
  <2> QED BY <1>16, <2>1, <2>2, <2>3
<1>20. ASSUME NEW k \in Keys, Serve(k) PROVE FreshInv'
  <2>1. /\ \A j \in Keys \ {k} : cache'[j] = cache[j]
        /\ cache'[k].fetch = "served" /\ cache'[k].reply = Value(k)
        /\ missed' = missed \ {k} /\ srv' = srv /\ calls' = calls
    BY <1>20, ServeStep
  <2>2. Sure(cache'[k], Value(k))
    BY <2>1 DEF Sure, Fetching
  <2>3. \A j \in Keys : Value(j)' = Value(j)
    BY <2>1, ValueSame
  <2> QED BY <1>2, <1>3, <2>1, <2>2, <2>3
<1>21. CASE UNCHANGED vars
  <2>1. \A j \in Keys : Value(j)' = Value(j)
    BY <1>21, ValueSame DEF vars
  <2> QED BY <1>2, <1>3, <1>21, <2>1 DEF vars
<1> QED BY <1>8, <1>9, <1>10, <1>11, <1>13, <1>15, <1>17, <1>18, <1>19, <1>20, <1>21, NextCases

-----------------------------------------------------------------------------
(* A note of one's own is what its card shows                              *)

\* The render after a step: a call whose list was its own, or came to be asked
\* for, in the cache that is rendered.
LEMMA OwnRendered ==
    ASSUME NEW d, CacheOf(d), Rendered(d), NEW b, NEW c, Like(b, c), c.own,
           NEW k \in Keys, k = <<"notes", b.acc>>,
           ~Fetching(cache'[k]),
           Fetching(d[k]) \/ OwnOK(d[k], b, k \in OnScreen)
    PROVE  OwnOK(cache'[k], c, k \in OnScreen')
<1>1. d[k] \in Entries(k) /\ Mounted(d[k], cache'[k])
  BY DEF CacheOf, Rendered
<1>2. cache'[k] = d[k]
  BY <1>1, EntryFields DEF Mounted
<1>3. OwnOK(d[k], b, k \in OnScreen)
  BY <1>2
<1>4. k \in OnScreen' /\ d[k].inval => k \in OnScreen
  BY DEF Rendered
<1>5. c.arg = b.arg /\ c.text = b.text
  BY DEF Like
<1> QED BY <1>2, <1>3, <1>4, <1>5 DEF OwnOK

\* A mutation that is answered leaves the list of another's own note alone, or has
\* it asked for, or marks it while no card shows it.
LEMMA OwnDealt ==
    ASSUME TypeOK, CallsInv, NEW s, NEW c, NEW failed \in BOOLEAN, Ended(s, c, failed),
           NEW b, NEW k \in Keys, OwnOK(cache[k], b, k \in OnScreen)
    PROVE  LET e == Dealt(c, failed)[k] IN Fetching(e) \/ OwnOK(e, b, k \in OnScreen)
<1> DEFINE d == Undone(c, failed)
           i == Invalidate(d, Sweep(c), OnScreen)[k]
<1>1. CacheOf(cache) /\ calls \in CallsType
  BY Typed
<1>2. c \in Requests /\ OfOp(c)
  BY <1>1 DEF Ended, CallsType, CallsInv
<1>3. CASE failed /\ c.op # "note"
  BY <1>3 DEF Dealt
<1>4. CASE ~(failed /\ c.op # "note")
  <2>1. Dealt(c, failed)[k] = i
    BY <1>4 DEF Dealt, Swept
  <2>2. CacheOf(d) /\ d[k].fetch = cache[k].fetch
        /\ (d[k] = cache[k] \/ (d[k].data # None /\ k \in Sweep(c)))
    <3>1. CASE failed /\ c.op = "note"
      <4> DEFINE h == <<"notes", c.hook>>
      <4>1. /\ CacheOf(d) /\ \A j \in Keys \ {h} : d[j] = cache[j]
            /\ d[h].fetch = cache[h].fetch
            /\ d[h] = cache[h] \/ d[h].data # None
        BY <1>1, <1>2, <3>1, RolledBack DEF Undone
      <4>2. h \in Sweep(c)
        BY <3>1 DEF Sweep, PeriodNotes
      <4> HIDE DEF d
      <4> QED BY <4>1, <4>2
    <3>2. CASE ~(failed /\ c.op = "note")
      BY <1>1, <3>2 DEF Undone
    <3> QED BY <3>1, <3>2
  <2>3. ~Fetching(d[k])
    BY <2>2 DEF OwnOK, Fetching
  <2> HIDE DEF d
  <2>4. /\ k \notin Sweep(c) \/ d[k] = NoEntry => i = d[k]
        /\ k \in Sweep(c) /\ d[k] # NoEntry => i.inval
        /\ k \in Sweep(c) /\ k \in OnScreen /\ d[k] # NoEntry /\ (d[k].data # None \/ ~Fetching(d[k])) => i.fetch = "asked"
    BY <2>2, InvalidEntry
  <2> HIDE DEF i
  <2>5. CASE k \notin Sweep(c) \/ d[k] = NoEntry
    <3>1. d[k] = cache[k]
      BY <2>2, <2>5 DEF NoEntry
    <3> QED BY <2>1, <2>4, <2>5, <3>1
  <2>6. CASE k \in Sweep(c) /\ d[k] # NoEntry
    <3>1. i.inval /\ (k \in OnScreen => Fetching(i))
      BY <2>3, <2>4, <2>6 DEF Fetching
    <3> QED BY <2>1, <3>1 DEF OwnOK
  <2> QED BY <2>5, <2>6
<1> QED BY <1>3, <1>4

\* Every step keeps one's own note on its card.
LEMMA OwnStep ==
    ASSUME TypeOK, CallsInv, OwnInv, [Next]_vars
    PROVE  OwnInv'
<1> DEFINE K(c) == <<"notes", c.acc>>
<1>1. CacheOf(cache) /\ calls \in CallsType
  BY Typed
<1>2. ASSUME \A s \in Slots : calls'[s] # None /\ calls'[s].op = "note" /\ calls'[s].own =>
                OwnOK(cache'[K(calls'[s])], calls'[s], K(calls'[s]) \in OnScreen')
      PROVE  OwnInv'
  BY <1>2 DEF OwnInv
<1>3. \A s \in Slots : calls[s] # None /\ calls[s].op = "note" /\ calls[s].own =>
                OwnOK(cache[K(calls[s])], calls[s], K(calls[s]) \in OnScreen)
  BY DEF OwnInv
\* What is to be shown of the cache that is rendered, and of the calls as they are then.
<1>4. ASSUME NEW d, CacheOf(d), Rendered(d), NEW cs, Proper(cs), calls' = StillOwn(cs),
             \A s \in Slots : cs[s] # None /\ cs[s].op = "note" /\ cs[s].own =>
                LET k == K(cs[s]) IN
                /\ ~Fetching(cache[k]) \/ (k \in OnScreen /\ ~Fetching(d[k]))
                /\ Fetching(d[k]) \/ OwnOK(d[k], cs[s], k \in OnScreen)
      PROVE  OwnInv'
  <2> SUFFICES ASSUME NEW s \in Slots, calls'[s] # None, calls'[s].op = "note", calls'[s].own
               PROVE  OwnOK(cache'[K(calls'[s])], calls'[s], K(calls'[s]) \in OnScreen')
    BY <1>2
  <2> DEFINE b == cs[s]
             c == calls'[s]
             k == K(b)
  <2>1. b # None /\ Like(b, c) /\ OfOp(b) /\ ~(Fetching(cache'[K(c)]) /\ ~Fetching(cache[K(c)]))
    BY <1>4, StillOwnEffect DEF Proper
  <2>2. b.op = "note" /\ b.own /\ b.acc = c.acc
    BY <2>1 DEF Like
  <2>3. k \in Keys /\ K(c) = k
    BY <2>1, <2>2, KeysOfAccount DEF OfOp, Kinds
  <2>4. /\ ~Fetching(cache[k]) \/ (k \in OnScreen /\ ~Fetching(d[k]))
        /\ Fetching(d[k]) \/ OwnOK(d[k], b, k \in OnScreen)
    BY <1>4, <2>1, <2>2
  <2>5. k \in OnScreen => cache'[k] = d[k]
    BY <1>4, <2>3 DEF Rendered
  <2> HIDE DEF b
  <2>6. ~Fetching(cache'[k])
    BY <2>1, <2>3, <2>4, <2>5
  <2>7. OwnOK(cache'[k], c, k \in OnScreen')
    BY <1>4, <2>1, <2>3, <2>4, <2>6, OwnRendered
  <2> QED BY <2>3, <2>7
<1>5. ASSUME NEW b, NEW c, Like(b, c), c.own, c.op = "note", NEW s \in Slots, b = calls[s], b # None
      PROVE  K(c) = K(b) /\ ~Fetching(cache[K(c)]) /\ OwnOK(cache[K(c)], c, K(c) \in OnScreen)
  <2>1. b.op = "note" /\ b.own /\ c.acc = b.acc /\ c.arg = b.arg /\ c.text = b.text
    BY <1>5 DEF Like
  <2>2. OwnOK(cache[K(b)], b, K(b) \in OnScreen)
    BY <1>3, <1>5, <2>1
  <2> QED BY <2>1, <2>2 DEF OwnOK
<1>6. ASSUME NEW cs, Quiet(cs) PROVE OwnInv'
  <2>1. Proper(cs)
    BY <1>6, ProperGoing DEF Quiet
  <2>2. \A s \in Slots : cs[s] # None => calls[s] # None /\ Like(calls[s], cs[s])
    BY <1>6 DEF Quiet, Going
  <2> QED BY <1>1, <1>4, <1>5, <1>6, <2>1, <2>2 DEF Quiet
<1>7. ASSUME NEW d, NEW cs, NEW s \in Slots, NEW c, Started(d, cs, s, c),
             \A t \in Slots : cs[t] # None /\ cs[t].op = "note" /\ cs[t].own => d[K(cs[t])] = cache[K(cs[t])],
             c.op = "note" => /\ K(c) \in OnScreen /\ ~Fetching(d[K(c)])
                              /\ OwnOK(d[K(c)], c, K(c) \in OnScreen)
      PROVE  OwnInv'
  <2> DEFINE ds == [cs EXCEPT ![s] = c]
  <2>1. Going(cs) /\ c \in Requests /\ OfOp(c) /\ calls' = StillOwn(ds) /\ CacheOf(d) /\ Rendered(d)
    BY <1>7 DEF Started
  <2>2. Proper(ds)
    BY <2>1, ProperGoing, ProperWith
  <2>3. ds[s] = c /\ \A t \in Slots : t # s => ds[t] = cs[t]
    BY <2>1 DEF Going, CallsType
  <2> HIDE DEF ds
  <2>4. ASSUME NEW t \in Slots, t # s, ds[t] # None, ds[t].op = "note", ds[t].own
        PROVE  ~Fetching(cache[K(ds[t])]) /\ OwnOK(d[K(ds[t])], ds[t], K(ds[t]) \in OnScreen)
    <3>1. ds[t] = cs[t] /\ calls[t] # None /\ Like(calls[t], cs[t])
      BY <2>1, <2>3, <2>4 DEF Going
    <3>2. ~Fetching(cache[K(cs[t])]) /\ OwnOK(cache[K(cs[t])], cs[t], K(cs[t]) \in OnScreen)
      BY <1>5, <2>4, <3>1
    <3>3. d[K(cs[t])] = cache[K(cs[t])]
      BY <1>7, <2>4, <3>1
    <3> QED BY <3>1, <3>2, <3>3
  <2> QED BY <1>4, <1>7, <2>1, <2>2, <2>3, <2>4
<1>8. CASE Screens
  BY <1>6, <1>8, ScreenStep
<1>9. CASE Plain
  BY <1>7, <1>9, PlainStep
<1>10. ASSUME NEW p \in Periods, NEW text \in Notes, SaveNote(p, text) PROVE OwnInv'
  <2>0. PICK s \in Slots : \E c, cs, d : Started(d, cs, s, c) /\ c.op = "note" /\ NoteOf(c, cs, d)
    BY <1>10, NoteStep
  <2>1. PICK c, cs, d : Started(d, cs, s, c) /\ c.op = "note" /\ NoteOf(c, cs, d)
    BY <2>0
  <2>2. /\ K(c) \in OnScreen /\ ~Fetching(d[K(c)]) /\ OwnOK(d[K(c)], c, K(c) \in OnScreen)
        /\ \A j \in Keys \ {K(c)} : d[j] = cache[j]
        /\ \A t \in Slots : cs[t] # None /\ cs[t].op = "note" /\ cs[t].acc = c.acc => ~cs[t].own
    BY <2>1 DEF NoteOf, OwnOK
  <2>3. \A t \in Slots : cs[t] # None => OfOp(cs[t])
    BY <2>1, ProperGoing DEF Started, Proper
  <2>4. ASSUME NEW t \in Slots, cs[t] # None, cs[t].op = "note", cs[t].own
        PROVE  d[K(cs[t])] = cache[K(cs[t])]
    <3>1. cs[t].acc # c.acc /\ cs[t].acc \in Accounts
      BY <2>2, <2>3, <2>4 DEF OfOp
    <3>2. K(cs[t]) \in Keys \ {K(c)}
      BY <3>1, KeysOfAccount DEF Kinds
    <3> QED BY <2>2, <3>2
  <2> HIDE DEF K
  <2> QED BY <1>7, <2>1, <2>2, <2>4
<1>11. CASE \E i \in 1..4, delta \in {-1, 1} : Move(i, delta)
  BY <1>7, <1>11, MoveStep
<1>12. ASSUME NEW s \in Slots, calls[s] # None, NEW phase \in {"committed", "refused"},
              calls' = [calls EXCEPT ![s].phase = phase], cache' = cache, ui' = ui, stored' = stored
       PROVE  OwnInv'
  <2> DEFINE x == [calls[s] EXCEPT !.phase = phase]
  <2>1. calls[s] \in Requests
    BY <1>1, <1>12 DEF CallsType
  <2>2. x.op = calls[s].op /\ x.own = calls[s].own /\ x.acc = calls[s].acc /\ x.arg = calls[s].arg /\ x.text = calls[s].text
    BY <2>1, PhaseTyped
  <2>3. calls' = [calls EXCEPT ![s] = x]
    BY <1>12
  <2> HIDE DEF x
  <2>4. calls'[s] = x /\ \A t \in Slots : t # s => calls'[t] = calls[t]
    BY <1>1, <2>3 DEF CallsType
  <2>5. OnScreen' = OnScreen
    BY <1>12 DEF OnScreen, Active
  <2> SUFFICES ASSUME NEW t \in Slots, calls'[t] # None, calls'[t].op = "note", calls'[t].own
               PROVE  OwnOK(cache'[K(calls'[t])], calls'[t], K(calls'[t]) \in OnScreen')
    BY <1>2
  <2>6. /\ calls[t] # None /\ calls[t].op = "note" /\ calls[t].own
        /\ calls'[t].acc = calls[t].acc /\ calls'[t].arg = calls[t].arg /\ calls'[t].text = calls[t].text
    BY <1>12, <2>2, <2>4
  <2>7. OwnOK(cache[K(calls[t])], calls[t], K(calls[t]) \in OnScreen)
    BY <1>3, <2>6
  <2> QED BY <1>12, <2>5, <2>6, <2>7 DEF OwnOK
<1>13. CASE \E s \in Slots : Commit(s) \/ Refuse(s)
  BY <1>12, <1>13 DEF Commit, Refuse, Sent
<1>14. ASSUME NEW s \in Slots, NEW failed \in BOOLEAN, Ended(s, calls[s], failed) PROVE OwnInv'
  <2> DEFINE c == calls[s]
  <2>1. PICK x \in {None, [c EXCEPT !.phase = "settling"]} :
           calls' = StillOwn([calls EXCEPT ![s] = x]) /\ (x # None => c.op = "reorder")
    BY <1>14 DEF Ended
  <2>2. c \in Requests /\ OfOp(c)
    BY <1>1, <1>14 DEF Ended, CallsType, CallsInv
  <2> DEFINE ds == [calls EXCEPT ![s] = x]
  <2>3. Proper(ds)
    <3>1. Proper(calls)
      BY <1>1 DEF Proper, CallsInv
    <3>2. x = None \/ (x \in Requests /\ OfOp(x))
      BY <2>1, <2>2, PhaseTyped
    <3> QED BY <3>1, <3>2, ProperWith
  <2>4. ds[s] = x /\ \A t \in Slots : t # s => ds[t] = calls[t]
    BY <1>1 DEF CallsType
  <2>5. x # None => x.op # "note"
    BY <2>1, <2>2, PhaseTyped
  <2>6. calls' = StillOwn(ds)
    BY <2>1
  <2> HIDE DEF ds
  <2>7. CacheOf(Dealt(c, failed)) /\ Rendered(Dealt(c, failed))
    BY <1>14 DEF Ended
  <2>8. ASSUME NEW t \in Slots, ds[t] # None, ds[t].op = "note", ds[t].own
        PROVE  LET k == K(ds[t])
                   e == Dealt(c, failed)[k]
               IN ~Fetching(cache[k]) /\ (Fetching(e) \/ OwnOK(e, ds[t], k \in OnScreen))
    <3>1. t # s /\ ds[t] = calls[t]
      BY <2>4, <2>5, <2>8
    <3>2. OwnOK(cache[K(ds[t])], ds[t], K(ds[t]) \in OnScreen)
      BY <1>3, <2>8, <3>1
    <3>3. K(ds[t]) \in Keys
      BY <2>3, <2>8, KeysOfAccount DEF Proper, OfOp, Kinds
    <3>4. LET e == Dealt(c, failed)[K(ds[t])] IN Fetching(e) \/ OwnOK(e, ds[t], K(ds[t]) \in OnScreen)
      BY <1>14, <3>2, <3>3, OwnDealt
    <3> QED BY <3>2, <3>4 DEF OwnOK
  <2> HIDE DEF K, c
  <2> QED BY <1>4, <2>3, <2>6, <2>7, <2>8
<1>15. CASE \E s \in Slots : Succeed(s) \/ Fail(s)
  BY <1>14, <1>15, SucceedStep, FailStep
<1>16. ASSUME NEW d, NEW L, Answered(d, L), \A k \in L : Fetching(cache[k]) PROVE OwnInv'
  <2> DEFINE cs == Loaded(calls, L)
  <2>1. Proper(cs)
    BY <1>1, ProperLoaded
  <2>2. \A s \in Slots : cs[s] # None => cs[s] = calls[s]
    BY <1>1, LoadedGoes
  <2>3. calls' = StillOwn(cs) /\ CacheOf(d) /\ Rendered(d) /\ \A k \in Keys \ L : d[k] = cache[k]
    BY <1>16 DEF Answered
  <2> HIDE DEF cs
  <2>4. ASSUME NEW t \in Slots, cs[t] # None, cs[t].op = "note", cs[t].own
        PROVE  ~Fetching(cache[K(cs[t])]) /\ OwnOK(d[K(cs[t])], cs[t], K(cs[t]) \in OnScreen)
    <3>1. OwnOK(cache[K(cs[t])], cs[t], K(cs[t]) \in OnScreen)
      BY <1>3, <2>2, <2>4
    <3>2. K(cs[t]) \in Keys
      BY <2>1, <2>4, KeysOfAccount DEF Proper, OfOp, Kinds
    <3>3. ~Fetching(cache[K(cs[t])])
      BY <3>1 DEF OwnOK
    <3>4. d[K(cs[t])] = cache[K(cs[t])]
      BY <1>16, <2>3, <3>2, <3>3
    <3> QED BY <3>1, <3>3, <3>4
  <2> HIDE DEF K
  <2> QED BY <1>4, <2>1, <2>3, <2>4
<1>17. CASE \E late : Load(late)
  <2>1. PICK d, L, late : Answered(d, L) /\ L = AskedKeys \ {late}
    BY <1>17, LoadStep
  <2>2. \A k \in L : Fetching(cache[k])
    BY <2>1 DEF AskedKeys, Fetching
  <2> QED BY <1>16, <2>1, <2>2
<1>18. ASSUME NEW k \in Keys, FailLoad(k) \/ Arrive(k) PROVE OwnInv'
  <2>1. Fetching(cache[k]) /\ \E d : Answered(d, {k})
    BY <1>18, FailLoadStep, ArriveStep DEF Fetching
  <2> QED BY <1>16, <2>1
<1>19. ASSUME NEW k \in Keys, Serve(k) PROVE OwnInv'
  <2>1. /\ \A j \in Keys \ {k} : cache'[j] = cache[j]
        /\ cache[k].fetch = "asked" /\ cache'[k].data = cache[k].data
        /\ ui' = ui /\ stored' = stored /\ calls' = calls
    BY <1>19, ServeStep
  <2>2. Listed(cache') = Listed(cache)
    <3>1. cache'[AccountsKey].data = cache[AccountsKey].data
      BY <2>1, FixedKeys
    <3> QED BY <3>1 DEF Listed
  <2>3. OnScreen' = OnScreen
    BY <2>1, <2>2 DEF OnScreen, Active, Screen
  <2> SUFFICES ASSUME NEW t \in Slots, calls[t] # None, calls[t].op = "note", calls[t].own
               PROVE  OwnOK(cache'[K(calls[t])], calls[t], K(calls[t]) \in OnScreen')
    BY <1>2, <2>1
  <2>4. OwnOK(cache[K(calls[t])], calls[t], K(calls[t]) \in OnScreen)
    BY <1>3
  <2>5. K(calls[t]) \in Keys
    BY KeysOfAccount DEF CallsInv, OfOp, Kinds
  <2>6. K(calls[t]) # k
    BY <2>1, <2>4 DEF OwnOK, Fetching
  <2> QED BY <2>1, <2>3, <2>4, <2>5, <2>6
<1>20. CASE UNCHANGED vars
  BY <1>2, <1>3, <1>20 DEF vars, OnScreen, Active
<1> QED BY <1>8, <1>9, <1>10, <1>11, <1>13, <1>15, <1>17, <1>18, <1>19, <1>20, NextCases

-----------------------------------------------------------------------------
(* The order of the templates                                              *)

\* The set of a list, and a list without repetition.
LEMMA SetOf ==
    ASSUME NEW l \in Seq(Nat)
    PROVE  /\ \A j \in 1..Len(l) : l[j] \in ToSet(l)
           /\ \A x \in ToSet(l) : \E j \in 1..Len(l) : l[j] = x
           /\ IsInjective(l) <=> \A i, j \in 1..Len(l) : l[i] = l[j] => i = j
BY DEF ToSet, IsInjective

\* Two neighbours exchanged: the same templates, as often; and if that is the
\* order of the server, so was the list before, but for one step.
LEMMA SwapIs ==
    ASSUME NEW l \in Seq(Nat), NEW i \in Int, NEW j \in Int, Neighbours(l, i, j), NEW w, w = Swapped(l, i, j)
    PROVE  /\ w \in Seq(Nat) /\ ToSet(w) = ToSet(l)
           /\ \A t : IsPermutation(w, t) => IsPermutation(l, t)
           /\ OneSwap(l, w)
<1>1. i \in 1..Len(l) /\ j \in 1..Len(l) /\ (j = i + 1 \/ j = i - 1)
  BY DEF Neighbours
<1>2. w \in Seq(Nat) /\ Len(w) = Len(l)
  BY <1>1 DEF Swapped
<1>3. w[i] = l[j] /\ w[j] = l[i] /\ \A x \in 1..Len(l) : x # i /\ x # j => w[x] = l[x]
  BY <1>1 DEF Swapped
<1>4. OneSwap(l, w)
  <2> DEFINE v(n) == [l EXCEPT ![n] = l[n + 1], ![n + 1] = l[n]]
  <2>1. ASSUME NEW n \in 1..(Len(l) - 1), w[n] = l[n + 1], w[n + 1] = l[n],
               \A x \in 1..Len(l) : x # n /\ x # n + 1 => w[x] = l[x]
        PROVE  w = v(n)
    <3>1. v(n) \in Seq(Nat) /\ Len(v(n)) = Len(l)
      BY <2>1
    <3>2. n \in 1..Len(l) /\ n + 1 \in 1..Len(l)
      BY <2>1
    <3>3. v(n)[n] = l[n + 1] /\ v(n)[n + 1] = l[n] /\ \A x \in 1..Len(l) : x # n /\ x # n + 1 => v(n)[x] = l[x]
      BY <2>1, <3>2
    <3> HIDE DEF v
    <3>4. \A x \in 1..Len(l) : w[x] = v(n)[x]
      BY <2>1, <3>3
    <3> QED BY <1>2, <3>1, <3>4, SeqEqual
  <2>2. CASE j = i + 1
    <3>1. i \in 1..(Len(l) - 1)
      BY <1>1, <2>2
    <3>2. w = v(i)
      BY <1>3, <2>1, <2>2, <3>1
    <3> QED BY <3>1, <3>2 DEF OneSwap
  <2>3. CASE j = i - 1
    <3>1. j \in 1..(Len(l) - 1) /\ i = j + 1
      BY <1>1, <2>3
    <3>2. w = v(j)
      BY <1>3, <2>1, <3>1
    <3> QED BY <3>1, <3>2 DEF OneSwap
  <2> QED BY <1>1, <2>2, <2>3
<1> DEFINE p(x) == IF x = i THEN j ELSE IF x = j THEN i ELSE x
<1>5. \A x \in 1..Len(l) : p(x) \in 1..Len(l) /\ w[p(x)] = l[x] /\ w[x] = l[p(x)]
  BY <1>1, <1>3
<1>6. \A x, y \in 1..Len(l) : p(x) = p(y) => x = y
  BY <1>1
<1> HIDE DEF p
<1>7. ToSet(w) = ToSet(l)
  <2>1. ASSUME NEW z \in ToSet(w) PROVE z \in ToSet(l)
    <3>1. PICK x \in 1..Len(l) : w[x] = z
      BY <1>2, <2>1, SetOf
    <3> QED BY <1>5, <3>1, SetOf
  <2>2. ASSUME NEW z \in ToSet(l) PROVE z \in ToSet(w)
    <3>1. PICK x \in 1..Len(l) : l[x] = z
      BY <2>2, SetOf
    <3> QED BY <1>2, <1>5, <3>1, SetOf
  <2> QED BY <2>1, <2>2
<1>8. IsInjective(w) => IsInjective(l)
  <2> SUFFICES ASSUME IsInjective(w), NEW x \in 1..Len(l), NEW y \in 1..Len(l), l[x] = l[y] PROVE x = y
    BY SetOf
  <2>1. p(x) \in 1..Len(w) /\ p(y) \in 1..Len(w) /\ w[p(x)] = w[p(y)]
    BY <1>2, <1>5
  <2>2. p(x) = p(y)
    BY <1>2, <2>1, SetOf
  <2> QED BY <1>6, <2>2
<1> QED BY <1>2, <1>4, <1>7, <1>8 DEF IsPermutation

\* What a request does to the templates: nothing; or their order is the one sent; or
\* no list that was held is a permutation of them any more.
Unordered(t, last, u, lastU) ==
    \A h : Held(h, t, last) => Held(h, u, lastU) /\ ~IsPermutation(h, u)

\* What a request makes of the templates, as `Unordered` has it.
LEMMA TemplatesAfter ==
    ASSUME srv \in SrvType, NEW c \in Requests, Accepts(c), srv' = After(c), Sound(srv.templates, srv.lastId)
    PROVE  /\ Sound(srv'.templates, srv'.lastId)
           /\ \/ c.op \notin {"reorder", "template"} /\ srv'.templates = srv.templates /\ srv'.lastId = srv.lastId
              \/ /\ c.op = "reorder" /\ srv'.templates = c.list /\ srv'.lastId = srv.lastId
                 /\ IsPermutation(c.list, srv.templates) /\ ToSet(srv'.templates) = ToSet(srv.templates)
              \/ c.op = "template" /\ Unordered(srv.templates, srv.lastId, srv'.templates, srv'.lastId)
<1> DEFINE t == srv.templates
           u == srv'.templates
           last == srv.lastId
           lastU == srv'.lastId
<1>1. t \in Seq(Nat) /\ last \in Nat /\ 2 <= last /\ IsInjective(t) /\ ToSet(t) \subseteq 1..last
  BY SrvFields DEF Sound, Held
<1>2. CASE c.op \notin {"reorder", "template"}
  <2>1. \/ srv' = [srv EXCEPT !.trades[c.acc] = @ + 1]
        \/ srv' = [srv EXCEPT !.flows[c.acc] = @ + 1]
        \/ srv' = [srv EXCEPT !.settings[c.acc] = @ + 1]
        \/ srv' = [srv EXCEPT !.list = Append(@, CHOOSE x \in Accounts : x \notin ToSet(@))]
        \/ srv' = [srv EXCEPT !.notes[c.acc][c.arg] = c.text]
    BY <1>2, AfterIs DEF Requests
  <2>2. u = t /\ lastU = last
    BY <2>1 DEF SrvType
  <2> QED BY <1>2, <2>2
<1>3. CASE c.op = "reorder"
  <2>1. srv' = [srv EXCEPT !.templates = c.list] /\ IsPermutation(c.list, t)
    BY <1>3, AfterIs DEF Accepts
  <2>2. u = c.list /\ lastU = last
    BY <2>1 DEF SrvType
  <2>3. ToSet(u) = ToSet(t) /\ IsInjective(u)
    BY <2>1, <2>2 DEF IsPermutation
  <2> QED BY <1>1, <1>3, <2>1, <2>2, <2>3 DEF Sound, Held
<1>4. CASE c.op = "template" /\ c.id = 0
  <2>1. srv' = [srv EXCEPT !.templates = Append(t, last + 1), !.lastId = last + 1]
    BY <1>4, AfterIs
  <2>2. u = Append(t, last + 1) /\ lastU = last + 1
    BY <2>1 DEF SrvType
  <2> HIDE DEF u, lastU, t, last
  <2>3. /\ u \in Seq(Nat) /\ Len(u) = Len(t) + 1 /\ u[Len(t) + 1] = last + 1
        /\ \A j \in 1..Len(t) : u[j] = t[j]
    BY <1>1, <2>2
  <2>4. ToSet(u) = ToSet(t) \cup {last + 1}
    <3>1. ASSUME NEW z \in ToSet(u) PROVE z \in ToSet(t) \cup {last + 1}
      <4>1. PICK x \in 1..(Len(t) + 1) : u[x] = z
        BY <2>3, <3>1, SetOf
      <4>2. CASE x \in 1..Len(t)
        BY <1>1, <2>3, <4>1, <4>2, SetOf
      <4>3. CASE x = Len(t) + 1
        BY <2>3, <4>1, <4>3
      <4>4. Len(t) \in Nat
        BY <1>1
      <4> QED BY <4>2, <4>3, <4>4
    <3>2. ASSUME NEW z \in ToSet(t) PROVE z \in ToSet(u)
      <4>1. PICK x \in 1..Len(t) : t[x] = z
        BY <1>1, <3>2, SetOf
      <4>2. Len(t) \in Nat
        BY <1>1
      <4>3. x \in 1..Len(u) /\ u[x] = z
        BY <2>3, <4>1, <4>2
      <4> QED BY <2>3, <4>3, SetOf
    <3>3. last + 1 \in ToSet(u)
      <4>1. Len(t) + 1 \in 1..Len(u)
        BY <1>1, <2>3
      <4> QED BY <2>3, <4>1, SetOf
    <3> QED BY <3>1, <3>2, <3>3
  <2>5. last + 1 \notin ToSet(t)
    BY <1>1
  <2>6. IsInjective(u)
    <3> SUFFICES ASSUME NEW x \in 1..(Len(t) + 1), NEW y \in 1..(Len(t) + 1), u[x] = u[y] PROVE x = y
      BY <2>3, SetOf
    <3>1. Len(t) \in Nat /\ \A z \in 1..Len(t) : u[z] # last + 1
      BY <1>1, <2>3, <2>5, SetOf
    <3>2. CASE x \in 1..Len(t) /\ y \in 1..Len(t)
      <4>1. t[x] = t[y]
        BY <2>3, <3>2
      <4> QED BY <1>1, <3>2, <4>1, SetOf
    <3>3. CASE x = Len(t) + 1 \/ y = Len(t) + 1
      BY <2>3, <3>1, <3>3
    <3> QED BY <3>1, <3>2, <3>3
  <2>7. Sound(u, lastU)
    BY <1>1, <2>2, <2>4, <2>6 DEF Sound, Held
  <2>8. ASSUME NEW h, Held(h, t, last) PROVE Held(h, u, lastU) /\ ~IsPermutation(h, u)
    <3>1. ToSet(h) \subseteq 1..last /\ (2 \in ToSet(t) => 2 \in ToSet(h))
      BY <2>8 DEF Held
    <3>2. last + 1 \notin ToSet(h)
      BY <1>1, <3>1
    <3>3. ToSet(h) \subseteq 1..lastU
      BY <1>1, <2>2, <3>1
    <3>4. 2 \in ToSet(u) => 2 \in ToSet(h)
      BY <1>1, <2>4, <3>1
    <3> QED BY <2>4, <3>2, <3>3, <3>4 DEF Held, IsPermutation
  <2>9. Unordered(t, last, u, lastU)
    BY <2>8 DEF Unordered
  <2> QED BY <1>4, <2>7, <2>9 DEF u, lastU, t, last
<1>5. CASE c.op = "template" /\ c.id # 0
  <2>1. c.id = 2 /\ 2 \in ToSet(t)
    BY <1>5 DEF Accepts, Requests
  <2>2. srv' = [srv EXCEPT !.templates = Without(t, 2)]
    <3>1. c.op = "template" /\ c.id # 0
      BY <1>5
    <3>2. After(c) = [srv EXCEPT !.templates = Without(srv.templates, c.id)]
      BY <3>1, AfterIs
    <3> QED BY <2>1, <3>2
  <2>3. u = Without(t, 2) /\ lastU = last
    BY <2>2 DEF SrvType
  <2> HIDE DEF u, lastU, t, last
  <2>4. PICK i \in 1..Len(t) : /\ t[i] = 2 /\ u \in Seq(Nat) /\ Len(u) = Len(t) - 1
                               /\ \A j \in 1..(Len(t) - 1) : u[j] = IF j < i THEN t[j] ELSE t[j + 1]
    BY <1>1, <2>1, <2>3, WithoutIs
  <2> DEFINE p(j) == IF j < i THEN j ELSE j + 1
  <2>5. Len(t) \in Nat
    BY <1>1
  <2>6. \A j \in 1..Len(u) : p(j) \in 1..Len(t) /\ p(j) # i /\ u[j] = t[p(j)]
    BY <2>4, <2>5
  <2>7. \A x, y \in 1..Len(u) : p(x) = p(y) => x = y
    BY <2>4, <2>5
  <2> HIDE DEF p
  <2>8. \A j \in 1..Len(u) : u[j] # 2 /\ u[j] \in ToSet(t)
    <3> SUFFICES ASSUME NEW j \in 1..Len(u) PROVE u[j] # 2 /\ u[j] \in ToSet(t)
      OBVIOUS
    <3>1. p(j) \in 1..Len(t) /\ p(j) # i /\ u[j] = t[p(j)]
      BY <2>6
    <3>2. \A x, y \in 1..Len(t) : t[x] = t[y] => x = y
      BY <1>1, SetOf
    <3>3. t[p(j)] # 2
      BY <2>4, <3>1, <3>2
    <3> QED BY <1>1, <3>1, <3>3, SetOf
  <2>9. 2 \notin ToSet(u) /\ ToSet(u) \subseteq ToSet(t)
    <3>1. \A x \in ToSet(u) : \E j \in 1..Len(u) : u[j] = x
      BY <2>4, SetOf
    <3> QED BY <2>8, <3>1
  <2>10. IsInjective(u)
    <3> SUFFICES ASSUME NEW x \in 1..Len(u), NEW y \in 1..Len(u), u[x] = u[y] PROVE x = y
      BY <2>4, SetOf
    <3>1. t[p(x)] = t[p(y)] /\ p(x) \in 1..Len(t) /\ p(y) \in 1..Len(t)
      BY <2>6
    <3>2. p(x) = p(y)
      BY <1>1, <3>1, SetOf
    <3> QED BY <2>7, <3>2
  <2>11. Sound(u, lastU)
    BY <1>1, <2>3, <2>9, <2>10 DEF Sound, Held
  <2>12. Unordered(t, last, u, lastU)
    BY <2>1, <2>3, <2>9 DEF Unordered, Held, IsPermutation
  <2> QED BY <1>5, <2>11, <2>12 DEF u, lastU, t, last
<1> QED BY <1>2, <1>3, <1>4, <1>5

\* A render, and calls that go on, keep the lists as they are.
SameOrders(cs, ds) ==
    \A s \in Slots :
        /\ cs[s] = None <=> ds[s] = None
        /\ cs[s] # None => /\ ds[s].op = cs[s].op /\ ds[s].phase = cs[s].phase /\ ds[s].list = cs[s].list
                           /\ cs[s].blind => ds[s].blind
\* What holds of the lists holds when calls and entry are the same to it.
LEMMA OrderedOn ==
    ASSUME NEW e, NEW f, NEW cs, NEW ds, NEW m, NEW t, NEW last, Ordered(e, cs, m, t, last),
           f.data = e.data, f.fetch = "served" => e.fetch = "served" /\ f.reply = e.reply, SameOrders(cs, ds)
    PROVE  Ordered(f, ds, m, t, last)
<1>1. \A P : \A s \in Slots : Reorder(ds[s], P) <=> Reorder(cs[s], P)
  BY DEF SameOrders, Reorder
<1>2. ListsHeld(f, ds, t, last)
  BY <1>1 DEF Ordered, ListsHeld, SameOrders, Reorder
<1>3. \A P : Ordering(ds, P) <=> Ordering(cs, P)
  BY <1>1 DEF Ordering
<1>4. ShownInOrder(f, ds, m, t)
  BY <1>3 DEF Ordered, ShownInOrder
<1>5. SentAlone(ds, t)
  <2> SUFFICES ASSUME NEW s \in Slots, ds[s] # None, ds[s].op = "reorder", ~ds[s].blind
               PROVE  /\ \A r \in Slots : r # s => ~(ds[r] # None /\ ds[r].op = "reorder")
                      /\ ds[s].phase = "sent" /\ IsPermutation(ds[s].list, t) => OneSwap(t, ds[s].list)
    BY DEF SentAlone
  <2>1. cs[s] # None /\ cs[s].op = "reorder" /\ ~cs[s].blind /\ cs[s].phase = ds[s].phase /\ cs[s].list = ds[s].list
    BY DEF SameOrders
  <2>2. /\ \A r \in Slots : r # s => ~(cs[r] # None /\ cs[r].op = "reorder")
        /\ cs[s].phase = "sent" /\ IsPermutation(cs[s].list, t) => OneSwap(t, cs[s].list)
    BY <2>1 DEF Ordered, SentAlone
  <2>3. \A r \in Slots : r # s => ~(ds[r] # None /\ ds[r].op = "reorder")
    BY <2>2 DEF SameOrders
  <2> QED BY <2>1, <2>2, <2>3
<1> QED BY <1>2, <1>4, <1>5 DEF Ordered

\* What the user does leaves the changes of order as they are, or blind.
LEMMA SameGoing ==
    ASSUME NEW cs, Going(cs)
    PROVE  SameOrders(calls, cs)
BY DEF Going, SameOrders, Like

\* And so does a render.
LEMMA SameStill ==
    ASSUME NEW cs \in CallsType
    PROVE  SameOrders(cs, StillOwn(cs))
BY StillOwnEffect DEF SameOrders, Like

\* What is to be shown of the cache that is rendered.
LEMMA OrderRendered ==
    ASSUME OrderInv, NEW d, CacheOf(d), Rendered(d), srv' = srv, NEW cs \in CallsType, calls' = StillOwn(cs),
           Ordered(d[TemplatesKey], cs, missed', srv.templates, srv.lastId)
    PROVE  OrderInv'
<1> DEFINE e == d[TemplatesKey]
           f == cache'[TemplatesKey]
           ds == calls'
           m == missed'
<1>1. e \in Entries(TemplatesKey) /\ Mounted(e, f)
  BY FixedKeys DEF CacheOf, Rendered
<1>2. f.data = e.data /\ (f.fetch = "served" => e.fetch = "served" /\ f.reply = e.reply)
  BY <1>1, EntryFields DEF Mounted
<1>3. SameOrders(cs, ds)
  BY SameStill
<1> HIDE DEF e, f, ds, m
<1>4. Ordered(f, ds, m, srv.templates, srv.lastId)
  BY <1>2, <1>3, OrderedOn DEF e, m
<1> QED BY <1>4 DEF OrderInv, f, ds, m

\* The list of templates on screen.
LEMMA TemplatesTyped ==
    ASSUME NEW c, CacheOf(c), c[TemplatesKey].data # None
    PROVE  c[TemplatesKey].data \in Seq(Nat)
<1>1. c[TemplatesKey] \in Entries(TemplatesKey)
  BY FixedKeys DEF CacheOf
<1> QED BY <1>1, AnswersAre DEF Entries

\* A mutation starts.
LEMMA StartedOrder ==
    ASSUME TypeOK, OrderInv, NEW d, NEW cs, NEW s, NEW c, Started(d, cs, s, c), d[TemplatesKey] = cache[TemplatesKey],
           c.op = "reorder" => MoveOf(c, cs)
    PROVE  OrderInv'
<1> DEFINE t == srv.templates
           last == srv.lastId
           e == cache[TemplatesKey]
           ds == [cs EXCEPT ![s] = c]
<1>1. /\ CacheOf(d) /\ Rendered(d) /\ srv' = srv /\ missed' = missed /\ Going(cs) /\ calls' = StillOwn(ds)
      /\ s \in Slots /\ calls[s] = None /\ c \in Requests /\ c.phase = "sent"
  BY DEF Started
<1>2. ds \in CallsType /\ ds[s] = c /\ c # None /\ \A r \in Slots : r # s => ds[r] = cs[r]
  BY <1>1, NoneAssumption DEF Going, CallsType
<1>3. cs[s] = None
  BY <1>1 DEF Going
<1>4. Ordered(e, cs, missed, t, last)
  BY <1>1, SameGoing, OrderedOn DEF OrderInv
<1>5. CacheOf(cache)
  BY Typed
<1>6. e.data # None => e.data \in Seq(Nat)
  BY <1>5, TemplatesTyped
<1>7. calls' = StillOwn(ds)
  BY <1>1
<1> HIDE DEF ds
<1>8. ListsHeld(e, ds, t, last)
  <2>1. ASSUME Reorder(c, {"sent"}) PROVE Held(c.list, t, last)
    <3>1. e.data # None
      BY <2>1 DEF MoveOf, Reorder
    <3>2. PICK i, j \in Int : Neighbours(e.data, i, j) /\ c.list = Swapped(e.data, i, j)
      BY <2>1 DEF MoveOf, Reorder
    <3>3. ToSet(c.list) = ToSet(e.data)
      BY <1>6, <3>1, <3>2, SwapIs
    <3>4. Held(e.data, t, last)
      BY <1>4, <3>1 DEF Ordered, ListsHeld
    <3> QED BY <3>3, <3>4 DEF Held
  <2> QED BY <1>2, <1>4, <2>1 DEF Ordered, ListsHeld
<1>9. ShownInOrder(e, ds, missed, t)
  <2>1. \A P : "sent" \notin P => (Ordering(ds, P) <=> Ordering(cs, P))
    BY <1>1, <1>2, <1>3 DEF Ordering, Reorder
  <2>2. Ordering(ds, {"committed", "settling"}) <=> Ordering(cs, {"committed", "settling"})
    BY <2>1
  <2>3. Ordering(ds, {"committed"}) <=> Ordering(cs, {"committed"})
    BY <2>1
  <2> QED BY <1>4, <2>2, <2>3 DEF Ordered, ShownInOrder
<1>10. SentAlone(ds, t)
  <2> SUFFICES ASSUME NEW r \in Slots, ds[r] # None, ds[r].op = "reorder", ~ds[r].blind
               PROVE  /\ \A q \in Slots : q # r => ~(ds[q] # None /\ ds[q].op = "reorder")
                      /\ ds[r].phase = "sent" /\ IsPermutation(ds[r].list, t) => OneSwap(t, ds[r].list)
    BY DEF SentAlone
  <2>1. CASE r = s
    <3>1. /\ LastOrder \notin missed /\ e.data # None
          /\ \A q \in Slots : ~(calls[q] # None /\ calls[q].op = "reorder")
      BY <1>2, <2>1 DEF MoveOf
    <3>2. \A q \in Slots : ~(cs[q] # None /\ cs[q].op = "reorder")
      BY <1>1, <3>1 DEF Going, Like
    <3>3. \A q \in Slots : q # r => ~(ds[q] # None /\ ds[q].op = "reorder")
      BY <1>2, <2>1, <3>2
    <3>4. PICK i, j \in Int : Neighbours(e.data, i, j) /\ c.list = Swapped(e.data, i, j)
      BY <1>2, <2>1 DEF MoveOf
    <3>5. /\ IsPermutation(c.list, t) => IsPermutation(e.data, t)
          /\ OneSwap(e.data, c.list)
      BY <1>6, <3>1, <3>4, SwapIs
    <3>6. OrderOK(e.data, t)
      BY <1>4, <3>1, <3>2 DEF Ordered, ShownInOrder, Ordering, Reorder
    <3>7. IsPermutation(c.list, t) => OneSwap(t, c.list)
      BY <3>5, <3>6 DEF OrderOK
    <3> QED BY <1>2, <2>1, <3>3, <3>7
  <2>2. CASE r # s
    <3>1. cs[r] = ds[r]
      BY <1>2, <2>2
    <3>2. c.op # "reorder"
      BY <3>1 DEF MoveOf
    <3>3. \A q \in Slots : q # r => ~(ds[q] # None /\ ds[q].op = "reorder")
      BY <1>2, <1>4, <3>1, <3>2 DEF Ordered, SentAlone
    <3>4. ds[r].phase = "sent" /\ IsPermutation(ds[r].list, t) => OneSwap(t, ds[r].list)
      BY <1>4, <3>1 DEF Ordered, SentAlone
    <3> QED BY <3>3, <3>4
  <2> QED BY <2>1, <2>2
<1>11. Ordered(d[TemplatesKey], ds, missed', t, last)
  BY <1>1, <1>8, <1>9, <1>10 DEF Ordered
<1> QED BY <1>1, <1>2, <1>7, <1>11, OrderRendered

\* A request takes effect, or is refused.
LEMMA ServedOrder ==
    ASSUME TypeOK, OrderInv, NEW s \in Slots, Commit(s) \/ Refuse(s)
    PROVE  OrderInv'
<1> DEFINE t == srv.templates
           last == srv.lastId
           u == srv'.templates
           lastU == srv'.lastId
           e == cache[TemplatesKey]
           c == calls[s]
           ds == calls'
<1>1. srv \in SrvType /\ calls \in CallsType /\ c \in Requests /\ c # None /\ c.phase = "sent"
  BY Typed DEF Commit, Refuse, Sent, CallsType
<1>2. PICK phase \in {"committed", "refused"} :
        /\ calls' = [calls EXCEPT ![s].phase = phase]
        /\ phase = "committed" => Accepts(c) /\ srv' = After(c)
        /\ phase = "refused" => srv' = srv
        /\ cache' = cache /\ missed' = missed
  BY DEF Commit, Refuse
<1> DEFINE x == [c EXCEPT !.phase = phase]
<1>3. x # None /\ x.phase = phase /\ x.op = c.op /\ x.list = c.list /\ x.blind = c.blind
  BY <1>1, PhaseTyped
<1>4. ds[s] = x /\ \A r \in Slots : r # s => ds[r] = calls[r]
  BY <1>1, <1>2 DEF CallsType
<1>5. Sound(t, last) /\ Ordered(e, calls, missed, t, last)
  BY DEF OrderInv
<1> HIDE DEF x, ds
<1>6. \A r \in Slots :
        /\ calls[r] = None <=> ds[r] = None
        /\ calls[r] # None => ds[r].op = calls[r].op /\ ds[r].list = calls[r].list /\ ds[r].blind = calls[r].blind
        /\ ds[r] # None /\ ds[r].phase = "sent" => calls[r].phase = "sent"
        /\ calls[r] # None /\ calls[r].phase \in {"committed", "settling"} => ds[r].phase = calls[r].phase
  BY <1>1, <1>3, <1>4
<1>7. \A r \in Slots : Reorder(ds[r], {"sent"}) => Reorder(calls[r], {"sent"}) /\ ds[r].list = calls[r].list
  BY <1>6 DEF Reorder
<1>8. /\ Ordering(calls, {"committed", "settling"}) => Ordering(ds, {"committed", "settling"})
      /\ Ordering(calls, {"committed"}) => Ordering(ds, {"committed"})
  BY <1>6 DEF Ordering, Reorder
<1>9. \/ u = t /\ lastU = last /\ (phase = "refused" \/ c.op # "reorder")
      \/ phase = "committed" /\ c.op = "reorder" /\ ToSet(u) = ToSet(t) /\ lastU = last
      \/ Unordered(t, last, u, lastU)
  BY <1>1, <1>2, <1>5, TemplatesAfter
<1>10. Sound(u, lastU)
  BY <1>1, <1>2, <1>5, TemplatesAfter
<1> HIDE DEF t, last, u, lastU, c
<1>11. ListsHeld(e, ds, u, lastU)
  <2>1. \A h : Held(h, t, last) => Held(h, u, lastU)
    BY <1>9 DEF Held, Unordered
  <2> QED BY <1>5, <1>7, <2>1 DEF Ordered, ListsHeld
<1>12. ShownInOrder(e, ds, missed, u)
  <2>1. CASE u = t
    BY <1>5, <1>8, <2>1 DEF Ordered, ShownInOrder
  <2>2. CASE phase = "committed" /\ c.op = "reorder"
    <3>1. Ordering(ds, {"committed", "settling"}) /\ Ordering(ds, {"committed"})
      BY <1>3, <1>4, <2>2 DEF Ordering, Reorder
    <3> QED BY <3>1 DEF ShownInOrder
  <2>3. CASE Unordered(t, last, u, lastU)
    BY <1>5, <2>3 DEF Ordered, ListsHeld, Unordered, ShownInOrder, OrderOK
  <2> QED BY <1>9, <2>1, <2>2, <2>3
<1>13. SentAlone(ds, u)
  <2> SUFFICES ASSUME NEW r \in Slots, ds[r] # None, ds[r].op = "reorder", ~ds[r].blind
               PROVE  /\ \A q \in Slots : q # r => ~(ds[q] # None /\ ds[q].op = "reorder")
                      /\ ds[r].phase = "sent" /\ IsPermutation(ds[r].list, u) => OneSwap(u, ds[r].list)
    BY DEF SentAlone
  <2>1. calls[r] # None /\ calls[r].op = "reorder" /\ ~calls[r].blind /\ ds[r].list = calls[r].list
    BY <1>6
  <2>2. /\ \A q \in Slots : q # r => ~(calls[q] # None /\ calls[q].op = "reorder")
        /\ calls[r].phase = "sent" /\ IsPermutation(calls[r].list, t) => OneSwap(t, calls[r].list)
    BY <1>5, <2>1 DEF Ordered, SentAlone
  <2>3. \A q \in Slots : q # r => ~(ds[q] # None /\ ds[q].op = "reorder")
    BY <1>6, <2>2
  <2>4. ASSUME ds[r].phase = "sent", IsPermutation(ds[r].list, u) PROVE OneSwap(u, ds[r].list)
    <3>1. calls[r].phase = "sent"
      BY <1>6, <2>4
    <3>2. r # s
      BY <1>3, <1>4, <2>4
    <3>3. c.op # "reorder"
      BY <1>1, <2>2, <3>2 DEF c
    <3>4. Held(ds[r].list, t, last)
      BY <1>5, <2>1, <3>1 DEF Ordered, ListsHeld, Reorder
    <3>5. u = t
      BY <1>9, <2>4, <3>3, <3>4 DEF Unordered
    <3> QED BY <2>1, <2>2, <2>4, <3>1, <3>5
  <2> QED BY <2>3, <2>4
<1>14. Ordered(e, ds, missed, u, lastU)
  BY <1>11, <1>12, <1>13 DEF Ordered
<1> QED BY <1>2, <1>10, <1>14 DEF OrderInv, u, lastU, ds

\* A mutation is answered.
LEMMA EndedOrder ==
    ASSUME TypeOK, CallsInv, OrderInv, NEW s, NEW failed \in BOOLEAN, Ended(s, calls[s], failed)
    PROVE  OrderInv'
<1> DEFINE t == srv.templates
           last == srv.lastId
           e == cache[TemplatesKey]
           c == calls[s]
           d == Dealt(c, failed)
           f == d[TemplatesKey]
<1>1. /\ CacheOf(cache) /\ calls \in CallsType /\ s \in Slots /\ c \in Requests /\ OfOp(c) /\ c # None
  BY Typed DEF Ended, CallsType, CallsInv
<1>2. PICK x \in {None, [c EXCEPT !.phase = "settling"]} :
            /\ calls' = StillOwn([calls EXCEPT ![s] = x])
            /\ c.op = "reorder" /\ (c.phase = "committed" \/ ~failed) /\ x = None => LastOrder \in missed'
            /\ x # None => ~failed /\ c.op = "reorder"
  BY DEF Ended
<1> DEFINE ds == [calls EXCEPT ![s] = x]
<1>3. ds \in CallsType /\ ds[s] = x /\ \A r \in Slots : r # s => ds[r] = calls[r]
  BY <1>1, <1>2, PhaseTyped DEF CallsType
<1>4. x # None => x.phase = "settling" /\ x.op = c.op /\ x.list = c.list /\ x.blind = c.blind
  BY <1>1, <1>2, PhaseTyped
<1>5. CacheOf(d) /\ Rendered(d) /\ srv' = srv /\ missed \subseteq missed'
      /\ (failed => c.phase \in {"sent", "refused", "committed"}) /\ (~failed => c.phase = "committed")
  BY DEF Ended
<1>6. Sound(t, last) /\ Ordered(e, calls, missed, t, last)
  BY DEF OrderInv
\* What a sweep makes of the entry.
<1>7. /\ f.data = e.data
      /\ f.fetch = "served" => /\ e.fetch = "served" /\ f.reply = e.reply
                               /\ ~failed /\ c.op = "reorder" => TemplatesKey \notin OnScreen \/ e.data = None
  <2>1. CASE failed /\ c.op # "note"
    BY <2>1 DEF Dealt
  <2>2. CASE ~(failed /\ c.op # "note")
    <3> DEFINE w == Undone(c, failed)
               i == Invalidate(w, Sweep(c), OnScreen)[TemplatesKey]
    <3>1. f = i
      BY <2>2 DEF Dealt, Swept
    <3>2. CacheOf(w) /\ w[TemplatesKey] = e
      <4>1. CASE failed /\ c.op = "note"
        <5>1. TemplatesKey # <<"notes", c.hook>>
          BY DEF TemplatesKey
        <5> QED BY <1>1, <4>1, <5>1, FixedKeys, RolledBack DEF Undone
      <4>2. CASE ~(failed /\ c.op = "note")
        BY <1>1, <4>2 DEF Undone
      <4> QED BY <4>1, <4>2
    <3> HIDE DEF w
    <3>3. /\ i.data = w[TemplatesKey].data
          /\ i = w[TemplatesKey] \/ i.fetch = "asked" \/ (i.fetch = w[TemplatesKey].fetch /\ i.reply = w[TemplatesKey].reply)
          /\ TemplatesKey \in Sweep(c) /\ TemplatesKey \in OnScreen /\ w[TemplatesKey] # NoEntry /\ w[TemplatesKey].data # None
                => i.fetch = "asked"
      BY <3>2, FixedKeys, InvalidEntry
    <3> HIDE DEF i
    <3>4. c.op = "reorder" => TemplatesKey \in Sweep(c)
      BY DEF Sweep
    <3>5. e.data # None => e # NoEntry
      BY DEF NoEntry
    <3>6. f.data = e.data
      BY <3>1, <3>2, <3>3
    <3>7. f.fetch = "served" => e.fetch = "served" /\ f.reply = e.reply
      BY <3>1, <3>2, <3>3
    <3>8. f.fetch = "served" /\ c.op = "reorder" => TemplatesKey \notin OnScreen \/ e.data = None
      BY <3>1, <3>2, <3>3, <3>4, <3>5
    <3> QED BY <3>6, <3>7, <3>8
  <2> QED BY <2>1, <2>2
<1> HIDE DEF d, f, ds, c
<1>8. ListsHeld(f, ds, t, last)
  <2>1. \A r \in Slots : Reorder(ds[r], {"sent"}) => r # s /\ ds[r] = calls[r]
    BY <1>3, <1>4 DEF Reorder
  <2> QED BY <1>6, <1>7, <2>1 DEF Ordered, ListsHeld
\* Who is between effect and sweep is still so, or is the one who is answered.
<1>9. \A P : Ordering(calls, P) => Ordering(ds, P) \/ Reorder(c, P)
  BY <1>1, <1>3 DEF Ordering, c
<1>10. ShownInOrder(f, ds, missed', t)
  <2>1. ASSUME f.data # None, LastOrder \notin missed', ~Ordering(ds, {"committed", "settling"})
        PROVE  OrderOK(f.data, t)
    <3>1. ~Reorder(c, {"committed", "settling"})
      <4>1. ASSUME c.op = "reorder", c.phase \in {"committed", "settling"} PROVE FALSE
        <5>1. c.phase = "committed"
          BY <1>5, <4>1
        <5>2. x # None
          BY <1>2, <2>1, <4>1, <5>1
        <5>3. Reorder(ds[s], {"committed", "settling"})
          BY <1>2, <1>3, <1>4, <5>2 DEF Reorder
        <5> QED BY <1>1, <2>1, <5>3 DEF Ordering
      <4> QED BY <4>1 DEF Reorder
    <3>2. ~Ordering(calls, {"committed", "settling"}) /\ LastOrder \notin missed
      BY <1>5, <1>9, <2>1, <3>1
    <3> QED BY <1>6, <1>7, <2>1, <3>2 DEF Ordered, ShownInOrder
  <2>2. ASSUME f.fetch = "served", TemplatesKey \notin missed', ~Ordering(ds, {"committed"})
        PROVE  OrderOK(f.reply, t)
    <3>1. e.fetch = "served" /\ f.reply = e.reply
      BY <1>7, <2>2
    <3>2. CASE ~Reorder(c, {"committed"})
      <4>1. ~Ordering(calls, {"committed"}) /\ TemplatesKey \notin missed
        BY <1>5, <1>9, <2>2, <3>2
      <4> QED BY <1>6, <3>1, <4>1 DEF Ordered, ShownInOrder
    <3>3. CASE Reorder(c, {"committed"}) /\ failed
      <4>1. c.op = "reorder" /\ Changed(c) = {TemplatesKey}
        BY <3>3 DEF Reorder, Changed
      <4>2. Cached(Changed(c)) \subseteq missed'
        BY <3>3, <4>1 DEF Ended, c
      <4>3. e # NoEntry
        BY <3>1 DEF NoEntry
      <4> QED BY <2>2, <4>1, <4>2, <4>3 DEF Cached
    <3>4. CASE Reorder(c, {"committed"}) /\ ~failed
      <4>1. c.op = "reorder" /\ Sweep(c) = {TemplatesKey}
        BY <3>4 DEF Reorder, Sweep
      <4>2. TemplatesKey \notin OnScreen \/ e.data = None
        BY <1>7, <2>2, <3>4, <4>1
      <4>3. Overtaken(cache, Sweep(c), OnScreen) \subseteq missed'
        BY <3>4 DEF Ended, c
      <4>4. e.reply = t
        BY <2>2, <3>1, <4>1, <4>2, <4>3, ValuesAre DEF Overtaken
      <4> QED BY <3>1, <4>4 DEF OrderOK
    <3> QED BY <3>2, <3>3, <3>4
  <2> QED BY <2>1, <2>2 DEF ShownInOrder
<1>11. SentAlone(ds, t)
  <2>1. \A r \in Slots : ds[r] # None => /\ calls[r] # None /\ ds[r].op = calls[r].op /\ ds[r].list = calls[r].list
                                         /\ ds[r].blind = calls[r].blind
                                         /\ ds[r].phase = "sent" => calls[r].phase = "sent"
    BY <1>1, <1>3, <1>4 DEF c
  <2> QED BY <1>6, <2>1 DEF Ordered, SentAlone
<1>12. Ordered(f, ds, missed', t, last)
  BY <1>8, <1>10, <1>11 DEF Ordered
<1>13. calls' = StillOwn(ds)
  BY <1>2 DEF ds
<1> QED BY <1>3, <1>5, <1>12, <1>13, OrderRendered DEF f

\* Loads are answered.
LEMMA AnsweredOrder ==
    ASSUME TypeOK, OrderInv, NEW d, NEW K, Answered(d, K),
           LET f == d[TemplatesKey]
               t == srv.templates
           IN /\ f.data # None => Held(f.data, t, srv.lastId)
              /\ f.fetch = "served" => Held(f.reply, t, srv.lastId)
              /\ ShownInOrder(f, Loaded(calls, K), missed', t)
    PROVE  OrderInv'
<1> DEFINE t == srv.templates
           last == srv.lastId
           f == d[TemplatesKey]
           ds == Loaded(calls, K)
<1>1. calls \in CallsType
  BY Typed
<1>2. ds \in CallsType /\ \A s \in Slots : ds[s] \in {None, calls[s]}
  BY <1>1, LoadedGoes
<1>3. CacheOf(d) /\ Rendered(d) /\ srv' = srv /\ calls' = StillOwn(ds)
  BY DEF Answered
<1>4. ListsHeld(cache[TemplatesKey], calls, t, last) /\ SentAlone(calls, t)
  BY DEF OrderInv, Ordered
<1> HIDE DEF ds, f
<1>5. ListsHeld(f, ds, t, last)
  <2>1. \A s \in Slots : Reorder(ds[s], {"sent"}) => ds[s] = calls[s]
    BY <1>2 DEF Reorder
  <2> QED BY <1>4, <2>1 DEF ListsHeld, f
<1>6. SentAlone(ds, t)
  BY <1>2, <1>4 DEF SentAlone
<1>7. Ordered(f, ds, missed', t, last)
  BY <1>5, <1>6 DEF Ordered, f, ds
<1> QED BY <1>2, <1>3, <1>7, OrderRendered DEF f

\* Nothing is known of the order when the load is of something else.
LEMMA AnsweredElse ==
    ASSUME TypeOK, OrderInv, NEW d, NEW K, Answered(d, K), TemplatesKey \notin K,
           LastOrder \in missed => LastOrder \in missed', TemplatesKey \in missed => TemplatesKey \in missed'
    PROVE  OrderInv'
<1> DEFINE ds == Loaded(calls, K)
           f == d[TemplatesKey]
<1>1. calls \in CallsType
  BY Typed
<1>2. ds = calls
  <2>1. \A s \in Slots : ds[s] = calls[s]
    BY <1>1, LoadedGoes DEF CallsType
  <2>2. ds \in CallsType
    BY <1>1, LoadedGoes
  <2> HIDE DEF ds
  <2> QED BY <1>1, <2>1, <2>2 DEF CallsType
<1>3. f = cache[TemplatesKey]
  BY FixedKeys DEF Answered
<1>4. Ordered(f, calls, missed, srv.templates, srv.lastId)
  BY <1>3 DEF OrderInv
<1>5. /\ f.data # None => Held(f.data, srv.templates, srv.lastId)
      /\ f.fetch = "served" => Held(f.reply, srv.templates, srv.lastId)
  BY <1>4 DEF Ordered, ListsHeld
<1>6. ShownInOrder(f, ds, missed', srv.templates)
  BY <1>2, <1>4 DEF Ordered, ShownInOrder
<1> QED BY <1>5, <1>6, AnsweredOrder

\* Every step keeps the order.
LEMMA OrderStep ==
    ASSUME TypeOK, CallsInv, OrderInv, [Next]_vars
    PROVE  OrderInv'
<1> DEFINE t == srv.templates
           last == srv.lastId
           e == cache[TemplatesKey]
<1>1. CacheOf(cache) /\ calls \in CallsType /\ srv \in SrvType
  BY Typed
<1>2. Sound(t, last) /\ Ordered(e, calls, missed, t, last)
  BY DEF OrderInv
<1>3. ASSUME NEW cs, Quiet(cs) PROVE OrderInv'
  <2>1. /\ Rendered(cache) /\ Going(cs) /\ calls' = StillOwn(cs) /\ srv' = srv /\ missed' = missed
    BY <1>3 DEF Quiet
  <2>2. Ordered(e, cs, missed', t, last)
    BY <1>2, <2>1, SameGoing, OrderedOn
  <2> QED BY <1>1, <2>1, <2>2, OrderRendered DEF Going
<1>4. CASE Screens
  BY <1>3, <1>4, ScreenStep
<1>5. CASE Plain
  BY <1>5, PlainStep, StartedOrder
<1>6. ASSUME NEW p \in Periods, NEW text \in Notes, SaveNote(p, text) PROVE OrderInv'
  <2>0. PICK s \in Slots : \E c, cs, d : Started(d, cs, s, c) /\ c.op = "note" /\ NoteOf(c, cs, d)
    BY <1>6, NoteStep
  <2>1. PICK c, cs, d : Started(d, cs, s, c) /\ c.op = "note" /\ NoteOf(c, cs, d)
    BY <2>0
  <2>2. TemplatesKey # <<"notes", c.acc>>
    BY DEF TemplatesKey
  <2>3. d[TemplatesKey] = cache[TemplatesKey]
    BY <2>1, <2>2, FixedKeys DEF NoteOf
  <2> QED BY <2>1, <2>3, StartedOrder
<1>7. CASE \E i \in 1..4, delta \in {-1, 1} : Move(i, delta)
  BY <1>7, MoveStep, StartedOrder
<1>8. CASE \E s \in Slots : Commit(s) \/ Refuse(s)
  BY <1>8, ServedOrder
<1>9. CASE \E s \in Slots : Succeed(s) \/ Fail(s)
  BY <1>9, SucceedStep, FailStep, EndedOrder
<1>10. ASSUME NEW late, Load(late) PROVE OrderInv'
  <2>1. PICK d, K : /\ Answered(d, K) /\ \A k \in K : d[k] = Fresh(Value(k))
                    /\ K = AskedKeys \ {late} /\ missed' = missed \ (K \cup OrderOf(K))
    BY <1>10, LoadStep
  <2>2. CASE TemplatesKey \in K
    <3> DEFINE f == d[TemplatesKey]
    <3>1. f.data = t /\ f.fetch = "idle"
      <4>1. f = Fresh(Value(TemplatesKey))
        BY <2>1, <2>2
      <4>2. f = Fresh(t)
        BY <4>1, ValuesAre
      <4> HIDE DEF f
      <4> QED BY <4>2 DEF Fresh
    <3> HIDE DEF f
    <3>2. /\ f.data # None => Held(f.data, t, last)
          /\ f.fetch = "served" => Held(f.reply, t, last)
      BY <1>2, <3>1 DEF Sound
    <3>3. ShownInOrder(f, Loaded(calls, K), missed', t)
      BY <3>1 DEF ShownInOrder, OrderOK
    <3> QED BY <2>1, <3>2, <3>3, AnsweredOrder DEF f
  <2>3. CASE TemplatesKey \notin K
    <3>1. LastOrder \notin K
      BY <2>1, FixedKeys DEF AskedKeys
    <3>2. /\ LastOrder \in missed => LastOrder \in missed'
          /\ TemplatesKey \in missed => TemplatesKey \in missed'
      BY <2>1, <2>3, <3>1 DEF OrderOf
    <3> QED BY <2>1, <2>3, <3>2, AnsweredElse
  <2> QED BY <2>2, <2>3
<1>11. ASSUME NEW k \in Keys, Arrive(k) PROVE OrderInv'
  <2>1. PICK d : Answered(d, {k}) /\ d[k] = Fresh(cache[k].reply)
    BY <1>11, ArriveStep
  <2>2. cache[k].fetch = "served" /\ missed' = IF k \in missed THEN missed \cup OrderOf({k}) ELSE missed \ OrderOf({k})
    BY <1>11, ArriveStep
  <2>3. CASE k = TemplatesKey
    <3> DEFINE f == d[TemplatesKey]
               ds == Loaded(calls, {TemplatesKey})
    <3>1. f.data = e.reply /\ f.fetch = "idle" /\ e.fetch = "served"
      BY <2>1, <2>2, <2>3 DEF Fresh
    <3>2. Held(f.data, t, last)
      BY <1>2, <3>1 DEF Ordered, ListsHeld
    <3> HIDE DEF f
    <3>3. ASSUME LastOrder \notin missed', ~Ordering(ds, {"committed", "settling"}) PROVE OrderOK(f.data, t)
      <4>1. TemplatesKey \notin missed
        BY <2>2, <2>3, <3>3 DEF OrderOf
      <4>2. \A s \in Slots : Reorder(calls[s], {"committed"}) => Reorder(ds[s], {"committed", "settling"})
        <5>1. \A s \in Slots : calls[s] # None /\ calls[s].phase # "settling" => ds[s] = calls[s]
          BY <1>1, LoadedGoes
        <5> HIDE DEF ds
        <5> QED BY <5>1 DEF Reorder
      <4>3. ~Ordering(calls, {"committed"})
        BY <3>3, <4>2 DEF Ordering
      <4> QED BY <1>2, <3>1, <4>1, <4>3 DEF Ordered, ShownInOrder
    <3>4. ShownInOrder(f, ds, missed', t)
      BY <3>1, <3>3 DEF ShownInOrder
    <3> QED BY <2>1, <2>3, <3>1, <3>2, <3>4, AnsweredOrder DEF f
  <2>4. CASE k # TemplatesKey
    <3>1. missed' = missed
      BY <2>2, <2>4 DEF OrderOf
    <3> QED BY <2>1, <2>4, <3>1, AnsweredElse
  <2> QED BY <2>3, <2>4
<1>12. ASSUME NEW k \in Keys, FailLoad(k) PROVE OrderInv'
  <2>1. PICK d : Answered(d, {k}) /\ d[k].fetch = "failed" /\ d[k].data = cache[k].data
    BY <1>12, FailLoadStep
  <2>2. missed' = missed \cup (IF Loaded(calls, {k}) # calls THEN {LastOrder} ELSE {})
    BY <1>12, FailLoadStep
  <2>3. CASE k = TemplatesKey
    <3> DEFINE f == d[TemplatesKey]
               ds == Loaded(calls, {k})
    <3>1. f.data = e.data /\ f.fetch = "failed"
      BY <2>1, <2>3
    <3> HIDE DEF f
    <3>2. /\ f.data # None => Held(f.data, t, last)
          /\ f.fetch = "served" => Held(f.reply, t, last)
      BY <1>2, <3>1 DEF Ordered, ListsHeld
    <3>3. LastOrder \notin missed' => ds = calls /\ LastOrder \notin missed
      BY <2>2
    <3> HIDE DEF ds
    <3>4. ShownInOrder(f, ds, missed', t)
      BY <1>2, <3>1, <3>3 DEF Ordered, ShownInOrder
    <3> QED BY <2>1, <3>2, <3>4, AnsweredOrder DEF f, ds
  <2>4. CASE k # TemplatesKey
    BY <2>1, <2>2, <2>4, AnsweredElse
  <2> QED BY <2>3, <2>4
<1>13. ASSUME NEW k \in Keys, Serve(k) PROVE OrderInv'
  <2> DEFINE f == cache'[TemplatesKey]
  <2>1. /\ \A j \in Keys \ {k} : cache'[j] = cache[j]
        /\ cache'[k].fetch = "served" /\ cache'[k].reply = Value(k) /\ cache'[k].data = cache[k].data
        /\ missed' = missed \ {k} /\ srv' = srv /\ calls' = calls
    BY <1>13, ServeStep
  <2>2. CASE k = TemplatesKey
    <3>1. f.fetch = "served" /\ f.reply = t /\ f.data = e.data
      BY <2>1, <2>2, ValuesAre
    <3>2. LastOrder \in missed => LastOrder \in missed'
      BY <2>1, <2>2, FixedKeys
    <3> DEFINE m == missed'
    <3> HIDE DEF f, m
    <3>3. Ordered(f, calls, m, t, last)
      BY <1>2, <3>1, <3>2 DEF Sound, Ordered, ListsHeld, ShownInOrder, OrderOK, m
    <3> QED BY <1>2, <2>1, <3>3 DEF OrderInv, f, m
  <2>3. CASE k # TemplatesKey
    <3>1. f = e
      BY <2>1, <2>3, FixedKeys
    <3>2. /\ LastOrder \in missed => LastOrder \in missed'
          /\ TemplatesKey \in missed => TemplatesKey \in missed'
      BY <2>1, <2>3, FixedKeys
    <3> DEFINE m == missed'
    <3> HIDE DEF f, m
    <3>3. Ordered(f, calls, m, t, last)
      BY <1>2, <3>1, <3>2 DEF Ordered, ShownInOrder, m
    <3> QED BY <1>2, <2>1, <3>3 DEF OrderInv, f, m
  <2> QED BY <2>2, <2>3
<1>14. CASE UNCHANGED vars
  BY <1>14 DEF vars, OrderInv
<1> QED BY <1>4, <1>5, <1>6, <1>7, <1>8, <1>9, <1>10, <1>11, <1>12, <1>13, <1>14, NextCases

-----------------------------------------------------------------------------
(* The invariant, and what follows from it                                 *)

ClientInv == TypeOK /\ CallsInv /\ FreshInv /\ OwnInv /\ OrderInv

\* The invariant holds when the page opens.
LEMMA ClientInit ==
    ASSUME Init
    PROVE  ClientInv
<1>1. PICK list \in First :
       srv = [list |-> list, settings |-> [a \in Accounts |-> 0], trades |-> [a \in Accounts |-> 0],
              flows |-> [a \in Accounts |-> 0], notes |-> [a \in Accounts |-> [p \in Periods |-> ""]],
              templates |-> <<1, 2, 3>>, lastId |-> 3]
  BY DEF Init
<1>2. /\ cache = [k \in Keys |-> IF k = AccountsKey THEN Asked(NoEntry) ELSE NoEntry]
      /\ stored \in AccountsOrNone /\ calls = [s \in Slots |-> None] /\ missed = {}
      /\ steps = 0 /\ fails = 0
  BY RememberedAssumption DEF Init, AccountsOrNone
<1>3. ui \in UiType
  <2>1. PICK p \in Pages : ui = Blank(p)
    BY DEF Init
  <2> QED BY <2>1 DEF Blank, UiType
<1>4. srv \in SrvType
  <2>1. list \in Seq(Accounts)
    BY FirstAssumption
  <2>2. [p \in Periods |-> ""] \in [Periods -> Notes]
    BY NotesAssumption
  <2>3. <<1, 2, 3>> \in Seq(Nat)
    OBVIOUS
  <2> DEFINE n == [p \in Periods |-> ""]
             q == <<1, 2, 3>>
  <2> HIDE DEF n, q
  <2>4. [a \in Accounts |-> n] \in [Accounts -> [Periods -> Notes]]
    BY <2>2 DEF n
  <2>5. srv = [list |-> list, settings |-> [a \in Accounts |-> 0], trades |-> [a \in Accounts |-> 0],
               flows |-> [a \in Accounts |-> 0], notes |-> [a \in Accounts |-> n], templates |-> q, lastId |-> 3]
    BY <1>1 DEF n, q
  <2>6. q \in Seq(Nat)
    BY <2>3 DEF q
  <2> QED BY <2>1, <2>4, <2>5, <2>6 DEF SrvType
<1>5. \A k \in Keys : cache[k] \in Entries(k) /\ cache[k].data = None /\ cache[k].fetch # "served"
  <2> SUFFICES ASSUME NEW k \in Keys
               PROVE  cache[k] \in Entries(k) /\ cache[k].data = None /\ cache[k].fetch # "served"
    OBVIOUS
  <2>1. NoEntry \in Entries(k) /\ NoEntry.data = None /\ NoEntry.fetch = "idle"
    BY NoEntryTyped DEF NoEntry
  <2>2. Asked(NoEntry) \in Entries(k) /\ Asked(NoEntry).data = None /\ Asked(NoEntry).fetch = "asked"
    BY <2>1, EntryFields
  <2>3. cache[k] = Asked(NoEntry) \/ cache[k] = NoEntry
    BY <1>2
  <2> QED BY <2>1, <2>2, <2>3
<1>6. CacheOf(cache)
  BY <1>2, <1>5 DEF CacheOf
<1>7. calls \in CallsType /\ \A s \in Slots : calls[s] = None
  BY <1>2 DEF CallsType
<1>8. TypeOK
  BY <1>2, <1>3, <1>4, <1>6, <1>7, BoundsAssumption
     DEF TypeOK, SrvType, UiType, CacheOf, AccountsOrNone, CallsType
<1>9. CallsInv /\ OwnInv
  BY <1>7 DEF CallsInv, OwnInv
<1>10. FreshInv
  BY <1>5 DEF FreshInv, Sure
<1>11. Sound(srv.templates, srv.lastId)
  <2>1. srv.templates = <<1, 2, 3>> /\ srv.lastId = 3
    BY <1>1
  <2>2. ToSet(<<1, 2, 3>>) = {1, 2, 3}
    BY DEF ToSet
  <2>3. IsInjective(<<1, 2, 3>>)
    BY DEF IsInjective
  <2> QED BY <2>1, <2>2, <2>3 DEF Sound, Held
<1>12. OrderInv
  <2>1. cache[TemplatesKey].data = None /\ cache[TemplatesKey].fetch # "served"
    BY <1>5, FixedKeys
  <2> QED BY <1>7, <1>11, <2>1 DEF OrderInv, Ordered, ListsHeld, ShownInOrder, SentAlone, Reorder
<1> QED BY <1>8, <1>9, <1>10, <1>12 DEF ClientInv

\* And every step keeps it.
LEMMA ClientStep ==
    ASSUME ClientInv, [Next]_vars
    PROVE  ClientInv'
BY TypesStep, FreshStep, OwnStep, OrderStep DEF ClientInv

\* The journal's screens keep the invariant, whatever the user does and whatever
\* is answered, refused or lost.
THEOREM ClientInvariant == Spec => []ClientInv
BY ClientInit, ClientStep, PTL DEF Spec

\* useRefresh, queryKeys.ts and the hooks of mutations: what a key shows as fresh
\* is what the server has, or a mutation under way is about to sweep it.
THEOREM WhatIsFreshIsTrue == Spec => []FreshIsTrue
<1>1. ClientInv => FreshIsTrue
  <2> SUFFICES ASSUME ClientInv, NEW k \in Keys \ missed,
                      cache[k].data # None, ~cache[k].inval, ~Fetching(cache[k]), cache[k].data # Value(k)
               PROVE  \E c \in UnderWay : c.phase # "settling" /\ k \in Changed(c)
    BY DEF FreshIsTrue
  <2>1. Doubt(k, calls)
    BY DEF ClientInv, FreshInv, Sure
  <2> QED BY <2>1 DEF Doubt, UnderWay
<1> QED BY <1>1, ClientInvariant, PTL

\* onMutate of useSavePeriodNote: the note just saved is what its card shows until
\* the server has answered.
THEOREM OwnNoteIsShown == Spec => []OwnNoteStays
<1>1. ClientInv => OwnNoteStays
  <2> SUFFICES ASSUME ClientInv, NEW c \in UnderWay, c.op = "note", c.own, <<"notes", c.acc>> \in OnScreen
               PROVE  NoteShown(c.acc, c.arg) = c.text
    BY DEF OwnNoteStays
  <2>1. PICK s \in Slots : calls[s] # None /\ c = calls[s]
    BY DEF UnderWay
  <2> DEFINE k == <<"notes", c.acc>>
  <2>2. OwnOK(cache[k], c, k \in OnScreen)
    BY <2>1 DEF ClientInv, OwnInv
  <2>3. cache[k] \in Entries(k)
    <3>1. k \in Keys
      BY <2>1, KeysOfAccount DEF ClientInv, CallsInv, OfOp, Kinds
    <3> QED BY <3>1, Typed DEF ClientInv, CacheOf
  <2>4. cache[k].inval \in BOOLEAN
    BY <2>3 DEF Entries
  <2> QED BY <2>2, <2>4 DEF OwnOK, NoteShown
<1> QED BY <1>1, ClientInvariant, PTL

\* Only a request that takes effect changes the database.
LEMMA ServerKept ==
    ASSUME TypeOK, CallsInv, [Next]_vars
    PROVE  srv' = srv \/ \E s \in Slots : Commit(s)
<1>1. CASE Screens
  BY <1>1, ScreenStep DEF Quiet
<1>2. CASE Plain
  BY <1>2, PlainStep DEF Started
<1>3. CASE \E p \in Periods, text \in Notes : SaveNote(p, text)
  BY <1>3, NoteStep DEF Started
<1>4. CASE \E i \in 1..4, delta \in {-1, 1} : Move(i, delta)
  BY <1>4, MoveStep DEF Started
<1>5. CASE \E s \in Slots : Refuse(s) \/ Succeed(s) \/ Fail(s)
  BY <1>5 DEF Refuse, Succeed, Fail
<1>6. CASE (\E late : Load(late)) \/ \E k \in Keys : Serve(k) \/ FailLoad(k) \/ Arrive(k)
  BY <1>6 DEF Load, Serve, FailLoad, Arrive
<1>7. CASE UNCHANGED vars
  BY <1>7 DEF vars
<1>8. CASE \E s \in Slots : Commit(s)
  BY <1>8
<1> QED BY <1>1, <1>2, <1>3, <1>4, <1>5, <1>6, <1>7, <1>8, NextCases

\* TemplateManagerDialog and NoteTemplateService.Reorder: a move that saw the last
\* order, and any move under way beside it, exchanges two neighbours.
THEOREM MovesByOneStep == Spec => ReorderIsOneSwap
<1>1. ASSUME ClientInv, [Next]_vars
      PROVE  [\A s \in Slots :
                (calls[s] # None /\ calls[s].op = "reorder" /\ ~calls[s].blind /\ srv'.templates # srv.templates
                    /\ calls'[s].phase = "committed" /\ calls[s].phase = "sent")
                => OneSwap(srv.templates, srv'.templates)]_vars
  <2> SUFFICES ASSUME NEW s \in Slots, calls[s] # None, calls[s].op = "reorder", ~calls[s].blind,
                      srv'.templates # srv.templates, calls'[s].phase = "committed", calls[s].phase = "sent"
               PROVE  OneSwap(srv.templates, srv'.templates)
    OBVIOUS
  <2>1. PICK r \in Slots : Commit(r)
    BY <1>1, ServerKept DEF ClientInv
  <2>2. srv \in SrvType /\ calls \in CallsType
    BY <1>1, Typed DEF ClientInv
  <2>3. r = s
    BY <2>1, <2>2 DEF Commit, CallsType
  <2>4. Accepts(calls[s]) /\ srv' = [srv EXCEPT !.templates = calls[s].list]
    BY <2>1, <2>3, AfterIs DEF Commit
  <2>5. srv'.templates = calls[s].list
    BY <2>2, <2>4 DEF SrvType
  <2>6. IsPermutation(calls[s].list, srv.templates)
    BY <2>4 DEF Accepts
  <2> QED BY <1>1, <2>5, <2>6 DEF ClientInv, OrderInv, Ordered, SentAlone
<1> QED BY <1>1, ClientInvariant, PTL DEF Spec, ReorderIsOneSwap

=============================================================================
