--------------------------- MODULE SessionsProofs ---------------------------
(***************************************************************************)
(* What ReplaySessions promises the work of a user, for any sessions, any  *)
(* number of versions and any number of transactions under way: what was   *)
(* copied on the way out stays, no older version goes over a newer one, a  *)
(* deleted session stays deleted, and no task of the page is forgotten.    *)
(***************************************************************************)
EXTENDS ReplaySessions, SequenceTheorems, WellFoundedInduction, TLAPS

\* The page shows nothing and holds nothing until its boot is through.
PageInv ==
    /\ page = "closed" => task = Idle
    /\ page = "booting" <=> task.kind \in {"flush", "boot"}
    /\ page \in {"closed", "booting"} => work = NoWork /\ timer = FALSE

\* The session in memory is its newest version, and nothing is newer; what was
\* copied alone is kept.
VersionsInv ==
    /\ work.id # None => work.ver = latest[work.id]
    /\ \A s \in Sessions : /\ stored[s] <= latest[s] /\ local[s] <= latest[s] /\ copiedAlone[s] <= latest[s]
                           /\ deletion[s] = "no" => copiedAlone[s] <= stored[s] \/ copiedAlone[s] <= local[s]
                           /\ deletion[s] # "no" => latest[s] > 0

\* Transactions are committed in order.
InOrder == \A i, j \in DOMAIN queue : i < j /\ queue[i].state = "queued" => queue[j].state = "queued"

\* A save e under way is as new as what is stored, as what was copied alone,
\* and, when it is through, stored.
SaveSound(e) ==
    /\ e.ver <= latest[e.id]
    /\ e.state = "queued" => stored[e.id] <= e.ver
    /\ deletion[e.id] = "no" => copiedAlone[e.id] <= e.ver
    /\ deletion[e.id] = "no" /\ e.state = "ok" => e.ver <= stored[e.id]

SavesInv ==
    \A i \in DOMAIN queue : queue[i].op = "put" =>
        /\ SaveSound(queue[i])
        /\ \A j \in DOMAIN queue : i < j /\ queue[j].op = "put" /\ queue[j].id = queue[i].id =>
                                     queue[i].ver <= queue[j].ver

\* The page has at most one transaction under way besides its saves, which is
\* that of its task.
TaskOf(t, e) ==
    /\ e.by = t.kind
    /\ e.op \in {"get", "delete"} \/ e.by = "flush" => e.id = t.id
    /\ e.by = "flush" => e.op \in {"get", "put"}
    /\ e.by = "resume" => t.ver = 0

TasksInv ==
    /\ task.kind = "none" => task = Idle
    /\ task.kind \in {"resume", "delete"} => task.id \in Sessions
    /\ \A i \in DOMAIN queue : IF queue[i].by = "save" THEN queue[i].op = "put" ELSE TaskOf(task, queue[i])
    /\ \A i, j \in DOMAIN queue : queue[i].by # "save" /\ queue[j].by # "save" => i = j
    /\ NoTaskIsForgotten

\* While a copy is compared and put, nothing follows that could make the
\* comparison stale.
FlushInv ==
    /\ task.kind = "flush" /\ task.id # None => /\ local[task.id] \in {0, task.ver}
                                                /\ task.ver <= latest[task.id]
    /\ \A i \in DOMAIN queue : queue[i].by = "flush" =>
         /\ i = Len(queue)
         /\ queue[i].op = "get" /\ queue[i].state = "ok" => queue[i].ver = stored[queue[i].id]

\* A removal that is through leaves nothing, unless a save is behind it.
DeletesInv ==
    /\ task.kind = "delete" => deletion[task.id] # "no"
    /\ \A i \in DOMAIN queue : queue[i].op = "delete" =>
         /\ deletion[queue[i].id] # "no"
         /\ queue[i].state = "ok" =>
              \/ stored[queue[i].id] = 0
              \/ \E j \in DOMAIN queue : i < j /\ queue[j].op = "put" /\ queue[j].id = queue[i].id

\* A deleted session is nowhere, and on its way to nowhere.
GoneInv ==
    \A s \in Sessions : deletion[s] = "done" =>
        /\ stored[s] = 0 /\ local[s] = 0 /\ work.id # s
        /\ \A i \in DOMAIN queue : ~(queue[i].op = "put" /\ queue[i].id = s)
        /\ ~(task.kind \in {"flush", "resume"} /\ task.id = s)

SessionsInv ==
    TypeOK /\ PageInv /\ VersionsInv /\ InOrder /\ SavesInv /\ TasksInv /\ FlushInv /\ DeletesInv /\ GoneInv

-----------------------------------------------------------------------------
(* Types, and the queue.                                                   *)

\* What the types say of every part of the state.
LEMMA Types ==
    ASSUME TypeOK
    PROVE  /\ queue \in Seq(Entry) /\ Len(queue) \in Nat /\ DOMAIN queue = 1..Len(queue)
           /\ \A i \in 1..Len(queue) : queue[i] \in Entry
           /\ stored \in [Sessions -> Versions] /\ local \in [Sessions -> Versions]
           /\ latest \in [Sessions -> Versions] /\ copiedAlone \in [Sessions -> Versions]
           /\ \A s \in Sessions : stored[s] \in Nat /\ local[s] \in Nat /\ latest[s] \in Nat /\ copiedAlone[s] \in Nat
           /\ work.id \in Sessions \cup {None} /\ work.ver \in Nat /\ work.ver \in Versions
           /\ task.id \in Sessions \cup {None} /\ task.ver \in Nat /\ task.ver \in Versions
           /\ Versions \subseteq Nat
<1>1. queue \in Seq(Entry) /\ Len(queue) \in Nat /\ DOMAIN queue = 1..Len(queue)
  BY LenProperties DEF TypeOK
<1>2. \A i \in 1..Len(queue) : queue[i] \in Entry
  BY <1>1, ElementOfSeq
<1>3. Versions \subseteq Nat
  BY BoundsAssumption DEF Versions
<1>4. /\ stored \in [Sessions -> Versions] /\ local \in [Sessions -> Versions]
      /\ latest \in [Sessions -> Versions] /\ copiedAlone \in [Sessions -> Versions]
  BY DEF TypeOK
<1>5. \A s \in Sessions : stored[s] \in Nat /\ local[s] \in Nat /\ latest[s] \in Nat /\ copiedAlone[s] \in Nat
  BY <1>3, <1>4
<1>6. /\ work.id \in Sessions \cup {None} /\ work.ver \in Nat /\ work.ver \in Versions
      /\ task.id \in Sessions \cup {None} /\ task.ver \in Nat /\ task.ver \in Versions
  BY <1>3 DEF TypeOK, Task
<1> QED BY <1>1, <1>2, <1>3, <1>4, <1>5, <1>6

\* The fields of a transaction.
LEMMA EntryFacts ==
    ASSUME NEW e \in Entry
    PROVE  /\ e.op \in {"put", "delete", "get", "list"} /\ e.ver \in Versions /\ e.ver \in Nat
           /\ e.state \in {"queued", "ok", "failed"}
           /\ e.by \in {"save", "show", "new", "resume", "delete", "flush", "boot"}
           /\ e.op # "list" => e.id \in Sessions
           /\ e.op = "list" => e.id = None
  BY BoundsAssumption DEF Entry, Transactions, Versions

\* A transaction that was just started.
LEMMA TransFacts ==
    ASSUME NEW op, NEW id, NEW ver \in Versions,
           NEW by \in {"save", "show", "new", "resume", "delete", "flush", "boot"},
           \/ op \in {"put", "delete", "get"} /\ id \in Sessions
           \/ op = "list" /\ id = None
    PROVE  /\ Trans(op, id, ver, by) \in Entry
           /\ Trans(op, id, ver, by).op = op /\ Trans(op, id, ver, by).id = id
           /\ Trans(op, id, ver, by).ver = ver /\ Trans(op, id, ver, by).by = by
           /\ Trans(op, id, ver, by).state = "queued"
  BY DEF Trans, Entry, Transactions

\* The head is gone when d is 1, and when n is 1 the transaction e is behind the others.
After(d, n, e) ==
    /\ queue' \in Seq(Entry) /\ Len(queue) - d \in Nat /\ Len(queue') = Len(queue) - d + n
    /\ DOMAIN queue' = 1..(Len(queue) - d + n) /\ DOMAIN queue = 1..Len(queue) /\ Len(queue) \in Nat
    /\ \A i \in 1..(Len(queue) - d) : queue'[i] = queue[i + d]
    /\ n = 1 => queue'[Len(queue) - d + 1] = e /\ e.state = "queued"
    /\ d \in {0, 1} /\ n \in {0, 1}

\* A step that starts no transaction and sees none return.
LEMMA Stays ==
    ASSUME TypeOK, queue' = queue, NEW e
    PROVE  After(0, 0, e)
  BY Types DEF After

\* A step that starts one transaction.
LEMMA Appends ==
    ASSUME TypeOK, NEW e \in Entry, e.state = "queued", queue' = Append(queue, e)
    PROVE  After(0, 1, e)
<1>1. /\ queue' \in Seq(Entry) /\ Len(queue') = Len(queue) + 1 /\ queue'[Len(queue) + 1] = e
      /\ \A i \in 1..Len(queue) : queue'[i] = queue[i]
  BY Types, AppendProperties
<1>2. DOMAIN queue' = 1..Len(queue')
  BY <1>1, LenProperties
<1> QED BY <1>1, <1>2, Types DEF After

\* The queue without its head.
LEMMA TailFacts ==
    ASSUME TypeOK, queue # <<>>
    PROVE  /\ Tail(queue) \in Seq(Entry) /\ Len(Tail(queue)) = Len(queue) - 1 /\ Len(queue) - 1 \in Nat
           /\ 1 \in DOMAIN queue
           /\ DOMAIN Tail(queue) = 1..(Len(queue) - 1)
           /\ \A i \in 1..(Len(queue) - 1) : Tail(queue)[i] = queue[i + 1]
<1>1. queue \in Seq(Entry) /\ queue # <<>> /\ Len(queue) \in Nat /\ DOMAIN queue = 1..Len(queue)
  BY Types
<1>2. Len(queue) # 0
  BY <1>1, EmptySeq
<1>3. /\ Tail(queue) \in Seq(Entry) /\ Len(Tail(queue)) = Len(queue) - 1
      /\ \A i \in 1..Len(Tail(queue)) : Tail(queue)[i] = queue[i + 1]
  BY <1>1, HeadTailProperties
<1>4. DOMAIN Tail(queue) = 1..Len(Tail(queue))
  BY <1>3, LenProperties
<1> QED BY <1>1, <1>2, <1>3, <1>4

\* A callback, which takes the head away.
LEMMA Pops ==
    ASSUME TypeOK, queue # <<>>, queue' = Tail(queue), NEW e
    PROVE  After(1, 0, e)
  BY TailFacts, Types DEF After

\* A callback that starts the next transaction.
LEMMA PopsAppends ==
    ASSUME TypeOK, queue # <<>>, NEW e \in Entry, e.state = "queued", queue' = Append(Tail(queue), e)
    PROVE  After(1, 1, e)
<1> DEFINE q == Tail(queue)
<1>1. /\ q \in Seq(Entry) /\ Len(q) = Len(queue) - 1 /\ Len(queue) - 1 \in Nat
      /\ \A i \in 1..(Len(queue) - 1) : q[i] = queue[i + 1]
  BY TailFacts
<1> HIDE DEF q
<1>2. /\ queue' \in Seq(Entry) /\ Len(queue') = Len(q) + 1 /\ queue'[Len(q) + 1] = e
      /\ \A i \in 1..Len(q) : queue'[i] = q[i]
  BY <1>1, AppendProperties DEF q
<1>3. DOMAIN queue' = 1..Len(queue')
  BY <1>2, LenProperties
<1> QED BY <1>1, <1>2, <1>3, Types DEF After

-----------------------------------------------------------------------------
(* What such a step leaves of each part of the invariant.                  *)

\* Where the entries after the step come from.
LEMMA Origin ==
    ASSUME NEW d, NEW n, NEW e, After(d, n, e), NEW i \in DOMAIN queue'
    PROVE  \/ i + d \in DOMAIN queue /\ queue'[i] = queue[i + d] /\ i \in 1..(Len(queue) - d)
           \/ n = 1 /\ i = Len(queue) - d + 1 /\ queue'[i] = e
  BY DEF After

\* Callbacks and new transactions keep the order of the commits.
LEMMA OrderMoves ==
    ASSUME InOrder, NEW d, NEW n, NEW e, After(d, n, e)
    PROVE  InOrder'
<1> SUFFICES ASSUME NEW i \in DOMAIN queue', NEW j \in DOMAIN queue', i < j, queue'[i].state = "queued"
             PROVE  queue'[j].state = "queued"
  BY DEF InOrder
<1>1. i \in 1..(Len(queue) - d) \/ (n = 1 /\ i = Len(queue) - d + 1)
  BY Origin
<1>2. CASE n = 1 /\ j = Len(queue) - d + 1
  BY <1>2 DEF After
<1>3. CASE j \in 1..(Len(queue) - d)
  <2>1. i \in 1..(Len(queue) - d) /\ i + d \in DOMAIN queue /\ j + d \in DOMAIN queue /\ i + d < j + d
    BY <1>1, <1>3 DEF After
  <2>2. queue'[i] = queue[i + d] /\ queue'[j] = queue[j + d]
    BY <1>3, <2>1 DEF After
  <2> QED BY <2>1, <2>2 DEF InOrder
<1> QED BY <1>2, <1>3, Origin

\* The saves under way stay sound when a new one, if it is one, is as new as all that is known.
LEMMA SavesMove ==
    ASSUME TypeOK, SavesInv, NEW d, NEW n, NEW e, After(d, n, e), UNCHANGED stored, TypeOK',
           \A s \in Sessions : latest[s] <= latest'[s] /\ (deletion'[s] = "no" => deletion[s] = "no"),
           \A i \in DOMAIN queue : queue[i].op = "put" /\ deletion'[queue[i].id] = "no" =>
                                     copiedAlone'[queue[i].id] <= queue[i].ver,
           n = 1 /\ e.op = "put" =>
             /\ stored[e.id] <= e.ver /\ e.ver <= latest'[e.id]
             /\ deletion'[e.id] = "no" => copiedAlone'[e.id] <= e.ver
             /\ \A i \in DOMAIN queue : i > d /\ queue[i].op = "put" /\ queue[i].id = e.id => queue[i].ver <= e.ver
    PROVE  SavesInv'
<1> SUFFICES ASSUME NEW i \in DOMAIN queue', queue'[i].op = "put"
             PROVE  /\ SaveSound(queue[i])'
                    /\ \A j \in DOMAIN queue' : i < j /\ queue'[j].op = "put" /\ queue'[j].id = queue'[i].id =>
                                                  queue'[i].ver <= queue'[j].ver
  BY DEF SavesInv
<1>1. CASE n = 1 /\ i = Len(queue) - d + 1 /\ queue'[i] = e
  <2>1. SaveSound(queue[i])'
    BY <1>1 DEF After, SaveSound
  <2>2. ~\E j \in DOMAIN queue' : i < j
    BY <1>1 DEF After
  <2> QED BY <2>1, <2>2
<1>2. CASE i + d \in DOMAIN queue /\ queue'[i] = queue[i + d] /\ i \in 1..(Len(queue) - d)
  <2> DEFINE x == queue[i + d]
  <2>1. x \in Entry /\ x.op = "put" /\ x.id \in Sessions /\ x.ver \in Nat /\ queue'[i] = x /\ SaveSound(x)
    BY <1>2, Types, EntryFacts DEF SavesInv
  <2>2. latest[x.id] \in Nat /\ latest'[x.id] \in Nat
    <3>1. latest' \in [Sessions -> Versions]
      BY DEF TypeOK
    <3> QED BY <2>1, <3>1, Types
  <2>3. deletion'[x.id] = "no" => copiedAlone'[x.id] <= x.ver
    BY <1>2, <2>1
  <2>4. SaveSound(queue[i])'
    <3> HIDE DEF x
    <3> QED BY <2>1, <2>2, <2>3 DEF SaveSound
  <2>5. ASSUME NEW j \in DOMAIN queue', i < j, queue'[j].op = "put", queue'[j].id = x.id
        PROVE  x.ver <= queue'[j].ver
    <3>1. CASE n = 1 /\ j = Len(queue) - d + 1 /\ queue'[j] = e
      <4>1. i + d > d
        BY <1>2 DEF After
      <4> QED BY <1>2, <2>1, <2>5, <3>1, <4>1
    <3>2. CASE j + d \in DOMAIN queue /\ queue'[j] = queue[j + d] /\ j \in 1..(Len(queue) - d)
      <4>1. i + d < j + d
        BY <1>2, <2>5, <3>2 DEF After
      <4> QED BY <1>2, <2>1, <2>5, <3>2, <4>1 DEF SavesInv
    <3> QED BY <3>1, <3>2, Origin
  <2> QED BY <2>1, <2>4, <2>5
<1> QED BY <1>1, <1>2, Origin

\* A removal that is through stays without effect only behind a save.
LEMMA DeletesMove ==
    ASSUME TypeOK, DeletesInv, NEW d, NEW n, NEW e, After(d, n, e), UNCHANGED stored,
           \A s \in Sessions : deletion'[s] = "no" => deletion[s] = "no",
           n = 1 /\ e.op = "delete" => deletion'[e.id] # "no",
           task'.kind = "delete" => deletion'[task'.id] # "no"
    PROVE  DeletesInv'
<1> SUFFICES ASSUME NEW i \in DOMAIN queue', queue'[i].op = "delete"
             PROVE  /\ deletion'[queue'[i].id] # "no"
                    /\ queue'[i].state = "ok" =>
                         \/ stored'[queue'[i].id] = 0
                         \/ \E j \in DOMAIN queue' : i < j /\ queue'[j].op = "put" /\ queue'[j].id = queue'[i].id
  BY DEF DeletesInv
<1>1. CASE n = 1 /\ i = Len(queue) - d + 1 /\ queue'[i] = e
  BY <1>1 DEF After
<1>2. CASE i + d \in DOMAIN queue /\ queue'[i] = queue[i + d] /\ i \in 1..(Len(queue) - d)
  <2> DEFINE x == queue[i + d]
  <2>1. x \in Entry /\ x.op = "delete" /\ x.id \in Sessions /\ queue'[i] = x
    BY <1>2, Types, EntryFacts
  <2>2. deletion[x.id] # "no"
    BY <1>2, <2>1 DEF DeletesInv
  <2>3. ASSUME x.state = "ok", stored[x.id] # 0
        PROVE  \E j \in DOMAIN queue' : i < j /\ queue'[j].op = "put" /\ queue'[j].id = x.id
    <3>1. PICK k \in DOMAIN queue : i + d < k /\ queue[k].op = "put" /\ queue[k].id = x.id
      BY <1>2, <2>1, <2>3 DEF DeletesInv
    <3>2. k - d \in 1..(Len(queue) - d) /\ i < k - d /\ (k - d) + d = k /\ k - d \in DOMAIN queue'
      BY <1>2, <3>1 DEF After
    <3>3. queue'[k - d] = queue[k]
      BY <3>2 DEF After
    <3> QED BY <3>1, <3>2, <3>3
  <2> QED BY <2>1, <2>2, <2>3
<1> QED BY <1>1, <1>2, Origin

\* Nothing is started for a deleted session.
LEMMA GoneMoves ==
    ASSUME TypeOK, GoneInv, NEW d, NEW n, NEW e, After(d, n, e), UNCHANGED stored,
           \A s \in Sessions : deletion'[s] = "done" =>
             /\ deletion[s] = "done" /\ local'[s] = 0 /\ work'.id # s
             /\ ~(n = 1 /\ e.op = "put" /\ e.id = s)
             /\ ~(task'.kind \in {"flush", "resume"} /\ task'.id = s)
    PROVE  GoneInv'
<1> SUFFICES ASSUME NEW s \in Sessions, deletion'[s] = "done"
             PROVE  \A i \in DOMAIN queue' : ~(queue'[i].op = "put" /\ queue'[i].id = s)
  BY DEF GoneInv
<1> QED BY Origin DEF GoneInv

-----------------------------------------------------------------------------
(* The task of the page and its transaction.                               *)

\* Behind the first d transactions there are only saves.
Clear(d) == \A i \in DOMAIN queue : i > d => queue[i].by = "save"

\* With no task, or one that has its own step to take, only saves are under way.
LEMMA ClearIdle ==
    ASSUME TypeOK, TasksInv,
           task = Idle \/ (task.kind = "flush" /\ task.id = None) \/ (task.kind = "resume" /\ task.ver # 0)
    PROVE  Clear(0)
<1> SUFFICES ASSUME NEW i \in DOMAIN queue, queue[i].by # "save" PROVE FALSE
  BY DEF Clear
<1> DEFINE x == queue[i]
<1>1. x \in Entry
  BY Types
<1>2. TaskOf(task, x)
  BY DEF TasksInv
<1> HIDE DEF x
<1>3. x.by # "none" /\ (x.by = "flush" => x.id \in Sessions)
  BY <1>1, <1>2, EntryFacts DEF TaskOf
<1> QED BY <1>2, <1>3, NoneAssumption DEF TaskOf, Idle

\* When a callback of the task is due there are only saves behind it.
LEMMA ClearHead ==
    ASSUME TypeOK, TasksInv, queue # <<>>, queue[1].by # "save"
    PROVE  Clear(1) /\ TaskOf(task, queue[1]) /\ queue[1] \in Entry /\ 1 \in DOMAIN queue
<1>1. 1 \in DOMAIN queue
  BY TailFacts
<1>2. \A i \in DOMAIN queue : i > 1 => queue[i].by = "save"
  BY <1>1 DEF TasksInv
<1> QED BY <1>1, <1>2, Types DEF TasksInv, Clear

\* The task keeps its one transaction when the old one, if any, is gone before a new one starts.
LEMMA TasksMove ==
    ASSUME TypeOK, TasksInv, NEW d, NEW n, NEW e, After(d, n, e),
           task' = task \/ Clear(d),
           task'.kind = "none" => task' = Idle,
           task'.kind \in {"resume", "delete"} => task'.id \in Sessions,
           n = 1 => IF e.by = "save" THEN e.op = "put" ELSE Clear(d) /\ TaskOf(task', e),
           NoTaskIsForgotten'
    PROVE  TasksInv'
<1>1. ASSUME NEW i \in DOMAIN queue'
      PROVE  IF queue'[i].by = "save" THEN queue'[i].op = "put" ELSE TaskOf(task', queue'[i])
  <2>1. CASE n = 1 /\ queue'[i] = e
    BY <2>1
  <2>2. CASE i + d \in DOMAIN queue /\ queue'[i] = queue[i + d] /\ i \in 1..(Len(queue) - d)
    <3>1. i + d > d
      BY <2>2 DEF After
    <3> QED BY <2>2, <3>1 DEF TasksInv, Clear
  <2> QED BY <2>1, <2>2, Origin
<1>2. ASSUME NEW i \in DOMAIN queue', NEW j \in DOMAIN queue', queue'[i].by # "save", queue'[j].by # "save"
      PROVE  i = j
  <2>1. CASE Clear(d)
    <3>1. ASSUME NEW k \in DOMAIN queue', queue'[k].by # "save" PROVE k = Len(queue) - d + 1
      <4>1. CASE k + d \in DOMAIN queue /\ queue'[k] = queue[k + d] /\ k \in 1..(Len(queue) - d)
        <5>1. k + d > d
          BY <4>1 DEF After
        <5> QED BY <3>1, <4>1, <5>1, <2>1 DEF Clear
      <4> QED BY <4>1, Origin
    <3> QED BY <1>2, <3>1
  <2>2. CASE ~Clear(d)
    <3>1. ASSUME NEW k \in DOMAIN queue', queue'[k].by # "save"
          PROVE  k + d \in DOMAIN queue /\ queue'[k] = queue[k + d] /\ k \in 1..(Len(queue) - d)
      BY <2>2, <3>1, Origin
    <3>2. i + d = j + d
      BY <1>2, <3>1 DEF TasksInv
    <3> QED BY <1>2, <3>1, <3>2 DEF After
  <2> QED BY <2>1, <2>2
<1> QED BY <1>1, <1>2 DEF TasksInv

\* A save that starts or returns does not touch the task.
LEMMA TasksKept ==
    ASSUME TypeOK, TasksInv, NEW d, NEW n, NEW e, After(d, n, e), UNCHANGED task,
           d = 1 => queue[1].by = "save",
           n = 1 => e.by = "save" /\ e.op = "put"
    PROVE  TasksInv'
<1>1. ASSUME NEW i \in DOMAIN queue, queue[i].by = task.kind, task # Idle
      PROVE  \E j \in DOMAIN queue' : queue'[j].by = task.kind
  <2>1. task.kind \in {"none", "show", "new", "resume", "delete", "flush", "boot"} /\ task.kind # "save"
    BY DEF TypeOK, Task
  <2>2. i > d
    BY <1>1, <2>1 DEF After
  <2>3. i - d \in 1..(Len(queue) - d) /\ (i - d) + d = i /\ i - d \in DOMAIN queue'
    BY <2>2 DEF After
  <2>4. queue'[i - d] = queue[i]
    BY <2>3 DEF After
  <2> QED BY <1>1, <2>3, <2>4
<1>2. NoTaskIsForgotten'
  BY <1>1 DEF TasksInv, NoTaskIsForgotten
<1> QED BY <1>2, TasksMove DEF TasksInv

\* The next transaction of a task is under way.
LEMMA TasksNext ==
    ASSUME TypeOK, TasksInv, NEW d, NEW e, After(d, 1, e), Clear(d), e.by # "save", TaskOf(task', e),
           task'.kind # "none", task'.kind \in {"resume", "delete"} => task'.id \in Sessions
    PROVE  TasksInv'
<1>1. NoTaskIsForgotten'
  <2>1. Len(queue) - d + 1 \in DOMAIN queue' /\ queue'[Len(queue) - d + 1] = e
    BY DEF After
  <2> QED BY <2>1 DEF NoTaskIsForgotten, TaskOf
<1> QED BY <1>1, TasksMove

\* The task is through, or has a step of its own to take.
LEMMA TasksDone ==
    ASSUME TypeOK, TasksInv, NEW d, NEW n, NEW e, After(d, n, e), Clear(d),
           n = 1 => e.by = "save" /\ e.op = "put",
           \/ task' = Idle
           \/ task'.kind = "flush" /\ task'.id = None
           \/ task'.kind = "resume" /\ task'.ver # 0 /\ task'.id \in Sessions
    PROVE  TasksInv'
<1>1. NoTaskIsForgotten'
  BY DEF NoTaskIsForgotten
<1>2. Idle.kind = "none"
  BY DEF Idle
<1> QED BY <1>1, <1>2, TasksMove

\* When no copy is looked at there is nothing to keep.
LEMMA FlushNone ==
    ASSUME TasksInv', task'.kind # "flush"
    PROVE  FlushInv'
<1>1. \A i \in DOMAIN queue' : queue'[i].by # "flush"
  BY DEF TasksInv, TaskOf
<1> QED BY <1>1 DEF FlushInv

\* Between two copies there is nothing to keep.
LEMMA FlushIdle ==
    ASSUME TypeOK', TasksInv', task'.kind = "flush", task'.id = None
    PROVE  FlushInv'
<1>1. \A i \in DOMAIN queue' : queue'[i].by # "flush"
  <2> SUFFICES ASSUME NEW i \in DOMAIN queue', queue'[i].by = "flush" PROVE FALSE
    OBVIOUS
  <2> DEFINE x == queue'[i]
  <2>1. x \in Entry
    <3>1. queue' \in Seq(Entry)
      BY DEF TypeOK
    <3> QED BY <3>1, LenProperties, ElementOfSeq
  <2>2. TaskOf(task', x) /\ x.by = "flush"
    BY DEF TasksInv
  <2> HIDE DEF x
  <2>3. x.id \in Sessions /\ x.id = None
    BY <2>1, <2>2, EntryFacts DEF TaskOf
  <2> QED BY <2>3, NoneAssumption
<1> QED BY <1>1 DEF FlushInv

\* The flush of a copy goes on: its next transaction is the last one.
LEMMA FlushNext1 ==
    ASSUME TypeOK, NEW d, NEW e, After(d, 1, e), Clear(d), e.by = "flush",
           task'.kind = "flush" /\ task'.id # None => /\ local'[task'.id] \in {0, task'.ver}
                                                      /\ task'.ver <= latest'[task'.id]
    PROVE  FlushInv'
<1> SUFFICES ASSUME NEW i \in DOMAIN queue', queue'[i].by = "flush"
             PROVE  i = Len(queue') /\ queue'[i].state = "queued"
  BY DEF FlushInv
<1>1. CASE i = Len(queue) - d + 1 /\ queue'[i] = e
  BY <1>1 DEF After
<1>2. CASE i + d \in DOMAIN queue /\ queue'[i] = queue[i + d] /\ i \in 1..(Len(queue) - d)
  <2>1. i + d > d
    BY <1>2 DEF After
  <2> QED BY <1>2, <2>1 DEF Clear
<1> QED BY <1>1, <1>2, Origin

\* The callback of a save comes while a copy is compared.
LEMMA FlushKept ==
    ASSUME TypeOK, FlushInv, NEW d, NEW e, After(d, 0, e), UNCHANGED <<task, stored, latest>>,
           \A s \in Sessions : local'[s] \in {0, local[s]}
    PROVE  FlushInv'
<1>1. task'.kind = "flush" /\ task'.id # None => /\ local'[task'.id] \in {0, task'.ver}
                                                 /\ task'.ver <= latest'[task'.id]
  <2>1. task.id # None => task.id \in Sessions
    BY Types
  <2> QED BY <2>1 DEF FlushInv
<1>2. ASSUME NEW i \in DOMAIN queue', queue'[i].by = "flush"
      PROVE  /\ i = Len(queue')
             /\ queue'[i].op = "get" /\ queue'[i].state = "ok" => queue'[i].ver = stored'[queue'[i].id]
  <2>1. i + d \in DOMAIN queue /\ queue'[i] = queue[i + d] /\ i \in 1..(Len(queue) - d)
    BY Origin
  <2>2. i + d = Len(queue)
    BY <1>2, <2>1 DEF FlushInv
  <2>3. i = Len(queue')
    BY <2>2 DEF After
  <2> QED BY <1>2, <2>1, <2>3 DEF FlushInv
<1> QED BY <1>1, <1>2 DEF FlushInv

-----------------------------------------------------------------------------
(* Steps that leave what is stored and the history alone.                  *)

\* The copies are the same but for some that are dropped, and none of them
\* holds what nothing else holds.
LocalSound ==
    /\ local' \in [Sessions -> Versions]
    /\ \A s \in Sessions :
         /\ local'[s] \in {0, local[s]}
         /\ deletion[s] = "no" => copiedAlone[s] <= stored[s] \/ copiedAlone[s] <= local'[s]

\* A step that leaves the copies alone.
LEMMA LocalStays ==
    ASSUME TypeOK, VersionsInv, UNCHANGED local
    PROVE  LocalSound
  BY Types DEF LocalSound, VersionsInv

\* The copy of a save that is through can go.
LEMMA DropSound ==
    ASSUME TypeOK, VersionsInv, SavesInv, queue # <<>>, queue[1].op = "put", queue[1].state # "queued",
           local' = DroppedIfOk
    PROVE  LocalSound
<1> DEFINE x == queue[1]
<1>1. x \in Entry /\ x.id \in Sessions /\ x.ver \in Nat /\ SaveSound(x)
  BY TailFacts, Types, EntryFacts DEF SavesInv
<1>2. 0 \in Versions
  BY BoundsAssumption DEF Versions
<1>3. CASE x.state # "ok"
  BY <1>3, Types DEF LocalSound, VersionsInv, DroppedIfOk, Ok
<1>4. CASE x.state = "ok"
  <2>1. local' = [local EXCEPT ![x.id] = 0]
    BY <1>4 DEF DroppedIfOk, Ok
  <2>2. deletion[x.id] = "no" => copiedAlone[x.id] <= stored[x.id]
    <3> HIDE DEF x
    <3> QED BY <1>1, <1>4, Types DEF SaveSound
  <2> HIDE DEF x
  <2>3. local' \in [Sessions -> Versions]
    BY <1>2, <2>1, Types
  <2>4. \A s \in Sessions : local'[s] \in {0, local[s]}
    BY <2>1, Types
  <2>5. \A s \in Sessions : deletion[s] = "no" => copiedAlone[s] <= stored[s] \/ copiedAlone[s] <= local'[s]
    BY <2>1, <2>2, Types DEF VersionsInv
  <2> QED BY <2>3, <2>4, <2>5 DEF LocalSound
<1> QED BY <1>3, <1>4

\* A save e may be put behind the transactions that are left.
MayPut(d, e) ==
    /\ stored[e.id] <= e.ver /\ e.ver <= latest[e.id]
    /\ deletion[e.id] = "no" => copiedAlone[e.id] <= e.ver
    /\ \A i \in DOMAIN queue : i > d /\ queue[i].op = "put" /\ queue[i].id = e.id => queue[i].ver <= e.ver
    /\ deletion[e.id] # "done"

\* The newest version may always be put.
LEMMA MayPutNewest ==
    ASSUME TypeOK, VersionsInv, SavesInv, NEW d, NEW e \in Entry, e.op = "put", e.ver = latest[e.id],
           deletion[e.id] # "done"
    PROVE  MayPut(d, e)
<1>1. e.id \in Sessions
  BY EntryFacts
<1>2. \A i \in DOMAIN queue : queue[i].op = "put" /\ queue[i].id = e.id => queue[i].ver <= e.ver
  BY DEF SavesInv, SaveSound
<1> QED BY <1>1, <1>2, Types DEF MayPut, VersionsInv

\* A step that leaves what is stored, the versions and the deletions alone keeps the invariant,
\* if the task and its transaction fit.
LEMMA Quiet ==
    ASSUME SessionsInv, NEW d, NEW n, NEW e, After(d, n, e), UNCHANGED <<stored, history>>, LocalSound,
           TypeOK', PageInv', TasksInv', FlushInv', work' \in {work, NoWork},
           n = 1 => e \in Entry,
           n = 1 /\ e.op = "delete" => deletion[e.id] # "no",
           n = 1 /\ e.op = "put" => MayPut(d, e),
           task'.kind = "delete" => deletion[task'.id] # "no",
           task'.kind \in {"flush", "resume"} /\ task'.id \in Sessions => deletion[task'.id] # "done"
    PROVE  SessionsInv'
<1> USE DEF history
<1>1. TypeOK /\ PageInv /\ VersionsInv /\ InOrder /\ SavesInv /\ TasksInv /\ FlushInv /\ DeletesInv /\ GoneInv
  BY DEF SessionsInv
<1>2. VersionsInv'
  <2>1. work'.id # None => work'.ver = latest'[work'.id]
    BY <1>1 DEF VersionsInv, NoWork
  <2>2. \A s \in Sessions : local'[s] <= latest[s]
    <3> TAKE s \in Sessions
    <3>1. local'[s] \in {0, local[s]} /\ local[s] <= latest[s]
      BY <1>1 DEF VersionsInv, LocalSound
    <3>2. latest[s] \in Nat
      BY <1>1, Types
    <3> QED BY <3>1, <3>2
  <2> QED BY <1>1, <2>1, <2>2 DEF VersionsInv, LocalSound
<1>3. InOrder'
  BY <1>1, OrderMoves
<1>4. SavesInv'
  <2>1. \A s \in Sessions : latest[s] <= latest'[s] /\ (deletion'[s] = "no" => deletion[s] = "no")
    BY <1>1, Types
  <2>2. \A i \in DOMAIN queue : queue[i].op = "put" /\ deletion'[queue[i].id] = "no" =>
                                  copiedAlone'[queue[i].id] <= queue[i].ver
    BY <1>1 DEF SavesInv, SaveSound
  <2>3. n = 1 /\ e.op = "put" =>
             /\ stored[e.id] <= e.ver /\ e.ver <= latest'[e.id]
             /\ deletion'[e.id] = "no" => copiedAlone'[e.id] <= e.ver
             /\ \A i \in DOMAIN queue : i > d /\ queue[i].op = "put" /\ queue[i].id = e.id => queue[i].ver <= e.ver
    BY DEF MayPut
  <2> QED BY <1>1, <2>1, <2>2, <2>3, SavesMove
<1>5. DeletesInv'
  BY <1>1, DeletesMove
<1>6. GoneInv'
  <2> SUFFICES ASSUME NEW s \in Sessions, deletion'[s] = "done"
               PROVE  /\ deletion[s] = "done" /\ local'[s] = 0 /\ work'.id # s
                      /\ ~(n = 1 /\ e.op = "put" /\ e.id = s)
                      /\ ~(task'.kind \in {"flush", "resume"} /\ task'.id = s)
    BY <1>1, GoneMoves
  <2>1. deletion[s] = "done" /\ local'[s] = 0
    BY <1>1 DEF GoneInv, LocalSound
  <2>2. work'.id # s
    BY <1>1, <2>1, NoneAssumption DEF GoneInv, NoWork
  <2>3. ~(n = 1 /\ e.op = "put" /\ e.id = s)
    BY <2>1 DEF MayPut
  <2> QED BY <2>1, <2>2, <2>3
<1> QED BY <1>1, <1>2, <1>3, <1>4, <1>5, <1>6 DEF SessionsInv

-----------------------------------------------------------------------------
(* The steps of the page, one lemma each.                                  *)

\* The parts of the invariant.
LEMMA Parts ==
    ASSUME SessionsInv
    PROVE  TypeOK /\ PageInv /\ VersionsInv /\ InOrder /\ SavesInv /\ TasksInv /\ FlushInv /\ DeletesInv /\ GoneInv
  BY DEF SessionsInv

\* start: the boot begins with the copies.
LEMMA StartKeeps == ASSUME SessionsInv, Start PROVE SessionsInv'
<1> USE DEF pageVars, diskVars, history
<1>1. /\ page = "closed" /\ page' = "booting" /\ task' = [Idle EXCEPT !.kind = "flush"]
      /\ backups' = {s \in Sessions : local[s] # 0}
      /\ UNCHANGED <<work, timer, queue, stored, local, latest, copiedAlone, deletion>>
  BY DEF Start
<1>2. task'.kind = "flush" /\ task'.id = None /\ task' \in Task
  <2>1. 0 \in Versions
    BY BoundsAssumption DEF Versions
  <2> QED BY <1>1, <2>1 DEF Idle, Task
<1>3. After(0, 0, Idle)
  BY <1>1, Parts, Stays
<1>4. TypeOK'
  BY <1>1, <1>2, Parts DEF TypeOK
<1>5. task = Idle /\ PageInv'
  BY <1>1, <1>2, Parts DEF PageInv
<1>6. Clear(0)
  BY <1>5, Parts, ClearIdle
<1>7. TasksInv'
  BY <1>2, <1>3, <1>6, Parts, TasksDone
<1>8. FlushInv'
  BY <1>2, <1>4, <1>7, FlushIdle
<1>9. LocalSound
  BY <1>1, Parts, LocalStays
<1> QED BY <1>1, <1>2, <1>3, <1>4, <1>5, <1>7, <1>8, <1>9, NoneAssumption, Quiet

\* flushBackups looks at the next copy: nothing but it is under way while it is compared.
LEMMA FlushGetKeeps == ASSUME SessionsInv, FlushGet PROVE SessionsInv'
<1> USE DEF pageVars, diskVars, history
<1>1. /\ task.kind = "flush" /\ task.id = None
      /\ UNCHANGED <<page, work, timer, stored, local, latest, copiedAlone, deletion>>
  BY DEF FlushGet
<1>2. PICK s \in backups :
         /\ backups' = backups \ {s}
         /\ IF local[s] = 0 THEN UNCHANGED <<queue, task>>
            ELSE /\ queue' = Append(queue, Trans("get", s, 0, "flush"))
                 /\ task' = [kind |-> "flush", id |-> s, ver |-> local[s]]
  BY DEF FlushGet
<1>3. s \in Sessions
  BY Parts DEF TypeOK
<1>4. Clear(0)
  BY <1>1, Parts, ClearIdle
<1>5. LocalSound
  BY <1>1, Parts, LocalStays
<1>6. CASE local[s] = 0
  <2>1. After(0, 0, Idle) /\ task' = task
    BY <1>2, <1>6, Parts, Stays
  <2>2. TypeOK' /\ PageInv'
    BY <1>1, <1>2, <1>6, Parts DEF TypeOK, PageInv
  <2>3. TasksInv'
    BY <2>1, Parts, TasksKept
  <2>4. FlushInv'
    BY <1>1, <2>1, <2>2, <2>3, FlushIdle
  <2> QED BY <1>1, <1>5, <2>1, <2>2, <2>3, <2>4, NoneAssumption, Quiet
<1>7. CASE local[s] # 0
  <2> DEFINE e == Trans("get", s, 0, "flush")
  <2>1. /\ e \in Entry /\ e.state = "queued" /\ e.op = "get" /\ e.by = "flush" /\ e.id = s
    <3>1. 0 \in Versions
      BY BoundsAssumption DEF Versions
    <3> QED BY <1>3, <3>1, TransFacts
  <2>2. queue' = Append(queue, e)
    BY <1>2, <1>7
  <2>t. task' = [kind |-> "flush", id |-> s, ver |-> local[s]]
    BY <1>2, <1>7
  <2> HIDE DEF e
  <2>3. After(0, 1, e)
    BY <2>1, <2>2, Parts, Appends
  <2>4. task'.kind = "flush" /\ task'.id = s /\ task'.ver = local[s] /\ task' \in Task
    BY <1>3, <2>t, Parts, Types DEF Task
  <2>5. TypeOK'
    BY <1>1, <1>2, <2>3, <2>4, Parts DEF TypeOK, After
  <2>6. PageInv'
    BY <1>1, <2>4, Parts DEF PageInv
  <2>7. TasksInv'
    BY <1>4, <2>1, <2>3, <2>4, Parts, TasksNext DEF TaskOf
  <2>8. FlushInv'
    <3>1. local'[task'.id] = task'.ver /\ task'.ver <= latest'[task'.id]
      BY <1>1, <1>3, <2>4, Parts DEF VersionsInv
    <3> QED BY <1>4, <2>1, <2>3, <3>1, Parts, FlushNext1
  <2>9. deletion[s] # "done"
    BY <1>3, <1>7, Parts DEF GoneInv
  <2> QED BY <1>1, <1>5, <2>1, <2>3, <2>4, <2>5, <2>6, <2>7, <2>8, <2>9, Quiet
<1> QED BY <1>6, <1>7

\* boot asks for the list when no copy is left.
LEMMA BootListKeeps == ASSUME SessionsInv, BootList PROVE SessionsInv'
<1> USE DEF pageVars, diskVars, history
<1> DEFINE e == Trans("list", None, 0, "boot")
<1>1. /\ task.kind = "flush" /\ task.id = None /\ task' = [Idle EXCEPT !.kind = "boot"]
      /\ queue' = Append(queue, e)
      /\ UNCHANGED <<page, work, timer, backups, stored, local, latest, copiedAlone, deletion>>
  BY DEF BootList
<1>0. 0 \in Versions
  BY BoundsAssumption DEF Versions
<1>2. /\ e \in Entry /\ e.state = "queued" /\ e.op = "list" /\ e.by = "boot"
  BY <1>0, TransFacts
<1> HIDE DEF e
<1>3. After(0, 1, e)
  BY <1>1, <1>2, Parts, Appends
<1>4. task'.kind = "boot" /\ task' \in Task
  BY <1>0, <1>1 DEF Idle, Task
<1>5. TypeOK'
  BY <1>1, <1>3, <1>4, Parts DEF TypeOK, After
<1>6. PageInv'
  BY <1>1, <1>4, Parts DEF PageInv
<1>7. Clear(0)
  BY <1>1, Parts, ClearIdle
<1>8. TasksInv'
  BY <1>2, <1>3, <1>4, <1>7, Parts, TasksNext DEF TaskOf
<1>9. FlushInv'
  BY <1>4, <1>8, FlushNone
<1>10. LocalSound
  BY <1>1, Parts, LocalStays
<1> QED BY <1>1, <1>2, <1>3, <1>4, <1>5, <1>6, <1>8, <1>9, <1>10, Quiet

\* backToChart changes the screen only.
LEMMA BackToChartKeeps == ASSUME SessionsInv, BackToChart PROVE SessionsInv'
<1> USE DEF pageVars, diskVars, history
<1>1. /\ page = "sessions" /\ page' = "chart"
      /\ UNCHANGED <<work, timer, task, backups, queue, stored, local, latest, copiedAlone, deletion>>
  BY DEF BackToChart
<1>2. After(0, 0, Idle)
  BY <1>1, Parts, Stays
<1>3. TypeOK' /\ PageInv'
  BY <1>1, Parts DEF TypeOK, PageInv
<1>4. TasksInv'
  BY <1>1, <1>2, Parts, TasksKept
<1>5. FlushInv'
  BY <1>1, <1>3, <1>4, FlushNone DEF PageInv
<1>6. LocalSound
  BY <1>1, Parts, LocalStays
<1>7. /\ task'.kind = "delete" => deletion[task'.id] # "no"
      /\ task'.kind \in {"flush", "resume"} /\ task'.id \in Sessions => deletion[task'.id] # "done"
  BY <1>1, Parts DEF DeletesInv, GoneInv
<1> QED BY <1>1, <1>2, <1>3, <1>4, <1>5, <1>6, <1>7, Quiet

\* saveSession puts the session in memory, which is the newest version, behind the others.
LEMMA SaveStarts ==
    ASSUME SessionsInv, NEW by \in {"save", "show", "new"}, work.id # None,
           queue' = Append(queue, Trans("put", work.id, work.ver, by)),
           NEW e, e = Trans("put", work.id, work.ver, by)
    PROVE  /\ e \in Entry /\ e.op = "put" /\ e.by = by /\ e.state = "queued" /\ e.id = work.id
           /\ After(0, 1, e) /\ MayPut(0, e)
<1>1. work.id \in Sessions /\ work.ver \in Versions /\ work.ver = latest[work.id] /\ deletion[work.id] # "done"
  BY Parts, Types DEF VersionsInv, GoneInv
<1>2. e \in Entry /\ e.op = "put" /\ e.by = by /\ e.state = "queued" /\ e.id = work.id /\ e.ver = work.ver
  BY <1>1, TransFacts
<1>3. After(0, 1, e)
  BY <1>2, Parts, Appends
<1>4. MayPut(0, e)
  BY <1>1, <1>2, Parts, MayPutNewest
<1> QED BY <1>2, <1>3, <1>4

\* The delay of scheduleSave is over: the newest version is put behind the others.
LEMMA SaveTimerKeeps == ASSUME SessionsInv, SaveTimer PROVE SessionsInv'
<1> USE DEF pageVars, diskVars, history
<1>1. /\ timer /\ timer' = FALSE
      /\ queue' = IF work.id = None THEN queue ELSE Append(queue, Trans("put", work.id, work.ver, "save"))
      /\ UNCHANGED <<page, work, task, backups, stored, local, latest, copiedAlone, deletion>>
  BY DEF SaveTimer, SaveSession
<1>2. page \notin {"closed", "booting"} /\ task'.kind # "flush"
  BY <1>1, Parts DEF PageInv
<1>3. LocalSound
  BY <1>1, Parts, LocalStays
<1>4. /\ task'.kind = "delete" => deletion[task'.id] # "no"
      /\ task'.kind \in {"flush", "resume"} /\ task'.id \in Sessions => deletion[task'.id] # "done"
  BY <1>1, Parts DEF DeletesInv, GoneInv
<1>5. PageInv'
  BY <1>1, Parts DEF PageInv
<1>6. CASE work.id = None
  <2>1. After(0, 0, Idle)
    BY <1>1, <1>6, Parts, Stays
  <2>2. TypeOK'
    BY <1>1, <1>6, Parts DEF TypeOK
  <2>3. TasksInv'
    BY <1>1, <2>1, Parts, TasksKept
  <2>4. FlushInv'
    BY <1>2, <2>3, FlushNone
  <2> QED BY <1>1, <1>3, <1>4, <1>5, <2>1, <2>2, <2>3, <2>4, Quiet
<1>7. CASE work.id # None
  <2> DEFINE e == Trans("put", work.id, work.ver, "save")
  <2>1. /\ e \in Entry /\ e.op = "put" /\ e.by = "save" /\ e.state = "queued" /\ e.id = work.id
        /\ After(0, 1, e) /\ MayPut(0, e)
    BY <1>1, <1>7, SaveStarts
  <2> HIDE DEF e
  <2>2. TypeOK'
    BY <1>1, <2>1, Parts DEF TypeOK, After
  <2>3. TasksInv'
    BY <1>1, <2>1, Parts, TasksKept
  <2>4. FlushInv'
    BY <1>2, <2>3, FlushNone
  <2> QED BY <1>1, <1>3, <1>4, <1>5, <2>1, <2>2, <2>3, <2>4, Quiet
<1> QED BY <1>6, <1>7

\* A save returns: what it wrote, or something newer, is stored, so the copy can go.
LEMMA SaveReturnsKeeps == ASSUME SessionsInv, SaveReturns PROVE SessionsInv'
<1> USE DEF pageVars, diskVars, history
<1>1. /\ queue # <<>> /\ queue[1].op = "put" /\ queue[1].by = "save" /\ queue[1].state # "queued"
      /\ local' = DroppedIfOk /\ queue' = Tail(queue)
      /\ UNCHANGED <<page, work, timer, task, backups, stored, latest, copiedAlone, deletion>>
  BY DEF SaveReturns, Due
<1>2. After(1, 0, Idle)
  BY <1>1, Parts, Pops
<1>3. LocalSound
  BY <1>1, Parts, DropSound
<1>4. TypeOK' /\ PageInv'
  <2>1. queue' \in Seq(Entry) /\ local' \in [Sessions -> Versions]
    BY <1>2, <1>3 DEF After, LocalSound
  <2>2. TypeOK /\ PageInv
    BY Parts
  <2>3. TypeOK'
    BY <1>1, <2>1, <2>2 DEF TypeOK
  <2>4. PageInv'
    BY <1>1, <2>2 DEF PageInv
  <2> QED BY <2>3, <2>4
<1>5. TasksInv'
  BY <1>1, <1>2, Parts, TasksKept
<1>6. FlushInv'
  BY <1>1, <1>2, <1>3, Parts, FlushKept DEF LocalSound
<1>7. /\ task'.kind = "delete" => deletion[task'.id] # "no"
      /\ task'.kind \in {"flush", "resume"} /\ task'.id \in Sessions => deletion[task'.id] # "done"
  BY <1>1, Parts DEF DeletesInv, GoneInv
<1> QED BY <1>1, <1>2, <1>3, <1>4, <1>5, <1>6, <1>7, Quiet

\* A copy that was looked at leads to the next one.
LEMMA FlushGoesOn ==
    ASSUME SessionsInv, queue # <<>>, queue[1].by = "flush", queue' = Tail(queue), LocalSound, FlushNext,
           UNCHANGED <<page, work, timer, backups, stored, history>>
    PROVE  SessionsInv'
<1> USE DEF history
<1>1. After(1, 0, Idle)
  BY Parts, Pops
<1>2. Clear(1) /\ TaskOf(task, queue[1])
  BY Parts, ClearHead
<1>3. task'.kind = "flush" /\ task'.id = None /\ task' \in Task
  <2>1. 0 \in Versions
    BY BoundsAssumption DEF Versions
  <2> QED BY <2>1 DEF FlushNext, Idle, Task
<1>4. TypeOK'
  BY <1>1, <1>3, Parts DEF TypeOK, After, LocalSound
<1>5. PageInv'
  <2>1. task.kind = "flush"
    BY <1>2 DEF TaskOf
  <2> QED BY <1>3, <2>1, Parts DEF PageInv, Idle
<1>6. TasksInv'
  BY <1>1, <1>2, <1>3, Parts, TasksDone
<1>7. FlushInv'
  BY <1>3, <1>4, <1>6, FlushIdle
<1> QED BY <1>1, <1>3, <1>4, <1>5, <1>6, <1>7, NoneAssumption, Quiet

\* The copy is written: it can go.
LEMMA FlushReturnsKeeps == ASSUME SessionsInv, FlushReturns PROVE SessionsInv'
<1>1. /\ queue # <<>> /\ queue[1].op = "put" /\ queue[1].by = "flush" /\ queue[1].state # "queued"
      /\ local' = DroppedIfOk /\ queue' = Tail(queue) /\ FlushNext
      /\ UNCHANGED <<page, work, timer, backups, stored, history>>
  BY DEF FlushReturns, Due
<1>2. LocalSound
  BY <1>1, Parts, DropSound
<1> QED BY <1>1, <1>2, FlushGoesOn

\* The copy is compared: what IndexedDB had at the commit it still has, for nothing was behind the read.
LEMMA FlushCompareKeeps == ASSUME SessionsInv, FlushCompare PROVE SessionsInv'
<1> USE DEF pageVars, diskVars, history
<1> DEFINE x == queue[1]
<1>1. /\ queue # <<>> /\ x.op = "get" /\ x.by = "flush" /\ x.state # "queued"
      /\ UNCHANGED <<page, work, timer, backups, stored, latest, copiedAlone, deletion>>
  BY DEF FlushCompare, Due
<1>2. Clear(1) /\ TaskOf(task, x) /\ x \in Entry /\ 1 \in DOMAIN queue
  BY <1>1, Parts, ClearHead
<1>3. task.kind = "flush" /\ x.id = task.id /\ x.id \in Sessions /\ x.ver \in Nat /\ x.state \in {"ok", "failed"}
  BY <1>1, <1>2, EntryFacts DEF TaskOf
<1>4. /\ local[task.id] \in {0, task.ver} /\ task.ver <= latest[task.id]
      /\ 1 = Len(queue) /\ (x.state = "ok" => x.ver = stored[task.id])
  BY <1>1, <1>2, <1>3, NoneAssumption, Parts DEF FlushInv
<1>5. deletion[task.id] # "done"
  BY <1>3, Parts DEF GoneInv
<1>6. deletion[task.id] = "no" => copiedAlone[task.id] <= stored[task.id] \/ copiedAlone[task.id] <= local[task.id]
  BY <1>3, Parts DEF VersionsInv
<1>t. /\ task.ver \in Nat /\ task.ver \in Versions
      /\ stored[task.id] \in Nat /\ local[task.id] \in Nat /\ latest[task.id] \in Nat /\ copiedAlone[task.id] \in Nat
  BY <1>3, Parts, Types
<1>7. CASE Ok /\ task.ver >= x.ver
  <2> DEFINE e == Trans("put", task.id, task.ver, "flush")
  <2>1. queue' = Append(Tail(queue), e) /\ UNCHANGED <<task, local>>
    BY <1>7 DEF FlushCompare, FlushPut
  <2>2. e \in Entry /\ e.op = "put" /\ e.by = "flush" /\ e.state = "queued" /\ e.id = task.id /\ e.ver = task.ver
    BY <1>3, <1>t, TransFacts
  <2> HIDE DEF e
  <2>3. After(1, 1, e)
    BY <1>1, <2>1, <2>2, Parts, PopsAppends
  <2>4. LocalSound
    BY <2>1, Parts, LocalStays
  <2>5. TypeOK' /\ PageInv'
    BY <1>1, <2>1, <2>3, Parts DEF TypeOK, PageInv, After
  <2>6. TasksInv'
    BY <1>2, <1>3, <2>1, <2>2, <2>3, Parts, TasksNext DEF TaskOf
  <2>7. FlushInv'
    BY <1>1, <1>2, <1>4, <2>1, <2>2, <2>3, Parts, FlushNext1
  <2>8. MayPut(1, e)
    <3>1. x.state = "ok" /\ x.ver = stored[task.id] /\ stored[task.id] <= task.ver
      BY <1>4, <1>7, <1>t DEF Ok
    <3>2. deletion[task.id] = "no" => copiedAlone[task.id] <= task.ver
      BY <1>4, <1>6, <1>t, <3>1
    <3>3. \A i \in DOMAIN queue : ~(i > 1)
      BY <1>4, <2>3 DEF After
    <3> QED BY <1>4, <1>5, <2>2, <3>1, <3>2, <3>3 DEF MayPut
  <2>9. /\ task'.kind = "delete" => deletion[task'.id] # "no"
        /\ task'.kind \in {"flush", "resume"} /\ task'.id \in Sessions => deletion[task'.id] # "done"
    BY <1>3, <1>5, <2>1
  <2> QED BY <1>1, <2>1, <2>2, <2>3, <2>4, <2>5, <2>6, <2>7, <2>8, <2>9, Quiet
<1>8. CASE ~(Ok /\ task.ver >= x.ver)
  <2>1. queue' = Tail(queue) /\ local' = DroppedIfOk /\ FlushNext
    BY <1>8 DEF FlushCompare
  <2>2. CASE ~Ok
    <3>1. UNCHANGED local
      BY <2>1, <2>2 DEF DroppedIfOk
    <3>2. LocalSound
      BY <3>1, Parts, LocalStays
    <3> QED BY <1>1, <2>1, <3>2, FlushGoesOn
  <2>3. CASE Ok
    <3>1. local' = [local EXCEPT ![task.id] = 0]
      BY <1>3, <2>1, <2>3 DEF DroppedIfOk
    <3>2. task.ver < stored[task.id]
      <4>1. x.ver = stored[task.id] /\ ~(task.ver >= x.ver)
        BY <1>4, <1>8, <2>3 DEF Ok
      <4> QED BY <1>t, <4>1
    <3>3. deletion[task.id] = "no" => copiedAlone[task.id] <= stored[task.id]
      BY <1>4, <1>6, <1>t, <3>2
    <3>4. 0 \in Versions
      BY BoundsAssumption DEF Versions
    <3>5. local' \in [Sessions -> Versions] /\ \A s \in Sessions : local'[s] \in {0, local[s]}
      BY <1>3, <3>1, <3>4, Parts, Types
    <3>6. \A s \in Sessions : deletion[s] = "no" => copiedAlone[s] <= stored[s] \/ copiedAlone[s] <= local'[s]
      BY <1>3, <3>1, <3>3, Parts, Types DEF VersionsInv
    <3>7. LocalSound
      BY <3>5, <3>6 DEF LocalSound
    <3> QED BY <1>1, <2>1, <3>7, FlushGoesOn
  <2> QED BY <2>2, <2>3
<1> QED BY <1>7, <1>8

\* The last callback of a task, or the failure of one of its transactions.
LEMMA TaskEnds ==
    ASSUME SessionsInv, queue # <<>>, queue[1].by # "save", queue' = Tail(queue), task' = Idle,
           page' \in {"chart", "sessions"},
           UNCHANGED <<work, timer, backups, stored, local, history>>
    PROVE  SessionsInv'
<1> USE DEF history
<1>1. After(1, 0, Idle)
  BY Parts, Pops
<1>2. Clear(1)
  BY Parts, ClearHead
<1>3. task'.kind = "none" /\ task'.id = None /\ task' \in Task
  <2>1. 0 \in Versions
    BY BoundsAssumption DEF Versions
  <2> QED BY <2>1 DEF Idle, Task
<1>4. TypeOK' /\ PageInv'
  BY <1>1, <1>3, Parts DEF TypeOK, PageInv, After
<1>5. TasksInv'
  BY <1>1, <1>2, Parts, TasksDone
<1>6. FlushInv'
  BY <1>3, <1>5, FlushNone
<1>7. LocalSound
  BY Parts, LocalStays
<1> QED BY <1>1, <1>3, <1>4, <1>5, <1>6, <1>7, Quiet

\* The task of a callback, which the boot hides behind no screen.
LEMMA TaskOfHead ==
    ASSUME SessionsInv, NEW by, by \in {"show", "new", "resume", "delete"}, queue # <<>>, queue[1].by = by
    PROVE  task.kind = by /\ page \in {"chart", "sessions"}
<1>1. task.kind = by
  BY Parts, ClearHead DEF TaskOf
<1> QED BY <1>1, Parts DEF PageInv, TypeOK, Idle

\* showSessions ends with the list.
LEMMA ShowListKeeps == ASSUME SessionsInv, ShowList PROVE SessionsInv'
<1>1. /\ queue # <<>> /\ queue[1].by = "show" /\ page' = "sessions" /\ task' = Idle /\ queue' = Tail(queue)
      /\ UNCHANGED <<work, timer, backups, stored, local, history>>
  BY DEF ShowList, Due
<1> QED BY <1>1, TaskEnds

\* deleteSession ends with the list.
LEMMA DeleteListedKeeps == ASSUME SessionsInv, DeleteListed PROVE SessionsInv'
<1>1. /\ queue # <<>> /\ queue[1].by = "delete" /\ task' = Idle /\ queue' = Tail(queue)
      /\ UNCHANGED <<page, work, timer, backups, stored, local, history>>
  BY DEF DeleteListed, Due
<1>2. page \in {"chart", "sessions"}
  BY <1>1, TaskOfHead
<1> QED BY <1>1, <1>2, TaskEnds

\* The callback of a task's transaction that starts its next one, e.
LEMMA TaskGoesOn ==
    ASSUME SessionsInv, queue # <<>>, NEW by, by \in {"show", "delete"}, queue[1].by = by,
           NEW e \in Entry, e.state = "queued", e.by = by, e.op \in {"list", "delete"},
           e.op = "delete" => e.by = "delete" /\ e.id = task.id,
           queue' = Append(Tail(queue), e), LocalSound,
           UNCHANGED <<page, work, timer, task, backups, stored, history>>
    PROVE  SessionsInv'
<1> USE DEF history
<1>1. After(1, 1, e)
  BY Parts, PopsAppends
<1>2. Clear(1)
  BY Parts, ClearHead
<1>3. task.kind = by
  BY TaskOfHead
<1>4. TypeOK' /\ PageInv'
  BY <1>1, Parts DEF TypeOK, PageInv, After, LocalSound
<1>5. TasksInv'
  <2>1. TaskOf(task', e)
    BY <1>3 DEF TaskOf
  <2>2. task'.kind \in {"resume", "delete"} => task'.id \in Sessions
    BY Parts DEF TasksInv
  <2> QED BY <1>1, <1>2, <1>3, <2>1, <2>2, Parts, TasksNext
<1>6. FlushInv'
  BY <1>3, <1>5, FlushNone
<1>7. /\ task'.kind = "delete" => deletion[task'.id] # "no"
      /\ task'.kind \in {"flush", "resume"} /\ task'.id \in Sessions => deletion[task'.id] # "done"
  BY Parts DEF DeletesInv, GoneInv
<1>8. e.op = "delete" => deletion[e.id] # "no"
  <2>1. e.op = "delete" => e.by = "delete"
    OBVIOUS
  <2> QED BY <1>3, <1>7, <2>1
<1> QED BY <1>1, <1>4, <1>5, <1>6, <1>7, <1>8, Quiet

\* showSessions asks for the list after its save.
LEMMA ShowSavedKeeps == ASSUME SessionsInv, ShowSaved PROVE SessionsInv'
<1> USE DEF pageVars
<1> DEFINE e == Trans("list", None, 0, "show")
<1>1. /\ queue # <<>> /\ queue[1].by = "show" /\ queue[1].op = "put" /\ queue[1].state # "queued"
      /\ queue' = Append(Tail(queue), e) /\ local' = DroppedIfOk
      /\ UNCHANGED <<page, work, timer, task, backups, stored, history>>
  BY DEF ShowSaved, Due, List
<1>2. e \in Entry /\ e.state = "queued" /\ e.by = "show" /\ e.op = "list"
  <2>1. 0 \in Versions
    BY BoundsAssumption DEF Versions
  <2> QED BY <2>1, TransFacts
<1> HIDE DEF e
<1>3. LocalSound
  BY <1>1, Parts, DropSound
<1> QED BY <1>1, <1>2, <1>3, TaskGoesOn

\* deleteSession removes what it could read.
LEMMA DeleteGotKeeps == ASSUME SessionsInv, DeleteGot PROVE SessionsInv'
<1> USE DEF history
<1>1. /\ queue # <<>> /\ queue[1].by = "delete"
      /\ UNCHANGED <<page, work, timer, backups, stored, local, latest, copiedAlone, deletion>>
  BY DEF DeleteGot, Due
<1>2. task.kind = "delete" /\ page \in {"chart", "sessions"}
  BY <1>1, TaskOfHead
<1>3. CASE Ok
  <2> DEFINE e == Trans("delete", task.id, 0, "delete")
  <2>1. queue' = Append(Tail(queue), e) /\ UNCHANGED task
    BY <1>3 DEF DeleteGot
  <2>2. task.id \in Sessions
    BY <1>2, Parts DEF TasksInv
  <2>3. e \in Entry /\ e.state = "queued" /\ e.by = "delete" /\ e.op = "delete" /\ e.id = task.id
    <3>1. 0 \in Versions
      BY BoundsAssumption DEF Versions
    <3> QED BY <2>2, <3>1, TransFacts
  <2> HIDE DEF e
  <2>4. LocalSound
    BY <1>1, Parts, LocalStays
  <2> QED BY <1>1, <2>1, <2>3, <2>4, TaskGoesOn
<1>4. CASE ~Ok
  <2>1. queue' = Tail(queue) /\ task' = Idle
    BY <1>4 DEF DeleteGot
  <2> QED BY <1>1, <1>2, <2>1, TaskEnds
<1> QED BY <1>3, <1>4

\* resume has the record, or gives up.
LEMMA ResumeGotKeeps == ASSUME SessionsInv, ResumeGot PROVE SessionsInv'
<1> USE DEF history
<1> DEFINE x == queue[1]
<1>1. /\ queue # <<>> /\ x.op = "get" /\ x.by = "resume" /\ x.state # "queued" /\ queue' = Tail(queue)
      /\ task' = IF Ok /\ x.ver # 0 THEN [task EXCEPT !.ver = x.ver] ELSE Idle
      /\ UNCHANGED <<page, work, timer, backups, stored, local, latest, copiedAlone, deletion>>
  BY DEF ResumeGot, Due
<1>2. task.kind = "resume" /\ page \in {"chart", "sessions"}
  BY <1>1, TaskOfHead
<1>3. Clear(1) /\ TaskOf(task, x) /\ x \in Entry
  BY <1>1, Parts, ClearHead
<1>4. CASE Ok /\ x.ver # 0
  <2>1. task.id \in Sessions /\ task \in Task /\ x.ver \in Versions
    BY <1>2, <1>3, Parts, EntryFacts DEF TasksInv, TypeOK
  <2> HIDE DEF x
  <2>2. task'.kind = "resume" /\ task'.id = task.id /\ task'.ver # 0 /\ task' \in Task
    BY <1>1, <1>2, <1>4, <2>1 DEF Task
  <2>3. After(1, 0, Idle)
    BY <1>1, Parts, Pops DEF x
  <2>4. LocalSound
    BY <1>1, Parts, LocalStays
  <2>5. TypeOK'
    BY <1>1, <2>2, <2>3, Parts DEF TypeOK, After
  <2>6. PageInv'
    BY <1>1, <1>2, <2>2, Parts DEF PageInv
  <2>7. TasksInv'
    BY <1>3, <2>1, <2>2, <2>3, Parts, TasksDone
  <2>8. FlushInv'
    BY <2>2, <2>7, FlushNone
  <2>9. deletion[task'.id] # "done"
    BY <1>2, <2>1, <2>2, Parts DEF GoneInv
  <2> QED BY <1>1, <2>2, <2>3, <2>4, <2>5, <2>6, <2>7, <2>8, <2>9, Quiet
<1>5. CASE ~(Ok /\ x.ver # 0)
  BY <1>1, <1>2, <1>5, TaskEnds
<1> QED BY <1>4, <1>5

\* A task that starts with the transaction e, from a screen.
LEMMA TaskStarts ==
    ASSUME SessionsInv, task = Idle, page \in {"chart", "sessions"},
           NEW e \in Entry, e.state = "queued", e.by # "save", e.op \in {"put", "get", "list"},
           e.op = "put" => MayPut(0, e),
           After(0, 1, e), task' \in Task, task'.kind \in {"show", "new", "resume"},
           TaskOf(task', e),
           task'.kind = "resume" => task'.id \in Sessions /\ deletion[task'.id] # "done",
           timer' \in BOOLEAN, UNCHANGED <<page, work, backups, stored, local, history>>
    PROVE  SessionsInv'
<1> USE DEF history
<1>1. Clear(0)
  BY Parts, ClearIdle
<1>2. TypeOK'
  BY Parts DEF TypeOK, After
<1>3. PageInv'
  BY Parts DEF PageInv
<1>4. TasksInv'
  BY <1>1, Parts, TasksNext
<1>5. FlushInv'
  BY <1>4, FlushNone
<1>6. LocalSound
  BY Parts, LocalStays
<1> QED BY <1>2, <1>3, <1>4, <1>5, <1>6, Quiet

\* A task that has just begun.
LEMMA TaskFacts ==
    ASSUME NEW k \in {"none", "show", "new", "resume", "delete", "flush", "boot"}
    PROVE  [Idle EXCEPT !.kind = k] \in Task /\ [Idle EXCEPT !.kind = k].kind = k /\ [Idle EXCEPT !.kind = k].id = None
<1>1. 0 \in Versions
  BY BoundsAssumption DEF Versions
<1> QED BY <1>1 DEF Idle, Task

\* showSessions saves, or asks for the list at once.
LEMMA ShowSessionsKeeps == ASSUME SessionsInv, ShowSessions PROVE SessionsInv'
<1> USE DEF history
<1>1. /\ page = "chart" /\ task = Idle /\ task' = [Idle EXCEPT !.kind = "show"]
      /\ UNCHANGED <<page, work, backups, stored, local, latest, copiedAlone, deletion>>
  BY DEF ShowSessions
<1>2. task' \in Task /\ task'.kind = "show"
  BY <1>1, TaskFacts
<1>3. CASE work.id = None
  <2> DEFINE e == Trans("list", None, 0, "show")
  <2>1. queue' = Append(queue, e) /\ UNCHANGED timer
    BY <1>3 DEF ShowSessions, List
  <2>2. e \in Entry /\ e.state = "queued" /\ e.by = "show" /\ e.op = "list"
    <3>1. 0 \in Versions
      BY BoundsAssumption DEF Versions
    <3> QED BY <3>1, TransFacts
  <2> HIDE DEF e
  <2>3. After(0, 1, e)
    BY <2>1, <2>2, Parts, Appends
  <2>4. TaskOf(task', e)
    BY <1>2, <2>2 DEF TaskOf
  <2>5. timer' \in BOOLEAN
    BY <2>1, Parts DEF TypeOK
  <2> QED BY <1>1, <1>2, <2>2, <2>3, <2>4, <2>5, TaskStarts
<1>4. CASE work.id # None
  <2> DEFINE e == Trans("put", work.id, work.ver, "show")
  <2>1. queue' = Append(queue, e) /\ timer' = FALSE
    BY <1>4 DEF ShowSessions, SaveSession
  <2>2. e \in Entry /\ e.op = "put" /\ e.by = "show" /\ e.state = "queued" /\ After(0, 1, e) /\ MayPut(0, e)
    BY <1>4, <2>1, SaveStarts
  <2> HIDE DEF e
  <2>3. TaskOf(task', e)
    BY <1>2, <2>2 DEF TaskOf
  <2> QED BY <1>1, <1>2, <2>1, <2>2, <2>3, TaskStarts
<1> QED BY <1>3, <1>4

\* resume reads a record that is there, so it was not deleted.
LEMMA ResumeKeeps == ASSUME SessionsInv, Resume PROVE SessionsInv'
<1> USE DEF history
<1>1. /\ page = "sessions" /\ task = Idle
      /\ UNCHANGED <<page, work, timer, backups, stored, local, latest, copiedAlone, deletion>>
  BY DEF Resume
<1>2. PICK s \in Sessions : /\ Present(s)
                            /\ queue' = Append(queue, Trans("get", s, 0, "resume"))
                            /\ task' = [kind |-> "resume", id |-> s, ver |-> 0]
  BY DEF Resume
<1>0. 0 \in Versions
  BY BoundsAssumption DEF Versions
<1> DEFINE e == Trans("get", s, 0, "resume")
<1>3. e \in Entry /\ e.state = "queued" /\ e.by = "resume" /\ e.op = "get" /\ e.id = s
  BY <1>0, TransFacts
<1>4. queue' = Append(queue, e)
  BY <1>2
<1>5. task' \in Task /\ task'.kind = "resume" /\ task'.id = s /\ task'.ver = 0
  BY <1>0, <1>2 DEF Task
<1> HIDE DEF e
<1>6. After(0, 1, e)
  BY <1>3, <1>4, Parts, Appends
<1>7. TaskOf(task', e)
  BY <1>3, <1>5 DEF TaskOf
<1>8. deletion[s] # "done"
  BY <1>2, Parts DEF GoneInv, Present
<1>9. timer' \in BOOLEAN
  BY <1>1, Parts DEF TypeOK
<1> QED BY <1>1, <1>3, <1>5, <1>6, <1>7, <1>8, <1>9, TaskStarts

\* openSession, from a screen or as the last step of a task.
LEMMA OpenKeeps ==
    ASSUME SessionsInv, NEW id \in Sessions, NEW d, d = 0 \/ (d = 1 /\ queue # <<>>), Clear(d),
           OpenSession(id, IF d = 0 THEN queue ELSE Tail(queue)), deletion[id] # "done", LocalSound
    PROVE  SessionsInv'
<1> USE DEF history
<1> DEFINE v == latest[id] + 1
           e == Trans("put", id, v, "save")
<1>1. /\ latest[id] < MaxVer /\ work' = [id |-> id, ver |-> v] /\ latest' = [latest EXCEPT ![id] = v]
      /\ page' = "chart" /\ task' = Idle /\ timer' = FALSE
      /\ UNCHANGED <<backups, stored, copiedAlone, deletion>>
  BY DEF OpenSession, SaveSession
<1>2. work'.id = id /\ work'.ver = v /\ id # None
  BY <1>1, NoneAssumption
<1>3. queue' = Append(IF d = 0 THEN queue ELSE Tail(queue), e)
  <2>1. SaveSession(IF d = 0 THEN queue ELSE Tail(queue), work', "save")
    BY DEF OpenSession
  <2> QED BY <1>2, <2>1 DEF SaveSession
<1>4. latest[id] \in Nat /\ v \in Nat /\ v \in Versions
  <2>1. latest[id] \in Nat
    BY Parts, Types
  <2> QED BY <1>1, <2>1, BoundsAssumption DEF Versions
<1>5. e \in Entry /\ e.state = "queued" /\ e.by = "save" /\ e.op = "put" /\ e.id = id /\ e.ver = v
  BY <1>4, TransFacts
<1> HIDE DEF e
<1>6. After(d, 1, e)
  <2>1. CASE d = 0
    BY <1>3, <1>5, <2>1, Parts, Appends
  <2>2. CASE d = 1 /\ queue # <<>>
    BY <1>3, <1>5, <2>2, Parts, PopsAppends
  <2> QED BY <2>1, <2>2
<1>7. latest' \in [Sessions -> Versions] /\ latest'[id] = v /\ \A s \in Sessions : s # id => latest'[s] = latest[s]
  BY <1>1, <1>4, Parts, Types
<1>8. \A s \in Sessions : latest[s] <= latest'[s] /\ latest'[s] \in Nat /\ latest[s] \in Nat
  <2> TAKE s \in Sessions
  <2>1. latest[s] \in Nat
    BY Parts, Types
  <2>2. latest'[s] = latest[s] \/ (latest'[s] = latest[s] + 1 /\ s = id)
    BY <1>7
  <2> QED BY <2>1, <2>2
<1>9. Idle.kind = "none" /\ Idle.id = None /\ Idle \in Task
  <2>1. 0 \in Versions
    BY BoundsAssumption DEF Versions
  <2> QED BY <2>1 DEF Idle, Task
<1> HIDE DEF v
<1>10. TypeOK'
  <2>1. work' \in [id : Sessions \cup {None}, ver : Versions]
    BY <1>1, <1>4
  <2>2. queue' \in Seq(Entry)
    BY <1>6 DEF After
  <2>3. TypeOK /\ local' \in [Sessions -> Versions]
    BY Parts DEF LocalSound
  <2> HIDE DEF e
  <2>4. page' \in {"closed", "booting", "chart", "sessions"} /\ timer' \in BOOLEAN /\ task' \in Task
    BY <1>1, <1>9
  <2>5. backups' \subseteq Sessions /\ deletion' \in [Sessions -> {"no", "asked", "done"}]
    BY <1>1, <2>3 DEF TypeOK
  <2>6. stored' \in [Sessions -> Versions] /\ copiedAlone' \in [Sessions -> Versions]
    BY <1>1, <2>3 DEF TypeOK
  <2> QED BY <1>7, <2>1, <2>2, <2>3, <2>4, <2>5, <2>6 DEF TypeOK
<1>11. PageInv'
  BY <1>1, <1>9 DEF PageInv
<1>12. VersionsInv'
  <2>1. \A s \in Sessions : stored[s] <= latest'[s] /\ local'[s] <= latest'[s] /\ copiedAlone[s] <= latest'[s]
    <3> TAKE s \in Sessions
    <3>1. stored[s] <= latest[s] /\ local[s] <= latest[s] /\ copiedAlone[s] <= latest[s]
      BY Parts DEF VersionsInv
    <3>2. stored[s] \in Nat /\ local[s] \in Nat /\ copiedAlone[s] \in Nat
      BY Parts, Types
    <3>3. local'[s] \in {0, local[s]}
      BY DEF LocalSound
    <3> QED BY <1>8, <3>1, <3>2, <3>3
  <2>2. \A s \in Sessions : deletion[s] # "no" => latest'[s] > 0
    <3> TAKE s \in Sessions
    <3>1. deletion[s] # "no" => latest[s] > 0
      BY Parts DEF VersionsInv
    <3> QED BY <1>8, <3>1
  <2> QED BY <1>1, <1>2, <1>7, <2>1, <2>2 DEF VersionsInv, LocalSound
<1>13. InOrder'
  BY <1>6, Parts, OrderMoves
<1>14. SavesInv'
  <2>1. \A s \in Sessions : latest[s] <= latest'[s] /\ (deletion'[s] = "no" => deletion[s] = "no")
    BY <1>1, <1>8
  <2>2. \A i \in DOMAIN queue : queue[i].op = "put" /\ deletion'[queue[i].id] = "no" =>
                                  copiedAlone'[queue[i].id] <= queue[i].ver
    BY <1>1, Parts DEF SavesInv, SaveSound
  <2>3. stored[id] <= v /\ copiedAlone[id] <= v /\ v <= latest'[id]
    <3>1. stored[id] <= latest[id] /\ copiedAlone[id] <= latest[id]
      BY Parts DEF VersionsInv
    <3>2. stored[id] \in Nat /\ copiedAlone[id] \in Nat
      BY Parts, Types
    <3> QED BY <1>4, <1>7, <3>1, <3>2 DEF v
  <2>4. \A i \in DOMAIN queue : queue[i].op = "put" /\ queue[i].id = id => queue[i].ver <= v
    <3> SUFFICES ASSUME NEW i \in DOMAIN queue, queue[i].op = "put", queue[i].id = id PROVE queue[i].ver <= v
      OBVIOUS
    <3> DEFINE x == queue[i]
    <3>1. x.ver <= latest[id] /\ x \in Entry
      BY Parts, Types DEF SavesInv, SaveSound
    <3> HIDE DEF x
    <3>2. x.ver \in Nat
      BY <3>1, EntryFacts
    <3>3. x.ver <= v
      BY <1>4, <3>1, <3>2 DEF v
    <3> QED BY <3>3 DEF x
  <2> QED BY <1>1, <1>5, <1>6, <1>10, <2>1, <2>2, <2>3, <2>4, Parts, SavesMove
<1>15. TasksInv'
  BY <1>1, <1>5, <1>6, Parts, TasksDone
<1>16. FlushInv'
  BY <1>1, <1>9, <1>15, FlushNone
<1>17. DeletesInv'
  BY <1>1, <1>5, <1>6, <1>9, Parts, DeletesMove
<1>18. GoneInv'
  <2> SUFFICES ASSUME NEW s \in Sessions, deletion'[s] = "done"
               PROVE  /\ deletion[s] = "done" /\ local'[s] = 0 /\ work'.id # s
                      /\ ~(1 = 1 /\ e.op = "put" /\ e.id = s)
                      /\ ~(task'.kind \in {"flush", "resume"} /\ task'.id = s)
    BY <1>1, <1>6, Parts, GoneMoves
  <2>1. deletion[s] = "done" /\ local'[s] = 0 /\ s # id
    BY <1>1, Parts DEF GoneInv, LocalSound
  <2> QED BY <1>1, <1>2, <1>5, <1>9, <2>1
<1> QED BY <1>10, <1>11, <1>12, <1>13, <1>14, <1>15, <1>16, <1>17, <1>18 DEF SessionsInv

\* A session that was never opened, or that is stored, was not deleted.
LEMMA NotDeleted ==
    ASSUME SessionsInv, NEW s \in Sessions, Fresh(s) \/ Present(s)
    PROVE  deletion[s] # "done"
<1>1. latest[s] \in Nat
  BY Parts, Types
<1> QED BY <1>1, Parts DEF VersionsInv, GoneInv, Fresh, Present

\* boot opens a session that is there, or a new one, or shows the list.
LEMMA BootOpenKeeps == ASSUME SessionsInv, BootOpen PROVE SessionsInv'
<1>1. queue # <<>> /\ queue[1].by = "boot"
  BY DEF BootOpen, Due
<1>2. Clear(1)
  BY <1>1, Parts, ClearHead
<1>3. ASSUME NEW s \in Sessions, Fresh(s) \/ (Ok /\ Present(s)), OpenSession(s, Tail(queue)), UNCHANGED local
      PROVE  SessionsInv'
  <2>1. LocalSound
    BY <1>3, Parts, LocalStays
  <2>2. deletion[s] # "done"
    BY <1>3, NotDeleted
  <2> QED BY <1>1, <1>2, <1>3, <2>1, <2>2, OpenKeeps
<1>4. CASE /\ page' = "sessions" /\ task' = Idle /\ queue' = Tail(queue)
           /\ UNCHANGED <<work, timer, backups, stored, local, history>>
  BY <1>1, <1>4, TaskEnds
<1> QED BY <1>3, <1>4 DEF BootOpen

\* A new session is opened when the old one is saved.
LEMMA NewSavedKeeps == ASSUME SessionsInv, NewSaved PROVE SessionsInv'
<1>1. queue # <<>> /\ queue[1].by = "new" /\ queue[1].op = "put" /\ queue[1].state # "queued" /\ local' = DroppedIfOk
  BY DEF NewSaved, Due
<1>2. PICK s \in Sessions : Fresh(s) /\ OpenSession(s, Tail(queue))
  BY DEF NewSaved
<1>3. Clear(1)
  BY <1>1, Parts, ClearHead
<1>4. LocalSound
  BY <1>1, Parts, DropSound
<1>5. deletion[s] # "done"
  BY <1>2, NotDeleted
<1> QED BY <1>1, <1>2, <1>3, <1>4, <1>5, OpenKeeps

\* A new session is opened, after a save when there is something to save.
LEMMA NewSessionKeeps == ASSUME SessionsInv, NewSession PROVE SessionsInv'
<1> USE DEF history
<1>1. page = "sessions" /\ task = Idle
  BY DEF NewSession
<1>2. CASE work.id = None
  <2>1. PICK s \in Sessions : Fresh(s) /\ OpenSession(s, queue) /\ UNCHANGED local
    BY <1>2 DEF NewSession
  <2>2. Clear(0)
    BY <1>1, Parts, ClearIdle
  <2>3. LocalSound
    BY <2>1, Parts, LocalStays
  <2>4. deletion[s] # "done"
    BY <2>1, NotDeleted
  <2> QED BY <2>1, <2>2, <2>3, <2>4, OpenKeeps
<1>3. CASE work.id # None
  <2> DEFINE e == Trans("put", work.id, work.ver, "new")
  <2>1. /\ task' = [Idle EXCEPT !.kind = "new"] /\ queue' = Append(queue, e) /\ timer' = FALSE
        /\ UNCHANGED <<page, work, backups, stored, local, latest, copiedAlone, deletion>>
    BY <1>3 DEF NewSession, SaveSession
  <2>2. task' \in Task /\ task'.kind = "new"
    BY <2>1, TaskFacts
  <2>3. e \in Entry /\ e.op = "put" /\ e.by = "new" /\ e.state = "queued" /\ After(0, 1, e) /\ MayPut(0, e)
    BY <1>3, <2>1, SaveStarts
  <2> HIDE DEF e
  <2>4. TaskOf(task', e)
    BY <2>2, <2>3 DEF TaskOf
  <2> QED BY <1>1, <2>1, <2>2, <2>3, <2>4, TaskStarts
<1> QED BY <1>2, <1>3

\* resume opens the record, or its bars are missing.
LEMMA ResumeOpenKeeps == ASSUME SessionsInv, ResumeOpen PROVE SessionsInv'
<1> USE DEF pageVars, diskVars, history
<1>1. task.kind = "resume" /\ task.ver # 0
  BY DEF ResumeOpen
<1>2. Clear(0) /\ task.id \in Sessions /\ deletion[task.id] # "done"
  BY <1>1, Parts, ClearIdle DEF TasksInv, GoneInv
<1>3. CASE OpenSession(task.id, queue) /\ UNCHANGED local
  <2>1. LocalSound
    BY <1>3, Parts, LocalStays
  <2> QED BY <1>2, <1>3, <2>1, OpenKeeps
<1>4. CASE task' = Idle /\ UNCHANGED <<page, work, timer, backups, diskVars, history>>
  <2>1. After(0, 0, Idle)
    BY <1>4, Parts, Stays
  <2>2. task'.kind = "none" /\ task'.id = None /\ task' \in Task
    <3>1. 0 \in Versions
      BY BoundsAssumption DEF Versions
    <3> QED BY <1>4, <3>1 DEF Idle, Task
  <2>3. TypeOK' /\ PageInv'
    BY <1>1, <1>4, <2>2, Parts DEF TypeOK, PageInv
  <2>4. TasksInv'
    BY <1>2, <1>4, <2>1, Parts, TasksDone
  <2>5. FlushInv'
    BY <2>2, <2>4, FlushNone
  <2>6. LocalSound
    BY <1>4, Parts, LocalStays
  <2> QED BY <1>4, <2>1, <2>2, <2>3, <2>4, <2>5, <2>6, Quiet
<1> QED BY <1>3, <1>4 DEF ResumeOpen

\* The tab dies with its transactions; what they were to write was never promised.
LEMMA DieKeeps == ASSUME SessionsInv, Die PROVE SessionsInv'
<1> USE DEF history
<1>1. /\ page' = "closed" /\ work' = NoWork /\ timer' = FALSE /\ task' = Idle /\ backups' = {} /\ queue' = <<>>
      /\ UNCHANGED <<stored, local, latest, copiedAlone, deletion>>
  BY DEF Die
<1>2. DOMAIN queue' = {} /\ queue' \in Seq(Entry)
  BY <1>1
<1>3. work' \in [id : Sessions \cup {None}, ver : Versions] /\ task' \in Task /\ work'.id = None
      /\ task'.kind = "none" /\ task'.id = None
  <2>1. 0 \in Versions
    BY BoundsAssumption DEF Versions
  <2> QED BY <1>1, <2>1 DEF Idle, Task, NoWork
<1>4. TypeOK'
  BY <1>1, <1>2, <1>3, Parts DEF TypeOK
<1>5. PageInv' /\ VersionsInv'
  BY <1>1, <1>3, Parts DEF PageInv, VersionsInv
<1>6. InOrder' /\ SavesInv' /\ DeletesInv' /\ FlushInv'
  BY <1>2, <1>3 DEF InOrder, SavesInv, DeletesInv, FlushInv
<1>7. TasksInv'
  BY <1>1, <1>2, <1>3 DEF TasksInv, NoTaskIsForgotten
<1>8. GoneInv'
  BY <1>1, <1>2, <1>3, NoneAssumption, Parts DEF GoneInv
<1> QED BY <1>4, <1>5, <1>6, <1>7, <1>8 DEF SessionsInv

\* scheduleSave: the version in memory is the newest again.
LEMMA EditKeeps == ASSUME SessionsInv, Edit PROVE SessionsInv'
<1> USE DEF diskVars
<1> DEFINE id == work.id
           v == latest[work.id] + 1
<1>1. /\ page \in {"chart", "sessions"} /\ work.id # None /\ work.ver < MaxVer /\ timer' = TRUE
      /\ UNCHANGED <<page, task, backups, queue, stored, local, copiedAlone, deletion>>
  BY DEF Edit
<1>2. id \in Sessions /\ work.ver = latest[id] /\ latest[id] \in Nat /\ work \in [id : Sessions \cup {None}, ver : Versions]
  BY <1>1, Parts, Types DEF VersionsInv, TypeOK
<1>3. work' = [work EXCEPT !.ver = v] /\ latest' = [latest EXCEPT ![id] = v]
  BY DEF Edit
<1>4. v \in Versions /\ v \in Nat /\ latest[id] < v
  BY <1>1, <1>2, BoundsAssumption DEF Versions
<1>5. work'.id = id /\ work'.ver = v /\ work' \in [id : Sessions \cup {None}, ver : Versions]
  BY <1>2, <1>3, <1>4
<1>6. latest' \in [Sessions -> Versions] /\ latest'[id] = v /\ \A s \in Sessions : s # id => latest'[s] = latest[s]
  BY <1>2, <1>3, <1>4, Parts, Types
<1>7. \A s \in Sessions : latest[s] <= latest'[s] /\ latest'[s] \in Nat /\ latest[s] \in Nat
  <2> TAKE s \in Sessions
  <2>1. latest[s] \in Nat
    BY Parts, Types
  <2>2. latest'[s] = latest[s] \/ (latest'[s] = v /\ s = id)
    BY <1>6
  <2> QED BY <1>4, <2>1, <2>2
<1>8. After(0, 0, Idle)
  BY <1>1, Parts, Stays
<1> HIDE DEF v
<1>9. TypeOK'
  BY <1>1, <1>5, <1>6, Parts DEF TypeOK
<1>10. PageInv'
  BY <1>1, Parts DEF PageInv
<1>11. VersionsInv'
  <2>1. \A s \in Sessions : stored[s] <= latest'[s] /\ local[s] <= latest'[s] /\ copiedAlone[s] <= latest'[s]
    <3> TAKE s \in Sessions
    <3>1. stored[s] <= latest[s] /\ local[s] <= latest[s] /\ copiedAlone[s] <= latest[s]
      BY Parts DEF VersionsInv
    <3>2. stored[s] \in Nat /\ local[s] \in Nat /\ copiedAlone[s] \in Nat
      BY Parts, Types
    <3> QED BY <1>7, <3>1, <3>2
  <2>2. \A s \in Sessions : deletion[s] # "no" => latest'[s] > 0
    <3> TAKE s \in Sessions
    <3>1. deletion[s] # "no" => latest[s] > 0
      BY Parts DEF VersionsInv
    <3> QED BY <1>7, <3>1
  <2>3. work'.ver = latest'[work'.id]
    BY <1>5, <1>6
  <2> QED BY <1>1, <2>1, <2>2, <2>3, Parts DEF VersionsInv
<1>12. InOrder'
  BY <1>8, Parts, OrderMoves
<1>13. SavesInv'
  <2>1. \A i \in DOMAIN queue : queue[i].op = "put" /\ deletion'[queue[i].id] = "no" =>
                                  copiedAlone'[queue[i].id] <= queue[i].ver
    BY <1>1, Parts DEF SavesInv, SaveSound
  <2> QED BY <1>1, <1>7, <1>8, <1>9, <2>1, Parts, SavesMove
<1>14. TasksInv'
  BY <1>1, <1>8, Parts, TasksKept
<1>15. FlushInv'
  BY <1>1, <1>14, Parts, FlushNone DEF PageInv
<1>16. DeletesInv'
  BY <1>1, <1>8, Parts, DeletesMove DEF DeletesInv
<1>17. GoneInv'
  <2>1. \A s \in Sessions : deletion'[s] = "done" =>
             /\ deletion[s] = "done" /\ local'[s] = 0 /\ work'.id # s
             /\ ~(task'.kind \in {"flush", "resume"} /\ task'.id = s)
    BY <1>1, <1>5, Parts DEF GoneInv
  <2> QED BY <1>1, <1>8, <2>1, Parts, GoneMoves
<1> QED BY <1>9, <1>10, <1>11, <1>12, <1>13, <1>14, <1>15, <1>16, <1>17 DEF SessionsInv

\* The copy on the way out is the newest version; it counts as kept alone only
\* with no older save under way, which would drop it when it returns.
LEMMA BackupKeeps ==
    ASSUME SessionsInv, Backup, UNCHANGED task,
           \/ page' = page /\ work' = work
           \/ page' = "closed" /\ work' = NoWork /\ task = Idle
    PROVE  SessionsInv'
<1> DEFINE id == work.id
           v == work.ver
<1>1. /\ page \in {"chart", "sessions"} /\ timer' = FALSE
      /\ queue' = IF id = None THEN queue ELSE Append(queue, Trans("put", id, v, "save"))
      /\ UNCHANGED <<stored, latest, deletion, backups>>
  BY DEF Backup, SaveSession
<1>2. UNCHANGED <<local, copiedAlone>> \/ (id # None /\ BackupSession)
  BY DEF Backup
<1>3. /\ task'.kind = "delete" => deletion[task'.id] # "no"
      /\ task'.kind \in {"flush", "resume"} /\ task'.id \in Sessions => deletion[task'.id] # "done"
      /\ task'.kind # "flush" /\ task'.kind # "boot" /\ (page' = "closed" => task' = Idle)
  BY <1>1, Parts DEF DeletesInv, GoneInv, PageInv
<1>4. PageInv'
  BY <1>1, <1>3, Parts DEF PageInv
<1>5. work' \in [id : Sessions \cup {None}, ver : Versions] /\ page' \in {"closed", "chart", "sessions"}
  <2>1. 0 \in Versions
    BY BoundsAssumption DEF Versions
  <2> QED BY <1>1, <2>1, Parts DEF NoWork, TypeOK
<1>6. CASE UNCHANGED <<local, copiedAlone>> /\ id = None
  <2>1. After(0, 0, Idle)
    BY <1>1, <1>6, Parts, Stays
  <2>2. TypeOK'
    BY <1>1, <1>5, <1>6, Parts DEF TypeOK
  <2>3. TasksInv'
    BY <2>1, Parts, TasksKept
  <2>4. FlushInv'
    BY <1>3, <2>3, FlushNone
  <2>5. LocalSound
    BY <1>6, Parts, LocalStays
  <2> QED BY <1>1, <1>3, <1>4, <1>6, <2>1, <2>2, <2>3, <2>4, <2>5, Quiet DEF history
<1>7. CASE id # None
  <2> DEFINE e == Trans("put", id, v, "save")
  <2>1. /\ e \in Entry /\ e.op = "put" /\ e.by = "save" /\ e.state = "queued" /\ e.id = id
        /\ After(0, 1, e) /\ MayPut(0, e)
    BY <1>1, <1>7, SaveStarts
  <2>2. id \in Sessions /\ v \in Versions /\ v \in Nat /\ v = latest[id] /\ deletion[id] # "done"
    BY <1>7, Parts, Types DEF VersionsInv, GoneInv
  <2>e. e.ver = v
    BY DEF Trans
  <2> HIDE DEF e, v
  <2>3. /\ local' \in [Sessions -> Versions] /\ copiedAlone' \in [Sessions -> Versions]
        /\ \A s \in Sessions : s # id => local'[s] = local[s] /\ copiedAlone'[s] = copiedAlone[s]
        /\ \/ local'[id] = local[id] /\ copiedAlone'[id] = copiedAlone[id]
           \/ local'[id] = v /\ copiedAlone'[id] = copiedAlone[id]
           \/ /\ local'[id] = v /\ copiedAlone'[id] = v
              /\ \A i \in DOMAIN queue : ~(queue[i].op = "put" /\ queue[i].id = id /\ queue[i].ver < v)
    <3>1. CASE UNCHANGED <<local, copiedAlone>>
      BY <3>1, Parts, Types
    <3>2. CASE BackupSession /\ ~UNCHANGED <<local, copiedAlone>>
      <4>1. local' = [local EXCEPT ![id] = v]
        BY <3>2 DEF BackupSession, v
      <4>2. \/ copiedAlone' = copiedAlone
            \/ /\ copiedAlone' = [copiedAlone EXCEPT ![id] = v]
               /\ \A i \in DOMAIN queue : ~(queue[i].op = "put" /\ queue[i].id = id /\ queue[i].ver < v)
        BY <3>2 DEF BackupSession, v
      <4>3. local' \in [Sessions -> Versions] /\ local'[id] = v /\ \A s \in Sessions : s # id => local'[s] = local[s]
        BY <2>2, <4>1, Parts, Types
      <4>4. CASE copiedAlone' = copiedAlone
        BY <4>3, <4>4, Parts, Types
      <4>5. CASE /\ copiedAlone' = [copiedAlone EXCEPT ![id] = v]
                 /\ \A i \in DOMAIN queue : ~(queue[i].op = "put" /\ queue[i].id = id /\ queue[i].ver < v)
        <5>1. copiedAlone' \in [Sessions -> Versions] /\ copiedAlone'[id] = v
              /\ \A s \in Sessions : s # id => copiedAlone'[s] = copiedAlone[s]
          BY <2>2, <4>5, Parts, Types
        <5> QED BY <4>3, <4>5, <5>1
      <4> QED BY <4>2, <4>4, <4>5
    <3> QED BY <1>2, <3>1, <3>2
  <2>4. TypeOK'
    <3>1. queue' \in Seq(Entry)
      BY <2>1 DEF After
    <3> QED BY <1>1, <1>5, <2>3, <3>1, Parts DEF TypeOK
  <2>5. VersionsInv'
    <3>1. ASSUME NEW s \in Sessions
          PROVE  /\ stored'[s] <= latest'[s] /\ local'[s] <= latest'[s] /\ copiedAlone'[s] <= latest'[s]
                 /\ deletion'[s] = "no" => copiedAlone'[s] <= stored'[s] \/ copiedAlone'[s] <= local'[s]
                 /\ deletion'[s] # "no" => latest'[s] > 0
      <4>1. /\ stored[s] <= latest[s] /\ local[s] <= latest[s] /\ copiedAlone[s] <= latest[s]
            /\ deletion[s] = "no" => copiedAlone[s] <= stored[s] \/ copiedAlone[s] <= local[s]
            /\ deletion[s] # "no" => latest[s] > 0
        BY Parts DEF VersionsInv
      <4>2. CASE s # id
        BY <1>1, <2>3, <4>1, <4>2
      <4>3. CASE s = id
        BY <1>1, <2>2, <2>3, <4>1, <4>3
      <4> QED BY <4>2, <4>3
    <3>2. work'.id # None => work'.ver = latest'[work'.id]
      BY <1>1, Parts DEF VersionsInv, NoWork
    <3> QED BY <3>1, <3>2 DEF VersionsInv
  <2>6. InOrder'
    BY <2>1, Parts, OrderMoves
  <2>7. SavesInv'
    <3>1. \A s \in Sessions : latest[s] <= latest'[s] /\ (deletion'[s] = "no" => deletion[s] = "no")
      BY <1>1, Parts, Types
    <3>2. ASSUME NEW i \in DOMAIN queue, queue[i].op = "put", deletion'[queue[i].id] = "no"
          PROVE  copiedAlone'[queue[i].id] <= queue[i].ver
      <4> DEFINE x == queue[i]
      <4>1. x \in Entry /\ x.op = "put" /\ SaveSound(x)
        BY <3>2, Parts, Types DEF SavesInv
      <4>2. x.id = id => copiedAlone'[id] = copiedAlone[id] \/ (copiedAlone'[id] = v /\ ~(x.ver < v))
        BY <2>3, <3>2
      <4>3. deletion[x.id] = "no"
        BY <1>1, <3>2
      <4> HIDE DEF x
      <4>4. x.id \in Sessions /\ x.ver \in Nat
        BY <4>1, EntryFacts
      <4>5. copiedAlone'[x.id] <= x.ver
        BY <2>2, <2>3, <4>1, <4>2, <4>3, <4>4 DEF SaveSound
      <4> QED BY <4>5 DEF x
    <3>3. /\ stored[id] <= v /\ v <= latest'[id]
          /\ \A i \in DOMAIN queue : i > 0 /\ queue[i].op = "put" /\ queue[i].id = id => queue[i].ver <= v
      BY <1>1, <2>1, <2>2, <2>e DEF MayPut
    <3>4. copiedAlone'[id] <= v
      <4>1. copiedAlone[id] <= latest[id]
        BY <2>2, Parts DEF VersionsInv
      <4> QED BY <2>2, <2>3, <4>1
    <3> QED BY <1>1, <2>1, <2>4, <2>e, <3>1, <3>2, <3>3, <3>4, Parts, SavesMove
  <2>8. TasksInv'
    BY <2>1, Parts, TasksKept
  <2>9. FlushInv'
    BY <1>3, <2>8, FlushNone
  <2>10. DeletesInv'
    BY <1>1, <1>3, <2>1, Parts, DeletesMove
  <2>11. GoneInv'
    <3> SUFFICES ASSUME NEW s \in Sessions, deletion'[s] = "done"
                 PROVE  /\ deletion[s] = "done" /\ local'[s] = 0 /\ work'.id # s
                        /\ ~(1 = 1 /\ e.op = "put" /\ e.id = s)
                        /\ ~(task'.kind \in {"flush", "resume"} /\ task'.id = s)
      BY <1>1, <2>1, Parts, GoneMoves
    <3>1. s # id /\ deletion[s] = "done" /\ local'[s] = 0
      BY <1>1, <2>2, <2>3, Parts DEF GoneInv
    <3>2. work'.id # s
      BY <3>1, NoneAssumption DEF NoWork
    <3> QED BY <1>3, <2>1, <3>1, <3>2
  <2> QED BY <1>4, <2>4, <2>5, <2>6, <2>7, <2>8, <2>9, <2>10, <2>11 DEF SessionsInv
<1> QED BY <1>2, <1>6, <1>7

\* The page is hidden.
LEMMA HideKeeps == ASSUME SessionsInv, Hide PROVE SessionsInv'
  BY BackupKeeps DEF Hide

\* The page is left.
LEMMA DisposeKeeps == ASSUME SessionsInv, Dispose PROVE SessionsInv'
  BY BackupKeeps DEF Dispose

\* deleteSession asks for the record first.
LEMMA DeleteKeeps == ASSUME SessionsInv, Delete PROVE SessionsInv'
<1>1. /\ page = "sessions" /\ task = Idle
      /\ UNCHANGED <<page, work, timer, backups, stored, local, latest, copiedAlone>>
  BY DEF Delete
<1>2. PICK s \in Sessions : /\ Present(s)
                            /\ queue' = Append(queue, Trans("get", s, 0, "delete"))
                            /\ task' = [kind |-> "delete", id |-> s, ver |-> 0]
                            /\ deletion' = [deletion EXCEPT ![s] = "asked"]
  BY DEF Delete
<1>0. 0 \in Versions
  BY BoundsAssumption DEF Versions
<1> DEFINE e == Trans("get", s, 0, "delete")
<1>3. e \in Entry /\ e.state = "queued" /\ e.by = "delete" /\ e.op = "get" /\ e.id = s
  BY <1>0, TransFacts
<1>4. queue' = Append(queue, e)
  BY <1>2
<1>5. task' \in Task /\ task'.kind = "delete" /\ task'.id = s /\ task'.ver = 0
  BY <1>0, <1>2 DEF Task
<1> HIDE DEF e
<1>6. After(0, 1, e)
  BY <1>3, <1>4, Parts, Appends
<1>7. /\ deletion' \in [Sessions -> {"no", "asked", "done"}] /\ deletion'[s] = "asked"
      /\ \A t \in Sessions : t # s => deletion'[t] = deletion[t]
  BY <1>2, Parts DEF TypeOK
<1>8. latest[s] > 0
  <2>1. stored[s] # 0 /\ stored[s] <= latest[s] /\ stored[s] \in Nat /\ latest[s] \in Nat
    BY <1>2, Parts, Types DEF VersionsInv, Present
  <2> QED BY <2>1
<1>9. TypeOK'
  <2>1. queue' \in Seq(Entry)
    BY <1>6 DEF After
  <2> QED BY <1>1, <1>5, <1>7, <2>1, Parts DEF TypeOK
<1>10. PageInv'
  BY <1>1, <1>5, Parts DEF PageInv
<1>11. VersionsInv'
  <2>1. ASSUME NEW t \in Sessions
        PROVE  /\ stored[t] <= latest[t] /\ local[t] <= latest[t] /\ copiedAlone[t] <= latest[t]
               /\ deletion'[t] = "no" => copiedAlone[t] <= stored[t] \/ copiedAlone[t] <= local[t]
               /\ deletion'[t] # "no" => latest[t] > 0
    BY <1>7, <1>8, Parts DEF VersionsInv
  <2> QED BY <1>1, <2>1, Parts DEF VersionsInv
<1>12. InOrder'
  BY <1>6, Parts, OrderMoves
<1>13. SavesInv'
  <2>1. \A t \in Sessions : latest[t] <= latest'[t] /\ (deletion'[t] = "no" => deletion[t] = "no")
    <3>1. TypeOK /\ \A t \in Sessions : latest[t] \in Nat
      BY Parts, Types
    <3>2. latest' = latest
      BY <1>1
    <3>3. ASSUME NEW t \in Sessions PROVE deletion'[t] = "no" => deletion[t] = "no"
      BY <1>7
    <3> QED BY <3>1, <3>2, <3>3
  <2>2. ASSUME NEW i \in DOMAIN queue, queue[i].op = "put", deletion'[queue[i].id] = "no"
        PROVE  copiedAlone'[queue[i].id] <= queue[i].ver
    <3>1. queue[i].id \in Sessions /\ SaveSound(queue[i])
      BY <2>2, Parts, Types, EntryFacts DEF SavesInv
    <3> QED BY <1>1, <2>1, <2>2, <3>1 DEF SaveSound
  <2> QED BY <1>1, <1>3, <1>6, <1>9, <2>1, <2>2, Parts, SavesMove
<1>14. TasksInv'
  <2>1. Clear(0)
    BY <1>1, Parts, ClearIdle
  <2> QED BY <1>3, <1>5, <1>6, <2>1, Parts, TasksNext DEF TaskOf
<1>15. FlushInv'
  BY <1>5, <1>14, FlushNone
<1>16. DeletesInv'
  BY <1>1, <1>3, <1>5, <1>6, <1>7, Parts, DeletesMove
<1>17. GoneInv'
  BY <1>1, <1>3, <1>5, <1>6, <1>7, Parts, GoneMoves DEF GoneInv
<1> QED BY <1>9, <1>10, <1>11, <1>12, <1>13, <1>14, <1>15, <1>16, <1>17 DEF SessionsInv

\* The record is removed: without a save behind it nothing of the session is left.
LEMMA DeleteRemovedKeeps == ASSUME SessionsInv, DeleteRemoved PROVE SessionsInv'
<1> DEFINE x == queue[1]
           id == task.id
           e == Trans("list", None, 0, "delete")
<1>1. /\ queue # <<>> /\ x.op = "delete" /\ x.by = "delete" /\ x.state # "queued" /\ local' = DroppedIfOk
      /\ UNCHANGED <<page, timer, backups, stored, latest, copiedAlone>>
  BY DEF DeleteRemoved, Due
<1>2. Clear(1) /\ TaskOf(task, x) /\ x \in Entry /\ 1 \in DOMAIN queue
  BY <1>1, Parts, ClearHead
<1>3. task.kind = "delete" /\ page \in {"chart", "sessions"} /\ x.id = id
  BY <1>1, <1>2, TaskOfHead DEF TaskOf
<1>4. id \in Sessions /\ deletion[id] # "no"
  BY <1>3, Parts DEF TasksInv, DeletesInv
<1>5. CASE ~Ok
  <2>1. queue' = Tail(queue) /\ task' = Idle /\ UNCHANGED <<work, deletion, local>>
    BY <1>1, <1>5 DEF DeleteRemoved, DroppedIfOk
  <2> QED BY <1>1, <1>3, <2>1, TaskEnds DEF history
<1>6. CASE Ok
  <2>1. /\ queue' = Append(Tail(queue), e) /\ UNCHANGED task
        /\ work' = IF work.id = id THEN NoWork ELSE work
        /\ local' = [local EXCEPT ![id] = 0]
    BY <1>1, <1>3, <1>6 DEF DeleteRemoved, List, DroppedIfOk
  <2>0. 0 \in Versions
    BY BoundsAssumption DEF Versions
  <2>2. e \in Entry /\ e.state = "queued" /\ e.by = "delete" /\ e.op = "list"
    BY <2>0, TransFacts
  <2> HIDE DEF e
  <2>3. After(1, 1, e)
    BY <1>1, <2>1, <2>2, Parts, PopsAppends
  <2>4. work' \in [id : Sessions \cup {None}, ver : Versions] /\ work' \in {work, NoWork} /\ work'.id # id
    BY <1>4, <2>0, <2>1, NoneAssumption, Parts DEF TypeOK, NoWork
  <2>5. /\ local' \in [Sessions -> Versions] /\ local'[id] = 0 /\ \A s \in Sessions : s # id => local'[s] = local[s]
    BY <1>4, <2>0, <2>1, Parts, Types
  <2>6. /\ deletion' \in [Sessions -> {"no", "asked", "done"}]
        /\ \A s \in Sessions : s # id => deletion'[s] = deletion[s]
        /\ deletion'[id] # "no"
        /\ \/ deletion'[id] = deletion[id]
           \/ \A i \in DOMAIN queue : ~(queue[i].op = "put" /\ queue[i].id = id)
    <3>1. deletion' = IF \E i \in DOMAIN queue : queue[i].op = "put" /\ queue[i].id = id
                      THEN deletion ELSE [deletion EXCEPT ![id] = "done"]
      BY <1>6 DEF DeleteRemoved
    <3>2. deletion \in [Sessions -> {"no", "asked", "done"}]
      BY Parts DEF TypeOK
    <3>3. CASE \E i \in DOMAIN queue : queue[i].op = "put" /\ queue[i].id = id
      BY <1>4, <3>1, <3>2, <3>3
    <3>4. CASE ~\E i \in DOMAIN queue : queue[i].op = "put" /\ queue[i].id = id
      BY <1>4, <3>1, <3>2, <3>4
    <3> QED BY <3>3, <3>4
  <2>7. deletion[id] # "done" /\ deletion'[id] = "done" => stored[id] = 0
    BY <1>1, <1>2, <1>3, <1>6, <2>6, Parts DEF DeletesInv, Ok
  <2> HIDE DEF id, x
  <2>8. TypeOK'
    <3>1. queue' \in Seq(Entry)
      BY <2>3 DEF After
    <3> QED BY <1>1, <2>1, <2>4, <2>5, <2>6, <3>1, Parts DEF TypeOK
  <2>9. PageInv'
    BY <1>1, <1>3, <2>1, Parts DEF PageInv
  <2>10. VersionsInv'
    <3>1. ASSUME NEW s \in Sessions
          PROVE  /\ stored[s] <= latest[s] /\ local'[s] <= latest[s] /\ copiedAlone[s] <= latest[s]
                 /\ deletion'[s] = "no" => copiedAlone[s] <= stored[s] \/ copiedAlone[s] <= local'[s]
                 /\ deletion'[s] # "no" => latest[s] > 0
      <4>1. latest[s] \in Nat
        BY Parts, Types
      <4>2. CASE s = id
        BY <1>4, <2>5, <2>6, <4>1, <4>2, Parts DEF VersionsInv
      <4>3. CASE s # id
        BY <2>5, <2>6, <4>3, Parts DEF VersionsInv
      <4> QED BY <4>2, <4>3
    <3>2. work'.id # None => work'.ver = latest[work'.id]
      BY <2>4, Parts DEF VersionsInv, NoWork
    <3> QED BY <1>1, <3>1, <3>2 DEF VersionsInv
  <2>11. InOrder'
    BY <2>3, Parts, OrderMoves
  <2>12. SavesInv'
    <3>1. \A s \in Sessions : latest[s] <= latest'[s] /\ (deletion'[s] = "no" => deletion[s] = "no")
      <4>1. \A s \in Sessions : latest[s] \in Nat
        BY Parts, Types
      <4>2. latest' = latest
        BY <1>1
      <4>3. ASSUME NEW s \in Sessions PROVE deletion'[s] = "no" => deletion[s] = "no"
        BY <2>6
      <4> QED BY <4>1, <4>2, <4>3
    <3>2. ASSUME NEW i \in DOMAIN queue, queue[i].op = "put", deletion'[queue[i].id] = "no"
          PROVE  copiedAlone'[queue[i].id] <= queue[i].ver
      <4>1. queue[i].id \in Sessions /\ SaveSound(queue[i])
        BY <3>2, Parts, Types, EntryFacts DEF SavesInv
      <4> QED BY <1>1, <3>1, <3>2, <4>1 DEF SaveSound
    <3> QED BY <1>1, <2>2, <2>3, <2>8, <3>1, <3>2, Parts, SavesMove
  <2>13. TasksInv'
    <3>1. TaskOf(task', e)
      BY <1>3, <2>1, <2>2 DEF TaskOf
    <3>2. task'.kind = "delete" /\ task'.id \in Sessions
      BY <1>3, <1>4, <2>1 DEF id
    <3> QED BY <1>2, <2>2, <2>3, <3>1, <3>2, Parts, TasksNext
  <2>14. FlushInv'
    BY <1>3, <2>1, <2>13, FlushNone
  <2>15. DeletesInv'
    <3>1. \A s \in Sessions : deletion'[s] = "no" => deletion[s] = "no"
      BY <2>6
    <3>2. task'.kind = "delete" => deletion'[task'.id] # "no"
      BY <2>1, <2>6 DEF id
    <3> QED BY <1>1, <2>2, <2>3, <3>1, <3>2, Parts, DeletesMove
  <2>16. GoneInv'
    <3> SUFFICES ASSUME NEW s \in Sessions, deletion'[s] = "done"
                 PROVE  /\ stored'[s] = 0 /\ local'[s] = 0 /\ work'.id # s
                        /\ \A i \in DOMAIN queue' : ~(queue'[i].op = "put" /\ queue'[i].id = s)
                        /\ ~(task'.kind \in {"flush", "resume"} /\ task'.id = s)
      BY DEF GoneInv
    <3>1. stored[s] = 0 /\ local'[s] = 0
      <4>1. CASE s = id
        BY <2>5, <2>7, <4>1, Parts DEF GoneInv
      <4>2. CASE s # id
        BY <2>5, <2>6, <4>2, Parts DEF GoneInv
      <4> QED BY <4>1, <4>2
    <3>2. work'.id # s
      <4>1. s # id => work.id # s
        BY <2>6, Parts DEF GoneInv
      <4>2. s # None
        BY NoneAssumption
      <4> QED BY <2>4, <4>1, <4>2 DEF NoWork
    <3>3. \A i \in DOMAIN queue : ~(queue[i].op = "put" /\ queue[i].id = s)
      <4>1. CASE deletion[s] = "done"
        BY <4>1, Parts DEF GoneInv
      <4>2. CASE deletion[s] # "done"
        BY <2>6, <4>2
      <4> QED BY <4>1, <4>2
    <3>4. \A i \in DOMAIN queue' : ~(queue'[i].op = "put" /\ queue'[i].id = s)
      BY <2>2, <2>3, <3>3, Origin
    <3> QED BY <1>1, <1>3, <2>1, <3>1, <3>2, <3>4
  <2> QED BY <2>8, <2>9, <2>10, <2>11, <2>12, <2>13, <2>14, <2>15, <2>16 DEF SessionsInv
<1> QED BY <1>5, <1>6

-----------------------------------------------------------------------------
(* IndexedDB.                                                              *)

\* The transaction that commits is the first one that waits.
LEMMA FirstWaiting ==
    ASSUME TypeOK, Waiting # {}, NEW i, i = CHOOSE k \in Waiting : \A m \in Waiting : k <= m
    PROVE  i \in Waiting /\ \A m \in Waiting : i <= m
<1>1. Waiting \subseteq Nat
  BY Types DEF Waiting
<1>2. PICK x \in Waiting : \A y \in Waiting : ~(<<y, x>> \in OpToRel(<, Nat))
  <2>1. IsWellFoundedOn(OpToRel(<, Nat), Nat)
    BY NatLessThanWellFounded
  <2> QED BY <1>1, <2>1, WFMin
<1>3. \A y \in Waiting : x <= y
  <2> TAKE y \in Waiting
  <2>1. y \in Nat /\ x \in Nat
    BY <1>1
  <2>2. ~(y < x)
    BY <1>2, <2>1 DEF OpToRel
  <2> QED BY <2>1, <2>2
<1> QED BY <1>3

\* What a commit, or a failure, of the first waiting transaction does.
Committed(i, t) ==
    /\ i \in DOMAIN queue /\ queue[i] = t /\ t \in Entry /\ t.state = "queued"
    /\ \A m \in DOMAIN queue : queue[m].state = "queued" => i <= m
    /\ queue' \in Seq(Entry) /\ Len(queue') = Len(queue) /\ DOMAIN queue' = DOMAIN queue
    /\ \A k \in DOMAIN queue : k # i => queue'[k] = queue[k]
    /\ queue'[i].op = t.op /\ queue'[i].id = t.id /\ queue'[i].by = t.by
    /\ queue'[i].state \in {"ok", "failed"}
    /\ queue'[i].ver = IF t.op = "get" /\ queue'[i].state = "ok" THEN stored[t.id] ELSE t.ver
    /\ stored' \in [Sessions -> Versions]
    /\ \A s \in Sessions : s # t.id => stored'[s] = stored[s]
    /\ queue'[i].state = "failed" \/ t.op \in {"get", "list"} => stored' = stored
    /\ queue'[i].state = "ok" /\ t.op = "put" => stored'[t.id] = t.ver
    /\ queue'[i].state = "ok" /\ t.op = "delete" => stored'[t.id] = 0

\* A commit, or a failure, is one of the first waiting transaction.
LEMMA CommitFacts ==
    ASSUME TypeOK, Commit
    PROVE  \E i, t : Committed(i, t) /\ UNCHANGED <<pageVars, local, history>>
<1> DEFINE i == CHOOSE k \in Waiting : \A m \in Waiting : k <= m
           t == queue[i]
<1>1. i \in Waiting /\ \A m \in Waiting : i <= m
  BY FirstWaiting DEF Commit
<1>2. i \in DOMAIN queue /\ t.state = "queued" /\ \A m \in DOMAIN queue : queue[m].state = "queued" => i <= m
  BY <1>1 DEF Waiting
<1>3. t \in Entry /\ i \in 1..Len(queue) /\ queue \in Seq(Entry) /\ DOMAIN queue = 1..Len(queue)
  BY <1>2, Types
<1>4. /\ \/ /\ queue' = [queue EXCEPT ![i].state = "ok", ![i].ver = IF t.op = "get" THEN stored[t.id] ELSE @]
            /\ stored' = CASE t.op = "put" -> [stored EXCEPT ![t.id] = t.ver]
                           [] t.op = "delete" -> [stored EXCEPT ![t.id] = 0]
                           [] OTHER -> stored
         \/ queue' = [queue EXCEPT ![i].state = "failed"] /\ UNCHANGED stored
      /\ UNCHANGED <<pageVars, local, history>>
  BY DEF Commit
<1> HIDE DEF i
<1>5. ASSUME NEW u \in Entry, queue' = [queue EXCEPT ![i] = u]
      PROVE  /\ queue' \in Seq(Entry) /\ Len(queue') = Len(queue) /\ DOMAIN queue' = DOMAIN queue
             /\ queue'[i] = u /\ \A k \in DOMAIN queue : k # i => queue'[k] = queue[k]
  BY <1>3, <1>5, ExceptSeq
<1>6. CASE queue' = [queue EXCEPT ![i].state = "failed"] /\ UNCHANGED stored
  <2> DEFINE u == [t EXCEPT !.state = "failed"]
  <2>1. u \in Entry /\ u.op = t.op /\ u.id = t.id /\ u.by = t.by /\ u.ver = t.ver /\ u.state = "failed"
    BY <1>3 DEF Entry, Transactions
  <2>2. queue' = [queue EXCEPT ![i] = u]
    BY <1>6
  <2> HIDE DEF u
  <2>3. stored' \in [Sessions -> Versions]
    BY <1>6, Types
  <2>4. /\ queue' \in Seq(Entry) /\ Len(queue') = Len(queue) /\ DOMAIN queue' = DOMAIN queue
        /\ queue'[i] = u /\ \A k \in DOMAIN queue : k # i => queue'[k] = queue[k]
    BY <1>5, <2>1, <2>2
  <2>5. Committed(i, t)
    BY <1>2, <1>3, <1>6, <2>1, <2>3, <2>4 DEF Committed
  <2> QED BY <1>4, <2>5
<1>7. CASE /\ queue' = [queue EXCEPT ![i].state = "ok", ![i].ver = IF t.op = "get" THEN stored[t.id] ELSE @]
           /\ stored' = CASE t.op = "put" -> [stored EXCEPT ![t.id] = t.ver]
                          [] t.op = "delete" -> [stored EXCEPT ![t.id] = 0]
                          [] OTHER -> stored
  <2> DEFINE w == IF t.op = "get" THEN stored[t.id] ELSE t.ver
             u == [t EXCEPT !.state = "ok", !.ver = w]
  <2>1. t.op # "list" => t.id \in Sessions
    BY <1>3, EntryFacts
  <2>0. w \in Versions /\ t.ver \in Versions /\ 0 \in Versions
    <3>1. t.ver \in Versions
      BY <1>3, EntryFacts
    <3>2. 0 \in Versions
      BY BoundsAssumption DEF Versions
    <3> QED BY <2>1, <3>1, <3>2, Types
  <2>2. queue' = [queue EXCEPT ![i] = u]
    BY <1>3, <1>7
  <2> HIDE DEF w
  <2>3. u \in Entry /\ u.op = t.op /\ u.id = t.id /\ u.by = t.by /\ u.ver = w /\ u.state = "ok"
    BY <1>3, <2>0 DEF Entry, Transactions
  <2> HIDE DEF u, t
  <2>4. /\ queue' \in Seq(Entry) /\ Len(queue') = Len(queue) /\ DOMAIN queue' = DOMAIN queue
        /\ queue'[i] = u /\ \A k \in DOMAIN queue : k # i => queue'[k] = queue[k]
    BY <1>5, <2>2, <2>3
  <2>5. /\ stored' \in [Sessions -> Versions]
        /\ \A s \in Sessions : s # t.id => stored'[s] = stored[s]
        /\ t.op \in {"get", "list"} => stored' = stored
        /\ t.op = "put" => stored'[t.id] = t.ver
        /\ t.op = "delete" => stored'[t.id] = 0
    <3>1. stored \in [Sessions -> Versions]
      BY Types
    <3>2. CASE t.op = "put"
      BY <1>7, <2>0, <2>1, <3>1, <3>2
    <3>3. CASE t.op = "delete"
      BY <1>7, <2>0, <2>1, <3>1, <3>3
    <3>4. CASE t.op \in {"get", "list"}
      BY <1>7, <3>1, <3>4
    <3>5. t.op \in {"put", "delete", "get", "list"}
      BY <1>3, EntryFacts
    <3> QED BY <3>2, <3>3, <3>4, <3>5
  <2>6. queue[i] = t
    BY DEF t
  <2>7. t \in Entry /\ t.state = "queued"
    BY <1>2, <1>3
  <2>8. Committed(i, t)
    BY <1>2, <2>3, <2>4, <2>5, <2>6, <2>7 DEF Committed, w
  <2> QED BY <1>4, <2>8
<1> QED BY <1>4, <1>6, <1>7

\* A commit keeps the invariant: saves are in their order, and what waits is behind what is through.
LEMMA CommitKeeps == ASSUME SessionsInv, Commit PROVE SessionsInv'
<1>1. PICK i, t : Committed(i, t) /\ UNCHANGED <<pageVars, local, history>>
  BY Parts, CommitFacts
<1>u. UNCHANGED <<page, work, timer, task, backups, local, latest, copiedAlone, deletion>>
  BY <1>1 DEF pageVars, history
<1>2. /\ i \in DOMAIN queue /\ queue[i] = t /\ t \in Entry /\ t.state = "queued"
      /\ \A m \in DOMAIN queue : queue[m].state = "queued" => i <= m
      /\ DOMAIN queue' = DOMAIN queue /\ DOMAIN queue = 1..Len(queue) /\ Len(queue') = Len(queue) /\ Len(queue) \in Nat
  BY <1>1, Parts, Types DEF Committed
<1>3. \A k \in DOMAIN queue : /\ queue[k] \in Entry /\ queue'[k] \in Entry
                              /\ k # i => queue'[k] = queue[k]
                              /\ queue'[k].op = queue[k].op /\ queue'[k].id = queue[k].id /\ queue'[k].by = queue[k].by
                              /\ queue[k].op # "get" => queue'[k].ver = queue[k].ver
  <2> TAKE k \in DOMAIN queue
  <2>1. queue[k] \in Entry /\ queue'[k] \in Entry
    <3>1. queue' \in Seq(Entry)
      BY <1>1 DEF Committed
    <3> QED BY <1>2, <3>1, Parts, Types, ElementOfSeq
  <2> QED BY <1>1, <2>1 DEF Committed
\* The first ones are through, and everything behind i waits.
<1>4. \A k \in DOMAIN queue : /\ queue'[k].state = "queued" <=> i < k
                              /\ queue'[k].state = "queued" => queue[k].state = "queued" /\ k # i
                              /\ queue'[k].state # "queued" => k = i \/ (k < i /\ queue'[k] = queue[k])
  <2> TAKE k \in DOMAIN queue
  <2>1. k \in Nat /\ i \in Nat
    BY <1>2
  <2>2. CASE k = i
    BY <1>1, <2>1, <2>2 DEF Committed
  <2>3. CASE k < i
    BY <1>2, <1>3, <2>1, <2>3
  <2>4. CASE i < k
    BY <1>2, <1>3, <2>1, <2>4, Parts DEF InOrder
  <2> QED BY <2>1, <2>2, <2>3, <2>4
<1>5. /\ stored' \in [Sessions -> Versions]
      /\ \A s \in Sessions : s # t.id => stored'[s] = stored[s]
      /\ queue'[i].state = "failed" \/ t.op \in {"get", "list"} => stored' = stored
      /\ queue'[i].state = "ok" /\ t.op = "put" => stored'[t.id] = t.ver
      /\ queue'[i].state = "ok" /\ t.op = "delete" => stored'[t.id] = 0
      /\ queue'[i].state \in {"ok", "failed"}
      /\ t.op = "get" /\ queue'[i].state = "ok" => queue'[i].ver = stored[t.id]
  BY <1>1 DEF Committed
<1>6. t.op \in {"put", "delete", "get", "list"} /\ (t.op # "list" => t.id \in Sessions) /\ t.ver \in Nat
  BY <1>2, EntryFacts
<1>7. t.op = "put" => SaveSound(t)
  BY <1>2, Parts DEF SavesInv
<1>8. t.op = "delete" => deletion[t.id] # "no"
  BY <1>2, Parts DEF DeletesInv
<1>9. TypeOK'
  <2>1. queue' \in Seq(Entry)
    BY <1>1 DEF Committed
  <2> QED BY <1>u, <1>5, <2>1, Parts DEF TypeOK
<1>10. PageInv'
  BY <1>u, Parts DEF PageInv
\* What a session is stored at changes in two ways only.
<1>11. \A s \in Sessions :
         \/ stored'[s] = stored[s]
         \/ s = t.id /\ t.op = "put" /\ stored'[s] = t.ver /\ queue'[i].state = "ok"
         \/ s = t.id /\ t.op = "delete" /\ stored'[s] = 0 /\ deletion[s] # "no" /\ queue'[i].state = "ok"
  BY <1>5, <1>6, <1>8
<1>12. VersionsInv'
  <2>1. ASSUME NEW s \in Sessions
        PROVE  /\ stored'[s] <= latest[s] /\ local[s] <= latest[s] /\ copiedAlone[s] <= latest[s]
               /\ deletion[s] = "no" => copiedAlone[s] <= stored'[s] \/ copiedAlone[s] <= local[s]
               /\ deletion[s] # "no" => latest[s] > 0
    <3>1. /\ stored[s] <= latest[s] /\ local[s] <= latest[s] /\ copiedAlone[s] <= latest[s]
          /\ deletion[s] = "no" => copiedAlone[s] <= stored[s] \/ copiedAlone[s] <= local[s]
          /\ deletion[s] # "no" => latest[s] > 0
      BY Parts DEF VersionsInv
    <3>2. CASE stored'[s] = stored[s]
      BY <3>1, <3>2
    <3>3. CASE s = t.id /\ t.op = "put" /\ stored'[s] = t.ver
      BY <1>7, <3>1, <3>3 DEF SaveSound
    <3>4. CASE s = t.id /\ t.op = "delete" /\ stored'[s] = 0 /\ deletion[s] # "no"
      <4>1. latest[s] \in Nat
        BY Parts, Types
      <4> QED BY <3>1, <3>4, <4>1
    <3> QED BY <1>11, <3>2, <3>3, <3>4
  <2> QED BY <1>u, <2>1, Parts DEF VersionsInv
<1>13. InOrder'
  <2> SUFFICES ASSUME NEW k \in DOMAIN queue, NEW j \in DOMAIN queue, k < j, queue'[k].state = "queued"
               PROVE  queue'[j].state = "queued"
    BY <1>2 DEF InOrder
  <2>1. i < k /\ i \in Nat /\ k \in Nat /\ j \in Nat
    BY <1>2, <1>4
  <2> QED BY <1>4, <2>1
<1>14. SavesInv'
  <2> SUFFICES ASSUME NEW k \in DOMAIN queue, queue'[k].op = "put"
               PROVE  /\ SaveSound(queue[k])'
                      /\ \A j \in DOMAIN queue : k < j /\ queue'[j].op = "put" /\ queue'[j].id = queue'[k].id =>
                                                   queue'[k].ver <= queue'[j].ver
    BY <1>2 DEF SavesInv
  <2> DEFINE x == queue[k]
             y == queue'[k]
  <2>1. /\ x \in Entry /\ x.op = "put" /\ y.id = x.id /\ y.ver = x.ver /\ SaveSound(x)
        /\ y.state \in {"queued", "ok", "failed"}
    <3>1. x \in Entry /\ y \in Entry /\ x.op = "put" /\ y.id = x.id /\ y.ver = x.ver
      BY <1>3
    <3>2. SaveSound(x)
      BY <3>1, Parts DEF SavesInv
    <3>3. y.state \in {"queued", "ok", "failed"}
      BY <3>1, EntryFacts
    <3> QED BY <3>1, <3>2, <3>3
  <2>2. x.id \in Sessions /\ x.ver \in Nat
    BY <2>1, EntryFacts
  <2>3. y.state = "queued" => x.state = "queued" /\ i < k
    BY <1>4
  <2>4. y.state # "queued" => k = i \/ (k < i /\ y = x)
    BY <1>4
  \* The save that commits, if it is one of the same session, comes in their order.
  <2>5. t.op = "put" /\ t.id = x.id => (i < k => t.ver <= x.ver) /\ (k < i => x.ver <= t.ver)
    BY <1>2, <2>1, Parts DEF SavesInv
  <2>6. k = i => x = t
    BY <1>2
  <2>7. y.state = "queued" => stored'[x.id] <= x.ver
    <3> HIDE DEF x, y
    <3> SUFFICES ASSUME y.state = "queued" PROVE stored'[x.id] <= x.ver
      OBVIOUS
    <3>1. CASE stored'[x.id] = stored[x.id]
      BY <2>1, <2>3, <3>1 DEF SaveSound
    <3>2. CASE x.id = t.id /\ t.op = "put" /\ stored'[x.id] = t.ver
      BY <2>3, <2>5, <3>2
    <3>3. CASE stored'[x.id] = 0
      BY <2>2, <3>3
    <3> QED BY <1>11, <2>2, <3>1, <3>2, <3>3
  <2>8. deletion[x.id] = "no" /\ y.state = "ok" => x.ver <= stored'[x.id]
    <3> HIDE DEF x, y
    <3> SUFFICES ASSUME deletion[x.id] = "no", y.state = "ok" PROVE x.ver <= stored'[x.id]
      OBVIOUS
    <3>1. CASE k = i
      <4>1. stored'[x.id] = x.ver
        BY <1>5, <2>1, <2>6, <3>1 DEF y
      <4> QED BY <2>2, <4>1
    <3>2. CASE k < i /\ y = x
      <4>1. CASE stored'[x.id] = stored[x.id]
        BY <2>1, <3>2, <4>1 DEF SaveSound
      <4>2. CASE x.id = t.id /\ t.op = "put" /\ stored'[x.id] = t.ver
        BY <2>5, <3>2, <4>2
      <4> QED BY <1>11, <2>2, <4>1, <4>2
    <3> QED BY <2>4, <3>1, <3>2
  <2>9. SaveSound(queue[k])'
    <3>1. x.ver <= latest[x.id] /\ (deletion[x.id] = "no" => copiedAlone[x.id] <= x.ver)
      BY <2>1 DEF SaveSound
    <3> QED BY <1>u, <2>1, <2>7, <2>8, <3>1 DEF SaveSound
  <2>10. \A j \in DOMAIN queue : k < j /\ queue'[j].op = "put" /\ queue'[j].id = queue'[k].id =>
                                   queue'[k].ver <= queue'[j].ver
    <3> TAKE j \in DOMAIN queue
    <3>1. queue'[j].op = queue[j].op /\ queue'[j].id = queue[j].id /\ (queue[j].op = "put" => queue'[j].ver = queue[j].ver)
      BY <1>3
    <3> QED BY <2>1, <3>1, Parts DEF SavesInv
  <2> QED BY <2>9, <2>10
<1>15. TasksInv'
  <2>1. \A k \in DOMAIN queue' : IF queue'[k].by = "save" THEN queue'[k].op = "put" ELSE TaskOf(task', queue'[k])
    BY <1>u, <1>2, <1>3, Parts DEF TasksInv, TaskOf
  <2>2. \A k, j \in DOMAIN queue' : queue'[k].by # "save" /\ queue'[j].by # "save" => k = j
    BY <1>2, <1>3, Parts DEF TasksInv
  <2>3. NoTaskIsForgotten'
    BY <1>u, <1>2, <1>3, Parts DEF TasksInv, NoTaskIsForgotten
  <2> QED BY <1>u, <2>1, <2>2, <2>3, Parts DEF TasksInv
<1>16. FlushInv'
  <2>1. ASSUME NEW k \in DOMAIN queue, queue'[k].by = "flush"
        PROVE  /\ k = Len(queue')
               /\ queue'[k].op = "get" /\ queue'[k].state = "ok" => queue'[k].ver = stored'[queue'[k].id]
    <3>1. k = Len(queue')
      BY <1>2, <1>3, <2>1, Parts DEF FlushInv
    <3>2. CASE k = i
      BY <1>2, <1>3, <1>5, <3>1, <3>2
    <3>3. CASE k # i
      <4>1. i < k
        BY <1>2, <3>1, <3>3
      <4> QED BY <1>4, <3>1, <4>1
    <3> QED BY <3>2, <3>3
  <2> QED BY <1>u, <1>2, <2>1, Parts DEF FlushInv
<1>17. DeletesInv'
  <2>1. ASSUME NEW k \in DOMAIN queue, queue'[k].op = "delete"
        PROVE  /\ deletion'[queue'[k].id] # "no"
               /\ queue'[k].state = "ok" =>
                    \/ stored'[queue'[k].id] = 0
                    \/ \E j \in DOMAIN queue : k < j /\ queue'[j].op = "put" /\ queue'[j].id = queue'[k].id
    <3>1. queue[k].op = "delete" /\ queue'[k].id = queue[k].id /\ queue[k].id \in Sessions
      BY <1>3, <2>1, EntryFacts
    <3>2. deletion[queue[k].id] # "no"
      BY <3>1, Parts DEF DeletesInv
    <3>3. CASE k = i /\ queue'[k].state = "ok"
      BY <1>u, <1>2, <1>5, <3>1, <3>2, <3>3
    <3>4. CASE k < i /\ queue'[k] = queue[k] /\ queue'[k].state = "ok"
      <4>1. CASE \E j \in DOMAIN queue : k < j /\ queue[j].op = "put" /\ queue[j].id = queue[k].id
        BY <1>u, <1>3, <3>1, <3>2, <4>1
      <4>2. CASE stored[queue[k].id] = 0
        BY <1>u, <1>2, <1>3, <1>11, <3>1, <3>2, <3>4, <4>2
      <4> QED BY <3>1, <3>4, <4>1, <4>2, Parts DEF DeletesInv
    <3>5. CASE queue'[k].state # "ok"
      BY <1>u, <3>1, <3>2, <3>5
    <3> QED BY <1>4, <3>3, <3>4, <3>5
  <2> QED BY <1>u, <1>2, <2>1, Parts DEF DeletesInv
<1>18. GoneInv'
  <2> SUFFICES ASSUME NEW s \in Sessions, deletion[s] = "done"
               PROVE  stored'[s] = 0 /\ \A k \in DOMAIN queue : ~(queue'[k].op = "put" /\ queue'[k].id = s)
    BY <1>u, <1>2, Parts DEF GoneInv
  <2>1. stored[s] = 0 /\ \A k \in DOMAIN queue : ~(queue[k].op = "put" /\ queue[k].id = s)
    BY Parts DEF GoneInv
  <2> QED BY <1>2, <1>3, <1>11, <2>1
<1> QED BY <1>9, <1>10, <1>12, <1>13, <1>14, <1>15, <1>16, <1>17, <1>18 DEF SessionsInv

-----------------------------------------------------------------------------
(* The invariant.                                                          *)

\* The empty browser satisfies the invariant.
LEMMA InitSessions == ASSUME Init PROVE SessionsInv
<1> USE DEF Init
<1>0. 0 \in Versions
  BY BoundsAssumption DEF Versions
<1>1. DOMAIN queue = {} /\ queue \in Seq(Entry)
  OBVIOUS
<1>2. task = Idle /\ task.kind = "none" /\ task.id = None /\ task \in Task /\ work.id = None
      /\ work \in [id : Sessions \cup {None}, ver : Versions]
  BY <1>0 DEF Idle, Task, NoWork
<1>3. \A s \in Sessions : stored[s] = 0 /\ local[s] = 0 /\ latest[s] = 0 /\ copiedAlone[s] = 0 /\ deletion[s] = "no"
  BY DEF Nowhere
<1>4. {stored, local, latest, copiedAlone} \subseteq [Sessions -> Versions]
      /\ deletion \in [Sessions -> {"no", "asked", "done"}]
  BY <1>0 DEF Nowhere
<1>5. TypeOK
  BY <1>1, <1>2, <1>4 DEF TypeOK
<1>6. PageInv /\ VersionsInv
  BY <1>2, <1>3 DEF PageInv, VersionsInv
<1>7. InOrder /\ SavesInv /\ FlushInv /\ DeletesInv
  BY <1>1, <1>2 DEF InOrder, SavesInv, FlushInv, DeletesInv
<1>8. TasksInv
  BY <1>1, <1>2 DEF TasksInv, NoTaskIsForgotten
<1>9. GoneInv
  BY <1>3 DEF GoneInv
<1> QED BY <1>5, <1>6, <1>7, <1>8, <1>9 DEF SessionsInv

\* Every step keeps the invariant.
LEMMA NextSessions == ASSUME SessionsInv, [Next]_vars PROVE SessionsInv'
<1>1. CASE UNCHANGED vars
  <2>1. UNCHANGED <<page, work, timer, task, backups, queue, stored, local, latest, copiedAlone, deletion>>
    BY <1>1 DEF vars, pageVars, diskVars, history
  <2>2. TypeOK' /\ PageInv' /\ VersionsInv' /\ InOrder' /\ SavesInv'
    BY <2>1, Parts DEF TypeOK, PageInv, VersionsInv, InOrder, SavesInv, SaveSound
  <2>3. TasksInv'
    BY <2>1, Parts DEF TasksInv, NoTaskIsForgotten
  <2>4. FlushInv' /\ DeletesInv' /\ GoneInv'
    BY <2>1, Parts DEF FlushInv, DeletesInv, GoneInv
  <2> QED BY <2>2, <2>3, <2>4 DEF SessionsInv
<1>2. CASE Commit
  BY <1>2, CommitKeeps
<1>3. CASE Boot
  BY <1>3, FlushGetKeeps, FlushCompareKeeps, FlushReturnsKeeps, BootListKeeps, BootOpenKeeps DEF Boot
<1>4. CASE Callback
  BY <1>4, SaveReturnsKeeps, ShowSavedKeeps, ShowListKeeps, NewSavedKeeps, ResumeGotKeeps, ResumeOpenKeeps,
     DeleteGotKeeps, DeleteRemovedKeeps, DeleteListedKeeps DEF Callback
<1>5. CASE SaveTimer
  BY <1>5, SaveTimerKeeps
<1>6. CASE User
  BY <1>6, StartKeeps, EditKeeps, HideKeeps, DisposeKeeps, DieKeeps, ShowSessionsKeeps, BackToChartKeeps,
     NewSessionKeeps, ResumeKeeps, DeleteKeeps DEF User
<1> QED BY <1>1, <1>2, <1>3, <1>4, <1>5, <1>6 DEF Next

\* In every reachable state each place a session lives in (memory, IndexedDB,
\* its copy, a save under way) holds what the others allow it to hold.
THEOREM SessionsInvariant == Spec => []SessionsInv
<1>1. Init => SessionsInv
  BY InitSessions
<1>2. SessionsInv /\ [Next]_vars => SessionsInv'
  BY NextSessions
<1> QED BY <1>1, <1>2, PTL DEF Spec

\* The types of the page, of its transactions and of what is stored.
THEOREM SessionsTyped == Spec => []TypeOK
<1>1. SessionsInv => TypeOK
  BY Parts
<1> QED BY <1>1, SessionsInvariant, PTL

\* What backupSession copied on the way out is in IndexedDB or in localStorage
\* ever after, whatever fails, dies or returns late.
THEOREM WorkIsKept == Spec => []CopyAloneKeepsWork
<1>1. SessionsInv => CopyAloneKeepsWork
  <2> SUFFICES ASSUME SessionsInv, NEW s \in Sessions, deletion[s] = "no" PROVE Kept(s) >= copiedAlone[s]
    BY DEF CopyAloneKeepsWork
  <2>1. copiedAlone[s] <= stored[s] \/ copiedAlone[s] <= local[s]
    BY Parts DEF VersionsInv
  <2>2. stored[s] \in Nat /\ local[s] \in Nat /\ copiedAlone[s] \in Nat
    BY Parts, Types
  <2> QED BY <2>1, <2>2 DEF Kept
<1> QED BY <1>1, SessionsInvariant, PTL

\* deleteSession is final: no save under way, and no copy of an earlier page,
\* brings the session back.
THEOREM DeletionIsFinal == Spec => []DeletedStaysDeleted
<1>1. SessionsInv => DeletedStaysDeleted
  BY Parts DEF DeletedStaysDeleted, GoneInv, Kept
<1> QED BY <1>1, SessionsInvariant, PTL

\* The boot, and every other task of the page, is never left without a
\* callback on its way or a step of its own to take.
THEOREM EveryTaskGoesOn == Spec => []NoTaskIsForgotten
<1>1. SessionsInv => NoTaskIsForgotten
  BY Parts DEF TasksInv
<1> QED BY <1>1, SessionsInvariant, PTL

\* Only a commit writes, and it writes an older version over a newer one never.
LEMMA StoredMoves ==
    ASSUME SessionsInv, [Next]_vars, NEW s \in Sessions, stored'[s] < stored[s]
    PROVE  stored'[s] = 0
<1>1. stored[s] \in Nat
  BY Parts, Types
<1>2. CASE Commit
  <2>1. PICK i, t : Committed(i, t)
    BY <1>2, Parts, CommitFacts
  <2>2. t.op \in {"put", "delete", "get", "list"} /\ t.ver \in Nat
    BY <2>1, EntryFacts DEF Committed
  <2>3. t.op = "put" => stored[t.id] <= t.ver
    BY <2>1, Parts DEF Committed, SavesInv, SaveSound
  <2> QED BY <1>1, <2>1, <2>2, <2>3 DEF Committed
<1>3. CASE Boot \/ Callback \/ SaveTimer \/ User \/ UNCHANGED vars
  <2>1. UNCHANGED stored
    BY <1>3 DEF Boot, Callback, User, vars, diskVars, FlushGet, FlushCompare, FlushReturns, BootList, BootOpen,
       OpenSession, SaveReturns, ShowSaved, ShowList, NewSaved, ResumeGot, ResumeOpen, DeleteGot, DeleteRemoved,
       DeleteListed, SaveTimer, Start, Edit, Hide, Dispose, Backup, Die, ShowSessions, BackToChart, NewSession,
       Resume, Delete
  <2> QED BY <1>1, <2>1
<1> QED BY <1>2, <1>3 DEF Next

\* Late saves and the copies of earlier page loads never take a session back
\* to an older version.
THEOREM OnlyForward == Spec => NeverBackwards
<1>1. SessionsInv /\ [Next]_vars => [\A s \in Sessions : stored'[s] < stored[s] => stored'[s] = 0]_vars
  BY StoredMoves
<1> QED BY <1>1, SessionsInvariant, PTL DEF Spec, NeverBackwards
=============================================================================
