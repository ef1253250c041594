--------------------------- MODULE ReplaySessions ---------------------------
(***************************************************************************)
(* Where a replay session lives while the user works on it: the memory of  *)
(* ReplayStore, the store `sessions` of IndexedDB, and the copy in         *)
(* localStorage that storage.ts makes when the page is hidden or left.     *)
(*                                                                         *)
(* IndexedDB runs its transactions in the order they were started; each    *)
(* one commits or fails, and its callback runs in the page some time       *)
(* later.  A tab that dies takes its uncommitted transactions and its      *)
(* callbacks along.  A session is a version number: each edit, and each    *)
(* opening, which stamps the record anew (updated), makes the next one.    *)
(***************************************************************************)
EXTENDS Naturals, Sequences, FiniteSets

CONSTANTS
    Sessions,   \* the session ids
    None,       \* no session
    MaxVer,     \* bound: versions of a session
    MaxQueue    \* bound: transactions under way before one more edit is saved

ASSUME BoundsAssumption == MaxVer \in Nat /\ MaxQueue \in Nat
ASSUME NoneAssumption == None \notin Sessions

VARIABLES
    page,         \* the page: closed, booting, or the screen it shows
    work,         \* the session in memory: id and version
    timer,        \* saveTimer is set
    task,         \* the asynchronous task of the page: kind and session
    backups,      \* the copies flushBackups has still to look at
    queue,        \* the transactions on `sessions`, in order
    stored,       \* stored[s]: the version in IndexedDB, 0 when there is none
    local,        \* local[s]: the version in localStorage, 0 when there is none
    latest,       \* history: the newest version of each session
    copiedAlone,  \* history: the newest version copied on the way out with no save of an older one under way
    deletion      \* history: no, asked for, or done with no save under way

pageVars == <<page, work, timer, task, backups>>
diskVars == <<queue, stored, local>>
history == <<latest, copiedAlone, deletion>>
vars == <<pageVars, diskVars, history>>

-----------------------------------------------------------------------------
Versions == 0..MaxVer
Transactions(ops, ids) ==
    [op : ops, id : ids, ver : Versions, state : {"queued", "ok", "failed"},
     by : {"save", "show", "new", "resume", "delete", "flush", "boot"}]
Entry == Transactions({"put", "delete", "get"}, Sessions) \cup Transactions({"list"}, {None})
Task == [kind : {"none", "show", "new", "resume", "delete", "flush", "boot"},
         id : Sessions \cup {None}, ver : Versions]
Idle == [kind |-> "none", id |-> None, ver |-> 0]

TypeOK ==
    /\ page \in {"closed", "booting", "chart", "sessions"}
    /\ work \in [id : Sessions \cup {None}, ver : Versions]
    /\ timer \in BOOLEAN
    /\ task \in Task
    /\ backups \subseteq Sessions
    /\ queue \in Seq(Entry)
    /\ {stored, local, latest, copiedAlone} \subseteq [Sessions -> Versions]
    /\ deletion \in [Sessions -> {"no", "asked", "done"}]

NoWork == [id |-> None, ver |-> 0]
Nowhere == [s \in Sessions |-> 0]

Init ==
    /\ page = "closed" /\ work = NoWork /\ timer = FALSE /\ task = Idle
    /\ backups = {}
    /\ queue = <<>> /\ stored = Nowhere /\ local = Nowhere
    /\ latest = Nowhere /\ copiedAlone = Nowhere
    /\ deletion = [s \in Sessions |-> "no"]

-----------------------------------------------------------------------------
(* IndexedDB                                                               *)

Trans(op, id, ver, by) == [op |-> op, id |-> id, ver |-> ver, by |-> by, state |-> "queued"]

Waiting == {i \in DOMAIN queue : queue[i].state = "queued"}

\* The first transaction that is still waiting commits or fails.
Commit ==
    /\ Waiting # {}
    /\ LET i == CHOOSE k \in Waiting : \A m \in Waiting : k <= m
           t == queue[i]
       IN  \/ /\ queue' = [queue EXCEPT ![i].state = "ok",
                             ![i].ver = IF t.op = "get" THEN stored[t.id] ELSE @]
              /\ stored' = CASE t.op = "put" -> [stored EXCEPT ![t.id] = t.ver]
                             [] t.op = "delete" -> [stored EXCEPT ![t.id] = 0]
                             [] OTHER -> stored
           \/ queue' = [queue EXCEPT ![i].state = "failed"] /\ UNCHANGED stored
    /\ UNCHANGED <<pageVars, local, history>>

\* The callback that is due, for the awaiting function `by`.
Due(op, by) == queue # <<>> /\ queue[1].op = op /\ queue[1].by = by /\ queue[1].state # "queued"
Ok == queue[1].state = "ok"

\* Mutant: dropBackup in a finally.
DroppedAnyway == [local EXCEPT ![queue[1].id] = 0]

\* dropBackup after a save that succeeded, whatever the copy holds by then.
DroppedIfOk == IF Ok THEN [local EXCEPT ![queue[1].id] = 0] ELSE local

-----------------------------------------------------------------------------
(* saveSession, scheduleSave, backup                                       *)

\* saveSession: the record is taken now and put behind what is under way.
SaveSession(q, w, by) ==
    /\ timer' = FALSE
    /\ queue' = IF w.id = None THEN q ELSE Append(q, Trans("put", w.id, w.ver, by))

\* Something of the session changes: scheduleSave.
Edit ==
    /\ page \in {"chart", "sessions"} /\ work.id # None /\ work.ver < MaxVer
    /\ work' = [work EXCEPT !.ver = latest[work.id] + 1]
    /\ latest' = [latest EXCEPT ![work.id] = @ + 1]
    /\ timer' = TRUE
    /\ UNCHANGED <<page, task, backups, diskVars, copiedAlone, deletion>>

\* SAVE_DELAY after the first change.
SaveTimer ==
    /\ timer /\ Len(queue) < MaxQueue
    /\ SaveSession(queue, work, "save")
    /\ UNCHANGED <<page, work, task, backups, stored, local, latest, copiedAlone, deletion>>

SaveReturns ==
    /\ Due("put", "save")
    /\ local' = DroppedIfOk
    /\ queue' = Tail(queue)
    /\ UNCHANGED <<pageVars, stored, history>>

\* backupSession, which a full or blocked localStorage ignores.
BackupSession ==
    \/ /\ local' = [local EXCEPT ![work.id] = work.ver]
       /\ copiedAlone' = IF \E i \in DOMAIN queue : queue[i].op = "put" /\ queue[i].id = work.id
                                                    /\ queue[i].ver < work.ver
                         THEN copiedAlone ELSE [copiedAlone EXCEPT ![work.id] = work.ver]
    \/ UNCHANGED <<local, copiedAlone>>

Backup ==
    /\ page \in {"chart", "sessions"} /\ Len(queue) < MaxQueue
    /\ IF work.id = None THEN UNCHANGED <<local, copiedAlone>> ELSE BackupSession
    /\ SaveSession(queue, work, "save")
    /\ UNCHANGED <<stored, latest, deletion, backups>>

\* The tab is hidden, or its pagehide event comes.
Hide == Backup /\ UNCHANGED <<page, work, task>>

\* dispose: the user goes to another page of the application.
Dispose ==
    /\ task = Idle
    /\ Backup
    /\ page' = "closed" /\ work' = NoWork /\ UNCHANGED task

\* The tab is closed, killed or reloaded.
Die ==
    /\ page # "closed" \/ queue # <<>>
    /\ page' = "closed" /\ work' = NoWork /\ timer' = FALSE /\ task' = Idle /\ backups' = {}
    /\ queue' = <<>>
    /\ UNCHANGED <<stored, local, history>>

-----------------------------------------------------------------------------
(* openSession: the record gets a new stamp and is saved at once           *)

OpenSession(id, q) ==
    /\ latest[id] < MaxVer
    /\ work' = [id |-> id, ver |-> latest[id] + 1]
    /\ latest' = [latest EXCEPT ![id] = @ + 1]
    /\ page' = "chart" /\ task' = Idle
    /\ SaveSession(q, work', "save")
    /\ UNCHANGED <<backups, stored, copiedAlone, deletion>>

Fresh(id) == latest[id] = 0
Present(id) == stored[id] # 0

\* start: a page opens and looks at the copies left behind.
Start ==
    /\ page = "closed"
    /\ page' = "booting"
    /\ task' = [Idle EXCEPT !.kind = "flush"]
    /\ backups' = {s \in Sessions : local[s] # 0}
    /\ UNCHANGED <<work, timer, diskVars, history>>

\* flushBackups, one copy: read it and ask IndexedDB what it has.
FlushNext == task' = [Idle EXCEPT !.kind = "flush"]
FlushGet ==
    /\ task.kind = "flush" /\ task.id = None
    /\ \E s \in backups :
         /\ backups' = backups \ {s}
         /\ IF local[s] = 0 THEN UNCHANGED <<queue, task>>
            ELSE /\ queue' = Append(queue, Trans("get", s, 0, "flush"))
                 /\ task' = [kind |-> "flush", id |-> s, ver |-> local[s]]
    /\ UNCHANGED <<page, work, timer, stored, local, history>>

FlushPut == /\ queue' = Append(Tail(queue), Trans("put", task.id, task.ver, "flush"))
            /\ UNCHANGED <<task, local>>

\* Mutant: the copy is put without a look at what is there.
FlushAnyway ==
    /\ Due("get", "flush")
    /\ IF Ok THEN FlushPut ELSE queue' = Tail(queue) /\ FlushNext /\ UNCHANGED local
    /\ UNCHANGED <<page, work, timer, backups, stored, history>>

\* Mutant: the loop ends at the first copy that cannot be compared.
FlushCompareOrStop ==
    /\ Due("get", "flush")
    /\ IF Ok /\ task.ver >= queue[1].ver THEN FlushPut
       ELSE /\ queue' = Tail(queue)
            /\ local' = DroppedIfOk
            /\ IF Ok THEN FlushNext ELSE UNCHANGED task
    /\ UNCHANGED <<page, work, timer, backups, stored, history>>

\* A copy that is older than what is stored is dropped; one that could not be
\* compared stays for the next time.
FlushCompare ==
    /\ Due("get", "flush")
    /\ IF Ok /\ task.ver >= queue[1].ver THEN FlushPut
       ELSE /\ queue' = Tail(queue)
            /\ local' = DroppedIfOk
            /\ FlushNext
    /\ UNCHANGED <<page, work, timer, backups, stored, history>>

FlushReturns ==
    /\ Due("put", "flush")
    /\ queue' = Tail(queue)
    /\ local' = DroppedIfOk
    /\ FlushNext
    /\ UNCHANGED <<page, work, timer, backups, stored, history>>

\* boot: with the copies looked at and the bars loaded, list the sessions.
BootList ==
    /\ task.kind = "flush" /\ task.id = None /\ backups = {}
    /\ task' = [Idle EXCEPT !.kind = "boot"]
    /\ queue' = Append(queue, Trans("list", None, 0, "boot"))
    /\ UNCHANGED <<page, work, timer, backups, stored, local, history>>

\* A saved session whose bars are there is opened, or else a new one; with no
\* bars at all the list is shown.
BootOpen ==
    /\ Due("list", "boot")
    /\ \/ \E s \in Sessions : (Fresh(s) \/ (Ok /\ Present(s))) /\ OpenSession(s, Tail(queue)) /\ UNCHANGED local
       \/ /\ page' = "sessions" /\ task' = Idle /\ queue' = Tail(queue)
          /\ UNCHANGED <<work, timer, backups, stored, local, history>>

-----------------------------------------------------------------------------
(* The session screen                                                      *)

List(q, by) == Append(q, Trans("list", None, 0, by))

\* showSessions: the session is saved first; until the list is there the
\* chart stays on the screen.
ShowSessions ==
    /\ page = "chart" /\ task = Idle
    /\ task' = [Idle EXCEPT !.kind = "show"]
    /\ IF work.id = None THEN queue' = List(queue, "show") /\ UNCHANGED timer
       ELSE SaveSession(queue, work, "show")
    /\ UNCHANGED <<page, work, backups, stored, local, latest, copiedAlone, deletion>>

ShowSaved ==
    /\ Due("put", "show")
    /\ local' = DroppedIfOk
    /\ queue' = List(Tail(queue), "show")
    /\ UNCHANGED <<pageVars, stored, history>>

ShowList ==
    /\ Due("list", "show")
    /\ page' = "sessions" /\ task' = Idle
    /\ queue' = Tail(queue)
    /\ UNCHANGED <<work, timer, backups, stored, local, history>>

\* A page that never got any bars has no such button, and no use for a chart.
BackToChart ==
    /\ page = "sessions"
    /\ page' = "chart"
    /\ UNCHANGED <<work, timer, task, backups, diskVars, history>>

\* openDefault, openDemo, openFiles in a new session: save, then open.
NewSession ==
    /\ page = "sessions" /\ task = Idle
    /\ IF work.id = None
       THEN \E s \in Sessions : Fresh(s) /\ OpenSession(s, queue) /\ UNCHANGED local
       ELSE /\ task' = [Idle EXCEPT !.kind = "new"]
            /\ SaveSession(queue, work, "new")
            /\ UNCHANGED <<page, work, backups, stored, local, latest, copiedAlone, deletion>>

NewSaved ==
    /\ Due("put", "new")
    /\ \E s \in Sessions : Fresh(s) /\ OpenSession(s, Tail(queue))
    /\ local' = DroppedIfOk

\* resume: read the record, then the bars, then open it.
Resume ==
    /\ page = "sessions" /\ task = Idle
    /\ \E s \in Sessions : /\ Present(s)
                           /\ queue' = Append(queue, Trans("get", s, 0, "resume"))
                           /\ task' = [kind |-> "resume", id |-> s, ver |-> 0]
    /\ UNCHANGED <<page, work, timer, backups, stored, local, history>>

ResumeGot ==
    /\ Due("get", "resume")
    /\ queue' = Tail(queue)
    /\ task' = IF Ok /\ queue[1].ver # 0 THEN [task EXCEPT !.ver = queue[1].ver] ELSE Idle
    /\ UNCHANGED <<page, work, timer, backups, stored, local, history>>

ResumeOpen ==
    /\ task.kind = "resume" /\ task.ver # 0
    /\ \/ OpenSession(task.id, queue) /\ UNCHANGED local
       \/ task' = Idle /\ UNCHANGED <<page, work, timer, backups, diskVars, history>>

\* deleteSession: read, remove, drop the copy, list again.  With a save of
\* the session behind the removal the session comes back.
Delete ==
    /\ page = "sessions" /\ task = Idle
    /\ \E s \in Sessions : /\ Present(s)
                           /\ queue' = Append(queue, Trans("get", s, 0, "delete"))
                           /\ task' = [kind |-> "delete", id |-> s, ver |-> 0]
                           /\ deletion' = [deletion EXCEPT ![s] = "asked"]
    /\ UNCHANGED <<page, work, timer, backups, stored, local, latest, copiedAlone>>

DeleteGot ==
    /\ Due("get", "delete")
    /\ IF Ok THEN queue' = Append(Tail(queue), Trans("delete", task.id, 0, "delete")) /\ UNCHANGED task
       ELSE queue' = Tail(queue) /\ task' = Idle
    /\ UNCHANGED <<page, work, timer, backups, stored, local, history>>

\* Mutant: the copy in localStorage is left.
DeleteRemovedOnly ==
    /\ Due("delete", "delete")
    /\ IF Ok
       THEN /\ queue' = List(Tail(queue), "delete")
            /\ work' = IF work.id = task.id THEN NoWork ELSE work
            /\ deletion' = IF \E i \in DOMAIN queue : queue[i].op = "put" /\ queue[i].id = task.id
                           THEN deletion ELSE [deletion EXCEPT ![task.id] = "done"]
            /\ UNCHANGED task
       ELSE queue' = Tail(queue) /\ task' = Idle /\ UNCHANGED <<work, deletion>>
    /\ UNCHANGED <<page, timer, backups, stored, local, latest, copiedAlone>>

DeleteRemoved ==
    /\ Due("delete", "delete")
    /\ local' = DroppedIfOk
    /\ IF Ok
       THEN /\ queue' = List(Tail(queue), "delete")
            /\ work' = IF work.id = task.id THEN NoWork ELSE work
            /\ deletion' = IF \E i \in DOMAIN queue : queue[i].op = "put" /\ queue[i].id = task.id
                           THEN deletion ELSE [deletion EXCEPT ![task.id] = "done"]
            /\ UNCHANGED task
       ELSE queue' = Tail(queue) /\ task' = Idle /\ UNCHANGED <<work, deletion>>
    /\ UNCHANGED <<page, timer, backups, stored, latest, copiedAlone>>

DeleteListed ==
    /\ Due("list", "delete")
    /\ queue' = Tail(queue) /\ task' = Idle
    /\ UNCHANGED <<page, work, timer, backups, stored, local, history>>

-----------------------------------------------------------------------------
Boot == FlushGet \/ FlushCompare \/ FlushReturns \/ BootList \/ BootOpen
Callback == SaveReturns \/ ShowSaved \/ ShowList \/ NewSaved \/ ResumeGot \/ ResumeOpen
            \/ DeleteGot \/ DeleteRemoved \/ DeleteListed
User == Start \/ Edit \/ Hide \/ Dispose \/ Die \/ ShowSessions \/ BackToChart \/ NewSession
        \/ Resume \/ Delete

Next == Commit \/ Boot \/ Callback \/ SaveTimer \/ User

Spec == Init /\ [][Next]_vars

-----------------------------------------------------------------------------
(* Properties                                                              *)

Kept(s) == IF stored[s] > local[s] THEN stored[s] ELSE local[s]

\* storage.ts: "writing to IndexedDB may be cut off when the tab is closed, so
\* on the way out there is a synchronous copy in localStorage": what was copied
\* when the page was hidden or left is in one of the two ever after, if no save
\* of an older version was under way at that moment.
CopyAloneKeepsWork == \A s \in Sessions : deletion[s] = "no" => Kept(s) >= copiedAlone[s]

\* Saves, copies of earlier page loads and late callbacks never put an older
\* version of a session over a newer one.
NeverBackwards == [][\A s \in Sessions : stored'[s] < stored[s] => stored'[s] = 0]_vars

\* A deleted session does not come back, neither from a save that was under
\* way nor from a copy that an earlier page left behind.
DeletedStaysDeleted == \A s \in Sessions : deletion[s] = "done" => Kept(s) = 0

\* The page's asynchronous task, its boot above all, always has a callback on
\* its way or its own next step to take, whichever transactions failed: no
\* screen waits for what nobody will bring.
NoTaskIsForgotten ==
    task # Idle => \/ \E i \in DOMAIN queue : queue[i].by = task.kind
                   \/ task.kind = "flush" /\ task.id = None
                   \/ task.kind = "resume" /\ task.ver # 0
=============================================================================
