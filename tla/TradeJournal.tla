---------------------------- MODULE TradeJournal ----------------------------
(***************************************************************************)
(* The trade journal of the backend: TradeService, ImportService and       *)
(* TradeRepo over the PostgreSQL table trades.                             *)
(*                                                                         *)
(* A request is a process.  Every database statement is one step, a        *)
(* transaction is the steps between taking and releasing the lock on the   *)
(* account row, and its inserts become visible when it commits (READ       *)
(* COMMITTED).  A trade carries the two times the service relates, its     *)
(* position stt and whether it is in the trash; the other columns are      *)
(* abstracted to "the patch sends some of them".                           *)
(***************************************************************************)
EXTENDS Naturals, Sequences, FiniteSets, SequencesExt

CONSTANTS
    Accounts,           \* account rows
    Requests,           \* HTTP requests that may be in flight together
    Times,              \* the instants a trade may be entered or closed at
    None,               \* SQL NULL in closed_at (the trade is still open); no account
    Absent,             \* a PATCH field that was not sent
    MaxTrades,          \* bound: ids the sequence of trades.id may give out
    MaxBatch,           \* bound: rows of one imported file
    ConcurrentPatches   \* bound: PATCH requests in flight together

ASSUME TimesAssumption == Times \subseteq Nat /\ None \notin Times /\ Absent \notin Times \cup {None}
ASSUME AccountsAssumption == None \notin Accounts
ASSUME BoundsAssumption == MaxTrades \in Nat /\ MaxBatch \in Nat /\ ConcurrentPatches \in Nat

VARIABLES
    trades,   \* trades[i]: the committed row with id i, for ids below nextId
    nextId,   \* the sequence behind trades.id
    lock,     \* lock[a]: the requests whose transaction holds row a FOR UPDATE
    req       \* req[r]: where request r is, and its local variables

vars == <<trades, nextId, lock, req>>

-----------------------------------------------------------------------------
(* Types                                                                   *)

Ids == 1..MaxTrades
Fields == [entered : Times, closed : Times \cup {None}]
Row == [acc : Accounts, stt : Nat \ {0}, deleted : BOOLEAN, fields : Fields]
NoRow == [stt |-> 0]
Patch == [entered : Times \cup {Absent}, closed : Times \cup {None, Absent}, others : BOOLEAN]

\* The statement a request is about to run.
Steps == {"idle", "lock", "max", "insert", "exists", "merge", "write", "load", "raw"}
\* What it answered last: 200, a 400 or 404, the UNIQUE violation, or any
\* other failure.
Answers == {"ok", "refused", "conflict", "error"}

RequestState ==
    [step : Steps, kind : {"create", "import", "patch", "restore"},
     acc : Accounts \cup {None}, id : Ids \cup {0}, batch : Seq(Fields),
     next : Nat, patch : Patch, answer : Answers]

TypeOK ==
    /\ nextId \in 1..(MaxTrades + 1)
    /\ trades \in [Ids -> Row \cup {NoRow}]
    /\ lock \in [Accounts -> SUBSET Requests]
    /\ req \in [Requests -> RequestState]

-----------------------------------------------------------------------------
(* The table                                                               *)

Stored == {i \in Ids : trades[i] # NoRow}
Of(a) == {i \in Stored : trades[i].acc = a}
Live(i) == trades[i] # NoRow /\ ~trades[i].deleted

\* ListByAccount: the live trades of an account; stt orders them.
ListByAccount(a) == {i \in Of(a) : ~trades[i].deleted}

\* SELECT COALESCE(MAX(stt), 0) of an account, the trash included.
MaxStt(a) ==
    IF Of(a) = {} THEN 0
    ELSE CHOOSE m \in {trades[i].stt : i \in Of(a)} : \A i \in Of(a) : trades[i].stt <= m

\* domain.ValidateTrade, on the columns modelled here.
ValidTrade(f) == f.closed # None => f.closed >= f.entered

\* A PATCH laid over a row: a field that was not sent keeps its value.
Merged(f, p) ==
    [entered |-> IF p.entered = Absent THEN f.entered ELSE p.entered,
     closed  |-> IF p.closed = Absent THEN f.closed ELSE p.closed]

SendsTimes(p) == p.entered # Absent \/ p.closed # Absent
SendsNothing(p) == ~SendsTimes(p) /\ ~p.others

EmptyPatch == [entered |-> Absent, closed |-> Absent, others |-> FALSE]

\* A request that is not running: its last answer and no local state.
Idle(what) ==
    [step |-> "idle", kind |-> "create", acc |-> None, id |-> 0,
     batch |-> <<>>, next |-> 0, patch |-> EmptyPatch, answer |-> what]

Init ==
    /\ trades = [i \in Ids |-> NoRow]
    /\ nextId = 1
    /\ lock = [a \in Accounts |-> {}]
    /\ req = [r \in Requests |-> Idle("ok")]

Start(r, state) == req' = [req EXCEPT ![r] = state]
Answer(r, what) == Start(r, Idle(what))
Goto(r, step) == Start(r, [req[r] EXCEPT !.step = step])

-----------------------------------------------------------------------------
(* Creating trades: POST /trades and POST /import                          *)

BeginCreate(r, a) ==
    /\ req[r].step = "idle"
    /\ \E f \in Fields :
         IF ValidTrade(f)
         THEN Start(r, [Idle("ok") EXCEPT !.step = "lock", !.acc = a, !.batch = <<f>>])
         ELSE Answer(r, "refused")
    /\ UNCHANGED <<trades, nextId, lock>>

\* A dry run, a file with a bad row and a file without rows only report.
BeginImport(r, a) ==
    /\ req[r].step = "idle"
    /\ \E rows \in BoundedSeq(Fields, MaxBatch), dryRun \in BOOLEAN :
         IF dryRun \/ rows = <<>> \/ (\E k \in DOMAIN rows : ~ValidTrade(rows[k]))
         THEN Answer(r, "ok")
         ELSE Start(r, [Idle("ok") EXCEPT !.step = "lock", !.kind = "import", !.acc = a,
                                          !.batch = rows])
    /\ UNCHANGED <<trades, nextId, lock>>

\* Mutant: max(stt) is read without taking the account row first.
LockAccountNoWait(r) ==
    /\ req[r].step = "lock"
    /\ lock' = [lock EXCEPT ![req[r].acc] = @ \cup {r}]
    /\ Goto(r, "max")
    /\ UNCHANGED <<trades, nextId>>

\* SELECT id FROM accounts WHERE id = ? FOR UPDATE waits for the row.
LockAccount(r) ==
    /\ req[r].step = "lock"
    /\ lock[req[r].acc] = {}
    /\ lock' = [lock EXCEPT ![req[r].acc] = {r}]
    /\ Goto(r, "max")
    /\ UNCHANGED <<trades, nextId>>

\* Mutant: the first row of the batch repeats max(stt).
ReadMaxSttNoIncrement(r) ==
    /\ req[r].step = "max"
    /\ Start(r, [req[r] EXCEPT !.step = "insert", !.next = MaxStt(req[r].acc)])
    /\ UNCHANGED <<trades, nextId, lock>>

ReadMaxStt(r) ==
    /\ req[r].step = "max"
    /\ Start(r, [req[r] EXCEPT !.step = "insert", !.next = MaxStt(req[r].acc) + 1])
    /\ UNCHANGED <<trades, nextId, lock>>

\* Mutants: the k-th row, counted from 1, gets next + k; a file numbered from
\* its last row.
InsertedOffByOne(r) ==
    [i \in nextId..(nextId + Len(req[r].batch) - 1) |->
        [acc |-> req[r].acc, stt |-> req[r].next + (i - nextId) + 1, deleted |-> FALSE,
         fields |-> req[r].batch[i - nextId + 1]]]
InsertedBackwards(r) ==
    [i \in nextId..(nextId + Len(req[r].batch) - 1) |->
        [acc |-> req[r].acc, stt |-> req[r].next + (nextId + Len(req[r].batch) - 1 - i),
         deleted |-> FALSE, fields |-> req[r].batch[i - nextId + 1]]]

\* The rows the transaction inserts: the k-th row of the batch gets stt
\* next + k - 1 and the k-th id the sequence gives out.
Inserted(r) ==
    [i \in nextId..(nextId + Len(req[r].batch) - 1) |->
        [acc |-> req[r].acc, stt |-> req[r].next + (i - nextId), deleted |-> FALSE,
         fields |-> req[r].batch[i - nextId + 1]]]

Collides(r) ==
    \E i \in Of(req[r].acc) :
        trades[i].stt \in req[r].next..(req[r].next + Len(req[r].batch) - 1)

\* INSERT and COMMIT.  The UNIQUE index (account_id, stt) refuses the whole
\* transaction; otherwise the batch becomes visible at once.
InsertAndCommit(r) ==
    /\ req[r].step = "insert"
    /\ nextId + Len(req[r].batch) - 1 <= MaxTrades
    /\ lock' = [lock EXCEPT ![req[r].acc] = @ \ {r}]
    /\ IF Collides(r)
       THEN Answer(r, "conflict") /\ UNCHANGED <<trades, nextId>>
       ELSE /\ trades' = [i \in Ids |-> IF i \in DOMAIN Inserted(r) THEN Inserted(r)[i] ELSE trades[i]]
            /\ nextId' = nextId + Len(req[r].batch)
            /\ IF req[r].kind = "create"
               THEN Start(r, [Idle("ok") EXCEPT !.step = "load", !.acc = req[r].acc, !.id = nextId])
               ELSE Answer(r, "ok")

-----------------------------------------------------------------------------
(* Editing and the trash                                                   *)

Patching == {r \in Requests : req[r].kind = "patch" /\ req[r].step # "idle"}

BeginPatch(r, i) ==
    /\ req[r].step = "idle"
    /\ trades[i] # NoRow
    /\ Cardinality(Patching) < ConcurrentPatches
    /\ \E p \in Patch :
         Start(r, [Idle("ok") EXCEPT !.kind = "patch", !.acc = trades[i].acc, !.id = i, !.patch = p,
                                     !.step = IF SendsNothing(p) THEN "load"
                                              ELSE IF SendsTimes(p) THEN "exists" ELSE "write"])
    /\ UNCHANGED <<trades, nextId, lock>>

\* validateClosedAfterMerge: ExistsActive, then ByID and the merged check.
CheckExists(r) ==
    /\ req[r].step = "exists"
    /\ IF Live(req[r].id) THEN Goto(r, "merge") ELSE Answer(r, "refused")
    /\ UNCHANGED <<trades, nextId, lock>>

\* Mutant: the sent times are checked alone, not laid over the stored ones.
CheckMergedPatchOnly(r) ==
    /\ req[r].step = "merge"
    /\ LET p == req[r].patch IN
         IF p.entered \in Times /\ p.closed \in Times /\ p.closed < p.entered
         THEN Answer(r, "refused")
         ELSE Goto(r, "write")
    /\ UNCHANGED <<trades, nextId, lock>>

CheckMerged(r) ==
    /\ req[r].step = "merge"
    /\ IF ValidTrade(Merged(trades[req[r].id].fields, req[r].patch))
       THEN Goto(r, "write")
       ELSE Answer(r, "refused")
    /\ UNCHANGED <<trades, nextId, lock>>

\* Mutant: UPDATE ... WHERE id = ? alone.
UpdateFieldsAnyRow(r) ==
    /\ req[r].step = "write"
    /\ trades' = [trades EXCEPT ![req[r].id].fields = Merged(@, req[r].patch)]
    /\ Goto(r, "load")
    /\ UNCHANGED <<nextId, lock>>

\* UPDATE trades SET <the sent columns> WHERE id = ? AND deleted_at IS NULL.
UpdateFields(r) ==
    /\ req[r].step = "write"
    /\ IF Live(req[r].id)
       THEN /\ trades' = [trades EXCEPT ![req[r].id].fields = Merged(@, req[r].patch)]
            /\ Goto(r, "load")
       ELSE Answer(r, "refused") /\ UNCHANGED trades
    /\ UNCHANGED <<nextId, lock>>

\* DELETE /trades/{id} is one UPDATE.
SoftDelete(r, i) ==
    /\ req[r].step = "idle"
    /\ trades[i] # NoRow
    /\ IF Live(i)
       THEN trades' = [trades EXCEPT ![i].deleted = TRUE] /\ Answer(r, "ok")
       ELSE Answer(r, "refused") /\ UNCHANGED trades
    /\ UNCHANGED <<nextId, lock>>

\* Mutant: the UPDATE restores every trashed trade of the account.
RestoreWholeAccount(r, i) ==
    /\ req[r].step = "idle"
    /\ trades[i] # NoRow
    /\ IF trades[i].deleted
       THEN /\ trades' = [j \in Ids |-> IF j \in Of(trades[i].acc)
                                       THEN [trades[j] EXCEPT !.deleted = FALSE] ELSE trades[j]]
            /\ Start(r, [Idle("ok") EXCEPT !.step = "load", !.kind = "restore",
                                           !.acc = trades[i].acc, !.id = i])
       ELSE Answer(r, "refused") /\ UNCHANGED trades
    /\ UNCHANGED <<nextId, lock>>

\* POST /trades/{id}/restore is one UPDATE, then the answer is loaded.
Restore(r, i) ==
    /\ req[r].step = "idle"
    /\ trades[i] # NoRow
    /\ IF trades[i].deleted
       THEN /\ trades' = [trades EXCEPT ![i].deleted = FALSE]
            /\ Start(r, [Idle("ok") EXCEPT !.step = "load", !.kind = "restore",
                                           !.acc = trades[i].acc, !.id = i])
       ELSE Answer(r, "refused") /\ UNCHANGED trades
    /\ UNCHANGED <<nextId, lock>>

-----------------------------------------------------------------------------
(* Answering                                                               *)

\* respondTrade: load the whole live list; a trade that is not in it is read
\* again by id and answered without derived fields.
LoadAnswer(r) ==
    /\ req[r].step = "load"
    /\ IF req[r].id \in ListByAccount(req[r].acc) THEN Answer(r, "ok") ELSE Goto(r, "raw")
    /\ UNCHANGED <<trades, nextId, lock>>

RawAnswer(r) ==
    /\ req[r].step = "raw"
    /\ Answer(r, IF trades[req[r].id] # NoRow THEN "ok" ELSE "refused")
    /\ UNCHANGED <<trades, nextId, lock>>

\* Mutant: the failed transaction is not rolled back and keeps its row lock.
FailKeepsLock(r) ==
    /\ req[r].step # "idle"
    /\ Answer(r, "error")
    /\ UNCHANGED <<trades, nextId, lock>>

\* A statement fails or the client is gone: the transaction, if any, rolls
\* back; what was committed before stays.
Fail(r) ==
    /\ req[r].step # "idle"
    /\ lock' = [lock EXCEPT ![req[r].acc] = @ \ {r}]
    /\ Answer(r, "error")
    /\ UNCHANGED <<trades, nextId>>

\* The bound on ids: a table that takes no more rows fails the insert.
TableFull(r) ==
    /\ req[r].step = "insert"
    /\ nextId + Len(req[r].batch) - 1 > MaxTrades
    /\ Fail(r)

-----------------------------------------------------------------------------
\* The user's calls.
Call(r) ==
    \/ \E a \in Accounts : BeginCreate(r, a) \/ BeginImport(r, a)
    \/ \E i \in Ids : BeginPatch(r, i) \/ SoftDelete(r, i) \/ Restore(r, i)

\* The steps the server takes on its own once a call is in.
Serve(r) ==
    \/ ReadMaxStt(r) \/ InsertAndCommit(r) \/ TableFull(r)
    \/ CheckExists(r) \/ CheckMerged(r) \/ UpdateFields(r)
    \/ LoadAnswer(r) \/ RawAnswer(r)

Next == \E r \in Requests : Call(r) \/ LockAccount(r) \/ Serve(r) \/ Fail(r)

Spec == Init /\ [][Next]_vars

\* A handler keeps running, and PostgreSQL queues the waiters of a row lock,
\* so a waiter that is let in again and again gets it.
FairSpec ==
    /\ Spec
    /\ \A r \in Requests : WF_vars(Serve(r)) /\ SF_vars(LockAccount(r))

-----------------------------------------------------------------------------
(* Properties                                                              *)

\* TradeRepo.Create's comment: without the lock, or with a max(stt) that
\* skips the trash, two trades would be given one stt.  Then the UNIQUE index
\* refuses an insert; it never has to.
NoSttConflict == \A r \in Requests : req[r].answer # "conflict"

\* The positions of an account are 1, 2, ... n with no gap and no repetition,
\* whatever was rolled back, trashed or restored: cumulative figures walk
\* trades in this order.
SttDense ==
    \A a \in Accounts :
        /\ \A i, j \in Of(a) : i # j => trades[i].stt # trades[j].stt
        /\ {trades[i].stt : i \in Of(a)} = 1..MaxStt(a)

\* Positions follow the order of insertion: of two trades of an account the
\* one inserted first (the smaller id) has the smaller stt, also inside one
\* imported file.
SttFollowsInsertion ==
    \A a \in Accounts : \A i, j \in Of(a) : i < j => trades[i].stt < trades[j].stt

\* The rule of ValidateTrade and validateClosedAfterMerge: no stored trade is
\* closed before it was entered.
ClosedAfterEntered == \A i \in Stored : ValidTrade(trades[i].fields)

\* The invariant the positions rest on.  A transaction between its SELECT FOR
\* UPDATE and its end is alone on its account ...
Locked(r) == req[r].step \in {"max", "insert"}
LockExclusive ==
    /\ \A a \in Accounts : \A r, s \in lock[a] : r = s
    /\ \A r \in Requests : Locked(r) => r \in lock[req[r].acc]
    /\ \A r \in Requests : Locked(r) \/ req[r].step = "lock" =>
         req[r].acc \in Accounts /\ req[r].batch # <<>>
\* ... so the max(stt) it read still is the largest when it inserts ...
NextIsFree ==
    \A r \in Requests : req[r].step = "insert" =>
        /\ req[r].next # 0
        /\ \A i \in Of(req[r].acc) : trades[i].stt < req[r].next
        /\ \A n \in 1..(req[r].next - 1) : \E i \in Of(req[r].acc) : trades[i].stt = n
\* ... ids are given out in order, each account has a last trade, and below
\* every position all positions are taken.
Positions ==
    /\ \A i \in Stored : i < nextId
    /\ \A a \in Accounts :
        /\ Of(a) # {} => \E i \in Of(a) : \A j \in Of(a) : trades[j].stt <= trades[i].stt
        /\ \A i \in Of(a) : \A n \in 1..trades[i].stt : \E j \in Of(a) : trades[j].stt = n
SttInv == LockExclusive /\ NextIsFree /\ Positions /\ SttFollowsInsertion /\ NoSttConflict

\* A trade in the trash keeps the values it was deleted with: a PATCH that
\* checked the trade before a concurrent delete must not write to it after.
TrashFrozen ==
    [][\A i \in Ids : i \in Stored /\ ~Live(i)
            => trades'[i].fields = trades[i].fields]_vars

\* Every call is answered: nobody waits for an account row for ever.
EveryCallAnswered ==
    \A r \in Requests : (req[r].step # "idle") ~> (req[r].step = "idle")

\* The journal implements the append-only log of JournalLog: a batch lands
\* whole, at the end, in the order of the file.
TradeAt(a, n) == CHOOSE i \in Of(a) : trades[i].stt = n
Log == INSTANCE JournalLog WITH
    log <- [a \in Accounts |-> [n \in 1..MaxStt(a) |-> TradeAt(a, n)]],
    trash <- {i \in Stored : trades[i].deleted},
    content <- [i \in Stored |-> trades[i].fields]
ImplementsLog == Log!Spec
=============================================================================
