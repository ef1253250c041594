------------------------- MODULE TradeJournalProofs -------------------------
(***************************************************************************)
(* Theorems about TradeJournal for every set of accounts, requests and     *)
(* times and for every bound.                                              *)
(* And about JournalPages, which reads what TradeJournal stores, for every *)
(* set of trades, filters, sizes and months: no move of the user ends on a *)
(* page without rows, and a day counts the same trades wherever it is.     *)
(***************************************************************************)
EXTENDS TradeJournal, JournalPages, FiniteSetTheorems, SequenceTheorems, WellFoundedInduction, TLAPS

\* What a request that answers leaves in req.
LEMMA IdleType == \A what \in Answers : Idle(what) \in RequestState
  BY DEF Idle, EmptyPatch, Patch, Steps, RequestState

\* A request that answers leaves req well typed.
LEMMA AnswerType ==
    ASSUME TypeOK, NEW r \in Requests, NEW what \in Answers, Answer(r, what)
    PROVE  req' \in [Requests -> RequestState]
  BY IdleType DEF TypeOK, Answer, Start

\* A patch laid over valid columns gives columns of the same type.
LEMMA MergedType ==
    ASSUME NEW f \in Fields, NEW p \in Patch
    PROVE  Merged(f, p) \in Fields
  BY TimesAssumption DEF Fields, Patch, Merged

\* The rows of a batch are rows, with ids the sequence has not given out.
LEMMA InsertedType ==
    ASSUME TypeOK, NEW r \in Requests, req[r].acc \in Accounts, req[r].next # 0,
           NEW i \in DOMAIN Inserted(r)
    PROVE  Inserted(r)[i] \in Row
  BY BoundsAssumption DEF TypeOK, RequestState, Inserted, Row, Ids

\* max(stt): an upper bound of the account's positions, and 0 or one of them.
LEMMA MaxSttFacts ==
    ASSUME TypeOK, Positions, NEW a \in Accounts
    PROVE  /\ MaxStt(a) \in Nat
           /\ \A i \in Of(a) : trades[i].stt <= MaxStt(a)
           /\ MaxStt(a) # 0 => \E i \in Of(a) : trades[i].stt = MaxStt(a)
           /\ Of(a) = {} => MaxStt(a) = 0
<1>1. CASE Of(a) = {}
  BY <1>1 DEF MaxStt
<1>2. CASE Of(a) # {}
  <2> DEFINE S == {trades[i].stt : i \in Of(a)}
             IsMax(m) == \A i \in Of(a) : trades[i].stt <= m
  <2>1. S \subseteq Nat
    BY DEF TypeOK, Of, Stored, Row
  <2>2. \E m \in S : IsMax(m)
    BY <1>2 DEF Positions
  <2>3. MaxStt(a) = CHOOSE m \in S : IsMax(m)
    BY <1>2 DEF MaxStt
  <2>4. MaxStt(a) \in S /\ IsMax(MaxStt(a))
    BY <2>2, <2>3
  <2> QED BY <2>1, <2>4, <1>2
<1> QED BY <1>1, <1>2

-----------------------------------------------------------------------------
(* Type correctness.  It needs two facts of SttInv: a locked account is an  *)
(* account, and the next position of an inserting request is not 0.        *)

\* The empty table with every request idle is well typed.
LEMMA InitTypeOK == Init => TypeOK
  BY BoundsAssumption
  DEF Init, TypeOK, Idle, EmptyPatch, Patch, Steps, Answers, Ids, RequestState

\* Every step of a request, its failures and a full table included, keeps
\* the types.
LEMMA NextTypeOK ==
    ASSUME TypeOK, LockExclusive, NextIsFree, Positions, [Next]_vars
    PROVE  TypeOK'
<1> USE DEF TypeOK
<1>start. \A r \in Requests, s \in RequestState : Start(r, s) => req' \in [Requests -> RequestState]
  BY DEF Start
<1>ans. \A r \in Requests, what \in Answers :
          Answer(r, what) => req' \in [Requests -> RequestState]
  BY AnswerType
<1>goto. \A r \in Requests, step \in Steps : Goto(r, step) => req' \in [Requests -> RequestState]
  <2> TAKE r \in Requests, step \in Steps
  <2>1. [req[r] EXCEPT !.step = step] \in RequestState
    BY DEF RequestState
  <2> QED BY <2>1, <1>start DEF Goto
<1>idle. Idle("ok") \in RequestState /\ DOMAIN Idle("ok") = {"step", "kind", "acc", "id", "batch",
                                                          "next", "patch", "answer"}
  BY IdleType DEF Answers, Idle
<1>1. ASSUME NEW r \in Requests, NEW a \in Accounts, BeginCreate(r, a)
      PROVE  TypeOK'
  <2>1. PICK f \in Fields :
          \/ Answer(r, "refused")
          \/ Start(r, [Idle("ok") EXCEPT !.step = "lock", !.acc = a, !.batch = <<f>>])
    BY <1>1 DEF BeginCreate
  <2>2. <<f>> \in Seq(Fields)
    OBVIOUS
  <2>3. [Idle("ok") EXCEPT !.step = "lock", !.acc = a, !.batch = <<f>>] \in RequestState
    BY <1>idle, <2>2 DEF RequestState, Steps
  <2> QED BY <1>1, <1>ans, <1>start, <2>1, <2>3 DEF BeginCreate, Answers
<1>2. ASSUME NEW r \in Requests, NEW a \in Accounts, BeginImport(r, a)
      PROVE  TypeOK'
  <2>1. PICK batch \in BoundedSeq(Fields, MaxBatch) :
          \/ Answer(r, "ok")
          \/ Start(r, [Idle("ok") EXCEPT !.step = "lock", !.kind = "import", !.acc = a,
                                         !.batch = batch])
    BY <1>2 DEF BeginImport
  <2>2. batch \in Seq(Fields)
    BY BoundsAssumption DEF BoundedSeq, SeqOf
  <2>3. [Idle("ok") EXCEPT !.step = "lock", !.kind = "import", !.acc = a, !.batch = batch] \in RequestState
    BY <1>idle, <2>2 DEF RequestState, Steps
  <2> QED BY <1>2, <1>ans, <1>start, <2>1, <2>3 DEF BeginImport, Answers
<1>3. ASSUME NEW r \in Requests, LockAccount(r)
      PROVE  TypeOK'
  BY <1>3, <1>goto DEF LockAccount, Steps
<1>4. ASSUME NEW r \in Requests, ReadMaxStt(r)
      PROVE  TypeOK'
  <2>1. MaxStt(req[r].acc) + 1 \in Nat
    BY <1>4, MaxSttFacts DEF ReadMaxStt, LockExclusive, Locked
  <2>2. [req[r] EXCEPT !.step = "insert", !.next = MaxStt(req[r].acc) + 1] \in RequestState
    BY <2>1 DEF RequestState, Steps
  <2> QED BY <1>4, <1>start, <2>2 DEF ReadMaxStt
<1>5. ASSUME NEW r \in Requests, InsertAndCommit(r)
      PROVE  TypeOK'
  <2>1. req[r].acc \in Accounts /\ req[r].next # 0
    BY <1>5 DEF InsertAndCommit, LockExclusive, Locked, NextIsFree
  <2>2. lock' \in [Accounts -> SUBSET Requests]
    BY <1>5, <2>1 DEF InsertAndCommit
  <2>3. CASE Collides(r)
    BY <1>5, <2>2, <2>3, <1>ans DEF InsertAndCommit, Answers
  <2>4. CASE ~Collides(r)
    <3>1. trades' \in [Ids -> Row \cup {NoRow}]
      BY <1>5, <2>1, <2>4, InsertedType DEF InsertAndCommit
    <3>2. nextId' \in 1..(MaxTrades + 1)
      BY <1>5, <2>4, BoundsAssumption DEF InsertAndCommit
    <3>3. req' \in [Requests -> RequestState]
      <4>1. CASE req[r].kind # "create"
        BY <1>5, <2>4, <4>1, <1>ans DEF InsertAndCommit, Answers
      <4>2. CASE req[r].kind = "create"
        <5>1. nextId \in Ids \cup {0}
          <6>1. req[r].batch # <<>> /\ req[r].batch \in Seq(Fields)
            BY <1>5 DEF InsertAndCommit, LockExclusive, Locked, RequestState
          <6>2. Len(req[r].batch) \in Nat \ {0}
            BY <6>1
          <6> QED BY <1>5, <6>2, BoundsAssumption DEF InsertAndCommit, Ids
        <5>2. [Idle("ok") EXCEPT !.step = "load", !.acc = req[r].acc, !.id = nextId] \in RequestState
          BY <1>idle, <2>1, <5>1 DEF RequestState, Steps
        <5> QED BY <1>5, <2>4, <4>2, <5>2, <1>start DEF InsertAndCommit
      <4> QED BY <4>1, <4>2
    <3> QED BY <2>2, <3>1, <3>2, <3>3
  <2> QED BY <2>3, <2>4
<1>6. ASSUME NEW r \in Requests, NEW i \in Ids, BeginPatch(r, i)
      PROVE  TypeOK'
  <2>1. trades[i].acc \in Accounts
    BY <1>6 DEF BeginPatch, Row
  <2>2. \A p \in Patch, step \in {"load", "exists", "write"} :
          [Idle("ok") EXCEPT !.kind = "patch", !.acc = trades[i].acc, !.id = i, !.patch = p,
                             !.step = step] \in RequestState
    BY <1>idle, <2>1 DEF RequestState, Steps
  <2> QED BY <1>6, <2>2, <1>start DEF BeginPatch
<1>7. ASSUME NEW r \in Requests, CheckExists(r) \/ CheckMerged(r)
      PROVE  TypeOK'
  BY <1>7, <1>ans, <1>goto DEF CheckExists, CheckMerged, Answers, Steps
<1>8. ASSUME NEW r \in Requests, UpdateFields(r)
      PROVE  TypeOK'
  <2>1. CASE Live(req[r].id)
    <3>1. trades' \in [Ids -> Row \cup {NoRow}]
      <4>1. CASE req[r].id \in Ids
        <5>1. trades[req[r].id] \in Row /\ req[r].patch \in Patch
          BY <2>1, <4>1 DEF Live, RequestState
        <5>2. Merged(trades[req[r].id].fields, req[r].patch) \in Fields
          BY <5>1, MergedType DEF Row
        <5> QED BY <1>8, <2>1, <5>1, <5>2 DEF UpdateFields, Row
      <4>2. CASE req[r].id \notin Ids
        BY <1>8, <2>1, <4>2 DEF UpdateFields
      <4> QED BY <4>1, <4>2
    <3> QED BY <1>8, <2>1, <3>1, <1>goto DEF UpdateFields, Steps
  <2>2. CASE ~Live(req[r].id)
    BY <1>8, <2>2, <1>ans DEF UpdateFields, Answers
  <2> QED BY <2>1, <2>2
<1>9. ASSUME NEW r \in Requests, NEW i \in Ids, SoftDelete(r, i)
      PROVE  TypeOK'
  <2>1. trades' \in [Ids -> Row \cup {NoRow}]
    <3>1. trades' = trades \/ trades' = [trades EXCEPT ![i].deleted = TRUE]
      BY <1>9 DEF SoftDelete
    <3>2. trades[i] \in Row
      BY <1>9 DEF SoftDelete
    <3>3. [trades[i] EXCEPT !.deleted = TRUE] \in Row
      BY <3>2 DEF Row
    <3>4. [trades EXCEPT ![i].deleted = TRUE] = [trades EXCEPT ![i] = [trades[i] EXCEPT !.deleted = TRUE]]
      OBVIOUS
    <3> QED BY <3>1, <3>3, <3>4
  <2> QED BY <1>9, <2>1, <1>ans DEF SoftDelete, Answers
<1>10. ASSUME NEW r \in Requests, NEW i \in Ids, Restore(r, i)
       PROVE  TypeOK'
  <2>1. trades[i] \in Row
    BY <1>10 DEF Restore
  <2>2. trades' \in [Ids -> Row \cup {NoRow}]
    <3>1. CASE trades[i].deleted
      <4>1. trades' = [trades EXCEPT ![i] = [trades[i] EXCEPT !.deleted = FALSE]]
        BY <1>10, <3>1 DEF Restore
      <4>2. [trades[i] EXCEPT !.deleted = FALSE] \in Row
        BY <2>1 DEF Row
      <4> QED BY <4>1, <4>2
    <3>2. CASE ~trades[i].deleted
      BY <1>10, <3>2 DEF Restore
    <3> QED BY <3>1, <3>2
  <2>3. [Idle("ok") EXCEPT !.step = "load", !.kind = "restore", !.acc = trades[i].acc, !.id = i]
          \in RequestState
    BY <1>idle, <2>1 DEF RequestState, Steps, Row
  <2> QED BY <1>10, <2>2, <2>3, <1>ans, <1>start DEF Restore, Answers
<1>11. ASSUME NEW r \in Requests, LoadAnswer(r) \/ RawAnswer(r)
       PROVE  TypeOK'
  BY <1>11, <1>ans, <1>goto DEF LoadAnswer, RawAnswer, Answers, Steps
<1>12. ASSUME NEW r \in Requests, Fail(r)
       PROVE  TypeOK'
  BY <1>12, <1>ans DEF Fail, Answers
<1>13. CASE UNCHANGED vars
  BY <1>13 DEF vars
<1> QED
  BY <1>1, <1>2, <1>3, <1>4, <1>5, <1>6, <1>7, <1>8, <1>9, <1>10, <1>11, <1>12, <1>13
  DEF Next, Call, Serve, TableFull
-----------------------------------------------------------------------------
(* Positions.  Most steps neither add a row nor move one.                   *)

SameRows ==
    \A i \in Ids : /\ trades'[i] = NoRow <=> trades[i] = NoRow
                   /\ trades[i] # NoRow => /\ trades'[i].acc = trades[i].acc
                                          /\ trades'[i].stt = trades[i].stt

\* A step that keeps them keeps every sentence about positions alone.
LEMMA SameRowsKeep ==
    ASSUME SameRows, nextId' = nextId
    PROVE  /\ \A a \in Accounts : Of(a)' = Of(a)
           /\ \A i \in Stored : trades'[i].stt = trades[i].stt
           /\ Positions => Positions'
           /\ SttFollowsInsertion => SttFollowsInsertion'
<1>1. Stored' = Stored
  BY DEF SameRows, Stored
<1>2. \A a \in Accounts : Of(a)' = Of(a)
  BY <1>1 DEF SameRows, Of, Stored
<1>3. \A i \in Stored : trades'[i].stt = trades[i].stt
  BY DEF SameRows, Stored
<1>4. \A a \in Accounts : Of(a) \subseteq Stored
  BY DEF Of
<1>5. Positions => Positions'
  BY <1>1, <1>2, <1>3, <1>4 DEF Positions
<1>6. SttFollowsInsertion => SttFollowsInsertion'
  BY <1>2, <1>3, <1>4 DEF SttFollowsInsertion
<1> QED BY <1>2, <1>3, <1>5, <1>6

\* A step of one request outside the transaction: at most it releases a lock.
LEMMA OutsideTransaction ==
    ASSUME TypeOK, SttInv, NEW r \in Requests, SameRows, nextId' = nextId,
           \A s \in Requests \ {r} : req'[s] = req[s],
           \A a \in Accounts : lock'[a] = lock[a] \/ lock'[a] = lock[a] \ {r},
           req'[r].step \notin {"max", "insert"}, req'[r].answer # "conflict",
           req'[r].step = "lock" => req'[r].acc \in Accounts /\ req'[r].batch # <<>>
    PROVE  SttInv'
<1>1. LockExclusive'
  BY DEF SttInv, LockExclusive, Locked
<1>2. NextIsFree'
  <2> SUFFICES ASSUME NEW s \in Requests, req'[s].step = "insert"
               PROVE  /\ req'[s].next # 0
                      /\ \A i \in Of(req[s].acc)' : trades'[i].stt < req'[s].next
                      /\ \A n \in 1..(req'[s].next - 1) :
                            \E i \in Of(req[s].acc)' : trades'[i].stt = n
    BY DEF NextIsFree
  <2>1. s # r /\ req'[s] = req[s]
    OBVIOUS
  <2>2. PICK a \in Accounts : a = req[s].acc /\ a = req'[s].acc
    BY <2>1 DEF SttInv, LockExclusive, Locked
  <2>3. Of(req[s].acc)' = Of(a)' /\ Of(req[s].acc) = Of(a)
    BY <2>2 DEF Of
  <2>4. Of(a)' = Of(a) /\ Of(a) \subseteq Stored
    BY SameRowsKeep DEF Of
  <2> QED BY <2>1, <2>3, <2>4, SameRowsKeep DEF SttInv, NextIsFree
<1>3. NoSttConflict'
  BY DEF SttInv, NoSttConflict
<1> QED BY <1>1, <1>2, <1>3, SameRowsKeep DEF SttInv

\* Taking the lock: nobody else is between SELECT FOR UPDATE and COMMIT.
LEMMA LockKeeps ==
    ASSUME TypeOK, SttInv, NEW r \in Requests, LockAccount(r)
    PROVE  SttInv'
<1> DEFINE a == req[r].acc
<1>1. a \in Accounts /\ req[r].batch # <<>> /\ lock[a] = {} /\ UNCHANGED <<trades, nextId>>
  BY DEF LockAccount, SttInv, LockExclusive
<1>2. /\ req'[r] = [req[r] EXCEPT !.step = "max"]
      /\ \A s \in Requests \ {r} : req'[s] = req[s]
      /\ lock' = [lock EXCEPT ![a] = {r}]
  BY DEF LockAccount, Goto, Start, TypeOK
<1>3. /\ req'[r].step = "max" /\ req'[r].acc = a /\ req'[r].batch = req[r].batch
      /\ req'[r].answer = req[r].answer
  BY <1>2 DEF TypeOK, RequestState
<1>4. LockExclusive'
  <2>1. \A b \in Accounts : lock'[b] = IF b = a THEN {r} ELSE lock[b]
    BY <1>1, <1>2 DEF TypeOK
  <2>2. \A b \in Accounts : \A s, t \in lock'[b] : s = t
    BY <2>1 DEF SttInv, LockExclusive
  <2>3. ASSUME NEW s \in Requests, Locked(s)'
        PROVE  s \in lock'[req'[s].acc]
    <3>1. CASE s = r
      BY <1>1, <1>3, <2>1, <3>1
    <3>2. CASE s # r
      <4>1. req'[s] = req[s] /\ Locked(s)
        BY <1>2, <2>3, <3>2 DEF Locked
      <4>2. s \in lock[req[s].acc] /\ req[s].acc \in Accounts
        BY <4>1 DEF SttInv, LockExclusive
      <4> QED BY <1>1, <2>1, <4>1, <4>2
    <3> QED BY <3>1, <3>2
  <2>4. ASSUME NEW s \in Requests, (Locked(s) \/ req[s].step = "lock")'
        PROVE  req'[s].acc \in Accounts /\ req'[s].batch # <<>>
    BY <1>1, <1>2, <1>3, <2>4 DEF SttInv, LockExclusive, Locked
  <2> QED BY <2>2, <2>3, <2>4 DEF LockExclusive
<1>5. SameRows
  BY <1>1 DEF SameRows
<1>6. NextIsFree'
  <2>1. \A s \in Requests : req'[s].step = "insert" => s # r /\ req'[s] = req[s]
    BY <1>2, <1>3
  <2>2. \A s \in Requests : req'[s] = req[s] => Of(req[s].acc)' = Of(req[s].acc)
    BY <1>1 DEF Of, Stored
  <2> QED BY <1>1, <2>1, <2>2 DEF SttInv, NextIsFree
<1>7. NoSttConflict'
  BY <1>2, <1>3 DEF SttInv, NoSttConflict
<1> QED BY <1>1, <1>4, <1>5, <1>6, <1>7, SameRowsKeep DEF SttInv

\* Reading max(stt) under the lock finds the first free position.
LEMMA ReadMaxKeeps ==
    ASSUME TypeOK, SttInv, NEW r \in Requests, ReadMaxStt(r)
    PROVE  SttInv'
<1> DEFINE a == req[r].acc
<1>1. a \in Accounts /\ req[r].step = "max" /\ UNCHANGED <<trades, nextId, lock>>
  BY DEF ReadMaxStt, SttInv, LockExclusive, Locked
<1>2. /\ req'[r] = [req[r] EXCEPT !.step = "insert", !.next = MaxStt(a) + 1]
      /\ \A s \in Requests \ {r} : req'[s] = req[s]
  BY DEF ReadMaxStt, Start, TypeOK
<1>3. /\ req'[r].step = "insert" /\ req'[r].acc = a /\ req'[r].batch = req[r].batch
      /\ req'[r].answer = req[r].answer /\ req'[r].next = MaxStt(a) + 1
  BY <1>2 DEF TypeOK, RequestState
<1>4. LockExclusive'
  <2>1. \A s \in Requests :
          /\ Locked(s)' <=> Locked(s)
          /\ req'[s].step = "lock" <=> req[s].step = "lock"
          /\ req'[s].acc = req[s].acc /\ req'[s].batch = req[s].batch
    BY <1>1, <1>2, <1>3 DEF Locked
  <2> QED BY <1>1, <2>1 DEF SttInv, LockExclusive
<1>5. /\ MaxStt(a) \in Nat
      /\ \A i \in Of(a) : trades[i].stt \in Nat \ {0} /\ trades[i].stt <= MaxStt(a)
      /\ MaxStt(a) # 0 => \E i \in Of(a) : trades[i].stt = MaxStt(a)
  BY <1>1, MaxSttFacts DEF SttInv, TypeOK, Of, Stored, Row
<1>6. \A n \in 1..MaxStt(a) : \E i \in Of(a) : trades[i].stt = n
  BY <1>1, <1>5 DEF SttInv, Positions
<1>7. NextIsFree'
  <2> SUFFICES ASSUME NEW s \in Requests, req'[s].step = "insert"
               PROVE  /\ req'[s].next # 0
                      /\ \A i \in Of(req[s].acc)' : trades'[i].stt < req'[s].next
                      /\ \A n \in 1..(req'[s].next - 1) :
                            \E i \in Of(req[s].acc)' : trades'[i].stt = n
    BY DEF NextIsFree
  <2>1. Of(req[s].acc)' = Of(req[s].acc)
    <3>1. req'[s].acc = req[s].acc
      BY <1>2, <1>3
    <3> QED BY <1>1, <3>1 DEF Of, Stored
  <2>2. CASE s = r
    <3>1. \A i \in Of(a) : trades[i].stt < MaxStt(a) + 1
      BY <1>5
    <3>2. 1..(MaxStt(a) + 1 - 1) = 1..MaxStt(a)
      BY <1>5
    <3> QED BY <1>1, <1>3, <1>5, <1>6, <2>1, <2>2, <3>1, <3>2
  <2>3. CASE s # r
    BY <1>1, <1>2, <2>1, <2>3 DEF SttInv, NextIsFree
  <2> QED BY <2>2, <2>3
<1>8. NoSttConflict'
  <2>1. \A s \in Requests : req[s].answer # "conflict"
    BY DEF SttInv, NoSttConflict
  <2>2. ASSUME NEW s \in Requests PROVE req'[s].answer # "conflict"
    <3>1. req[s].answer # "conflict" /\ req[r].answer # "conflict"
      BY <2>1
    <3>2. CASE s = r
      BY <1>3, <3>1, <3>2
    <3>3. CASE s # r
      BY <1>2, <3>1, <3>3
    <3> QED BY <3>2, <3>3
  <2> QED BY <2>2 DEF NoSttConflict
<1>9. SameRows
  BY <1>1 DEF SameRows
<1> QED BY <1>1, <1>4, <1>7, <1>8, <1>9, SameRowsKeep DEF SttInv

\* What an insert does to the table: the batch of k rows gets the next ids and
\* the positions from n on, right after the last one, in the order of the file;
\* the index refuses nothing, and all other rows stay.
InsertsRows(r, a, n, k, New) ==
    /\ a \in Accounts /\ req[r].step = "insert" /\ r \in lock[a] /\ n \in Nat \ {0}
    /\ k \in Nat \ {0} /\ nextId \in Nat \ {0} /\ nextId + k - 1 <= MaxTrades
    /\ New = nextId..(nextId + k - 1)
    /\ \A i \in Of(a) : trades[i].stt \in Nat \ {0} /\ trades[i].stt < n
    /\ \A m \in 1..(n - 1) : \E i \in Of(a) : trades[i].stt = m
    /\ ~Collides(r)
    /\ trades' = [i \in Ids |-> IF i \in New THEN Inserted(r)[i] ELSE trades[i]]
    /\ nextId' = nextId + k
    /\ lock' = [lock EXCEPT ![a] = @ \ {r}]
    /\ New \subseteq Ids
    /\ \A i \in New : trades'[i] # NoRow /\ trades'[i].acc = a /\ trades'[i].stt = n + (i - nextId)
    /\ \A i \in Ids \ New : trades'[i] = trades[i]
    /\ \A i \in Stored : i \notin New /\ i \in Ids /\ i < nextId
    /\ Of(a)' = Of(a) \cup New
    /\ \A b \in Accounts \ {a} : Of(b)' = Of(b)

\* That is what InsertAndCommit does while the positions' invariant holds.
LEMMA InsertEffect ==
    ASSUME TypeOK, SttInv, NEW r \in Requests, InsertAndCommit(r),
           NEW a, a = req[r].acc, NEW n, n = req[r].next, NEW k, k = Len(req[r].batch),
           NEW New, New = nextId..(nextId + k - 1)
    PROVE  InsertsRows(r, a, n, k, New)
<1>1. /\ a \in Accounts /\ req[r].step = "insert" /\ r \in lock[a] /\ n \in Nat \ {0}
      /\ k \in Nat \ {0} /\ nextId \in Nat \ {0} /\ nextId + k - 1 <= MaxTrades
  <2>1. req[r].batch \in Seq(Fields) /\ req[r].batch # <<>> /\ req[r].next \in Nat
    BY DEF InsertAndCommit, TypeOK, RequestState, SttInv, LockExclusive, Locked
  <2>2. k \in Nat \ {0}
    BY <2>1
  <2> QED BY <2>1, <2>2 DEF InsertAndCommit, TypeOK, SttInv, LockExclusive, Locked, NextIsFree
<1>2. /\ \A i \in Of(a) : trades[i].stt \in Nat \ {0} /\ trades[i].stt < n
      /\ \A m \in 1..(n - 1) : \E i \in Of(a) : trades[i].stt = m
  BY <1>1 DEF SttInv, NextIsFree, TypeOK, Of, Stored, Row
<1>3. ~Collides(r)
  BY <1>1, <1>2 DEF Collides
<1>4. /\ trades' = [i \in Ids |-> IF i \in New THEN Inserted(r)[i] ELSE trades[i]]
      /\ nextId' = nextId + k
      /\ lock' = [lock EXCEPT ![a] = @ \ {r}]
      /\ New \subseteq Ids
  <2>1. DOMAIN Inserted(r) = New
    BY DEF Inserted
  <2>2. New \subseteq Ids
    BY <1>1, BoundsAssumption DEF Ids
  <2> QED BY <1>3, <2>1, <2>2 DEF InsertAndCommit
<1>5. \A i \in New : trades'[i] # NoRow /\ trades'[i].acc = a /\ trades'[i].stt = n + (i - nextId)
  <2> TAKE i \in New
  <2>1. trades'[i] = [acc |-> a, stt |-> n + (i - nextId), deleted |-> FALSE,
                      fields |-> req[r].batch[i - nextId + 1]]
    BY <1>4 DEF Inserted
  <2>2. trades'[i].stt = n + (i - nextId) /\ NoRow.stt = 0
    BY <2>1 DEF NoRow
  <2>3. n + (i - nextId) # 0
    BY <1>1
  <2> QED BY <2>1, <2>2, <2>3
<1>6. \A i \in Ids \ New : trades'[i] = trades[i]
  BY <1>4
<1>7. \A i \in Stored : i \notin New /\ i \in Ids /\ i < nextId
  BY <1>1 DEF SttInv, Positions, Stored, Ids
<1>8. Of(a)' = Of(a) \cup New
  <2>1. \A i \in Ids : i \in Of(a)' <=> trades'[i] # NoRow /\ trades'[i].acc = a
    BY DEF Of, Stored
  <2>2. \A i \in Ids : i \in Of(a) <=> trades[i] # NoRow /\ trades[i].acc = a
    BY DEF Of, Stored
  <2>3. \A i \in Ids : i \in Of(a)' <=> i \in Of(a) \/ i \in New
    BY <1>5, <1>6, <1>7, <2>1, <2>2 DEF Stored
  <2>4. Of(a) \subseteq Ids /\ Of(a)' \subseteq Ids
    BY DEF Of, Stored
  <2> QED BY <2>3, <2>4, <1>4
<1>9. \A b \in Accounts \ {a} : Of(b)' = Of(b)
  BY <1>4, <1>5, <1>6, <1>7 DEF Of, Stored
<1> QED BY <1>1, <1>2, <1>3, <1>4, <1>5, <1>6, <1>7, <1>8, <1>9 DEF InsertsRows

\* Inserting keeps the invariant; no other transaction is on the account.
LEMMA InsertKeeps ==
    ASSUME TypeOK, SttInv, NEW r \in Requests, InsertAndCommit(r)
    PROVE  SttInv'
<1>0. PICK a, n, k, New :
        /\ a = req[r].acc /\ n = req[r].next /\ k = Len(req[r].batch)
        /\ New = nextId..(nextId + k - 1)
  OBVIOUS
<1>eff. InsertsRows(r, a, n, k, New)
  BY <1>0, InsertEffect
<1>1. /\ a \in Accounts /\ req[r].step = "insert" /\ r \in lock[a] /\ n \in Nat \ {0}
      /\ k \in Nat \ {0} /\ nextId \in Nat \ {0} /\ nextId + k - 1 <= MaxTrades
      /\ New = nextId..(nextId + k - 1)
  BY <1>eff DEF InsertsRows
<1>2. /\ \A i \in Of(a) : trades[i].stt \in Nat \ {0} /\ trades[i].stt < n
      /\ \A m \in 1..(n - 1) : \E i \in Of(a) : trades[i].stt = m
  BY <1>eff DEF InsertsRows
<1>3. ~Collides(r)
  BY <1>eff DEF InsertsRows
<1>4. nextId' = nextId + k /\ lock' = [lock EXCEPT ![a] = @ \ {r}] /\ New \subseteq Ids
  BY <1>eff DEF InsertsRows
<1>5. \A i \in New : trades'[i] # NoRow /\ trades'[i].acc = a /\ trades'[i].stt = n + (i - nextId)
  BY <1>eff DEF InsertsRows
<1>6. \A i \in Ids \ New : trades'[i] = trades[i]
  BY <1>eff DEF InsertsRows
<1>7. \A i \in Stored : i \notin New /\ i \in Ids /\ i < nextId
  BY <1>eff DEF InsertsRows
<1>8. Of(a)' = Of(a) \cup New
  BY <1>eff DEF InsertsRows
<1>9. \A b \in Accounts \ {a} : Of(b)' = Of(b)
  BY <1>eff DEF InsertsRows
<1>10. Of(a) \subseteq Stored /\ \A b \in Accounts : \A i \in Of(b) : i \in Ids \ New /\ i < nextId
  BY <1>7 DEF Of
<1>11. Positions'
  <2>1. \A i \in Stored' : i < nextId'
    <3>1. Stored' = Stored \cup New
      BY <1>4, <1>5, <1>6, <1>7 DEF Stored
    <3> QED BY <3>1, <1>1, <1>4, <1>7 DEF Stored, Ids
  <2>2. ASSUME NEW b \in Accounts
        PROVE  /\ Of(b)' # {} => \E i \in Of(b)' : \A j \in Of(b)' : trades'[j].stt <= trades'[i].stt
               /\ \A i \in Of(b)' : \A m \in 1..trades'[i].stt : \E j \in Of(b)' : trades'[j].stt = m
    <3>1. CASE b # a
      BY <3>1, <1>6, <1>9, <1>10 DEF SttInv, Positions
    <3>2. CASE b = a
      <4>1. ASSUME NEW j \in Of(a)'
            PROVE  trades'[j].stt <= trades'[nextId + k - 1].stt
        <5>1. nextId + k - 1 \in New
          BY <1>1
        <5>2. trades'[nextId + k - 1].stt = n + k - 1
          <6>1. trades'[nextId + k - 1].stt = n + ((nextId + k - 1) - nextId)
            BY <1>5, <5>1, Zenon
          <6>2. n + ((nextId + k - 1) - nextId) = n + k - 1
            BY <1>1
          <6> QED BY <6>1, <6>2
        <5>3. CASE j \in Of(a)
          <6>1. trades'[j] = trades[j] /\ trades[j].stt \in Nat /\ trades[j].stt < n
            BY <1>2, <1>6, <1>10, <5>3, <1>1
          <6> QED BY <1>1, <5>2, <6>1
        <5>4. CASE j \in New
          <6>1. trades'[j].stt = n + (j - nextId)
            BY <1>5, <5>4
          <6> QED BY <1>1, <5>2, <5>4, <6>1
        <5> QED BY <1>8, <5>3, <5>4
      <4>2. nextId + k - 1 \in Of(a)'
        BY <1>1, <1>8
      <4>3. ASSUME NEW i \in Of(a)', NEW m \in 1..trades'[i].stt
            PROVE  \E j \in Of(a)' : trades'[j].stt = m
        <5>1. CASE m < n
          <6>1. PICK j \in Of(a) : trades[j].stt = m
            BY <1>1, <1>2, <5>1
          <6>2. j \in Of(a)' /\ trades'[j] = trades[j]
            BY <1>1, <1>6, <1>8, <1>10
          <6> QED BY <6>1, <6>2
        <5>2. CASE m >= n
          <6>1. i \in New
            <7>1. CASE i \in Of(a)
              <8>1. trades'[i].stt \in Nat /\ trades'[i].stt < n
                BY <1>1, <1>2, <1>6, <1>10, <7>1
              <8> QED BY <1>1, <5>2, <8>1
            <7> QED BY <1>8, <7>1
          <6>2. trades'[i].stt = n + (i - nextId)
            BY <1>5, <6>1
          <6>3. nextId + (m - n) \in New
            <7>1. i \in Int /\ nextId <= i /\ i <= nextId + k - 1 /\ m \in Int /\ m <= n + (i - nextId)
              BY <1>1, <6>1, <6>2
            <7>2. n \in Int /\ k \in Int /\ nextId \in Int /\ n <= m
              BY <1>1, <5>2
            <7>3. m - n \in Int /\ 0 <= m - n /\ m - n <= k - 1
              BY <7>1, <7>2
            <7> QED BY <1>1, <7>2, <7>3
          <6>4. PICK j \in New : j = nextId + (m - n)
            BY <6>3
          <6>5. trades'[j].stt = n + (j - nextId)
            BY <1>5
          <6>6. n + (j - nextId) = m
            BY <1>1, <6>4
          <6> QED BY <6>4, <6>5, <6>6, <1>8
        <5>3. trades'[i].stt \in Nat
          <6>1. CASE i \in Of(a)
            BY <6>1, <1>1, <1>2, <1>6, <1>10
          <6>2. CASE i \in New
            BY <6>2, <1>1, <1>5
          <6> QED BY <6>1, <6>2, <1>8
        <5> QED BY <5>1, <5>2, <5>3, <1>1
      <4> QED BY <3>2, <4>1, <4>2, <4>3
    <3> QED BY <3>1, <3>2
  <2> QED BY <2>1, <2>2 DEF Positions
<1>12. SttFollowsInsertion'
  <2> SUFFICES ASSUME NEW b \in Accounts, NEW i \in Of(b)', NEW j \in Of(b)', i < j
               PROVE  trades'[i].stt < trades'[j].stt
    BY DEF SttFollowsInsertion
  <2>1. CASE b # a
    BY <2>1, <1>6, <1>9, <1>10 DEF SttInv, SttFollowsInsertion
  <2>2. CASE b = a /\ i \in Of(a) /\ j \in Of(a)
    BY <2>2, <1>6, <1>10, <1>1 DEF SttInv, SttFollowsInsertion
  <2>3. CASE b = a /\ i \in Of(a) /\ j \in New
    <3>1. trades'[i] = trades[i] /\ trades[i].stt \in Nat /\ trades[i].stt < n
      BY <2>3, <1>1, <1>2, <1>6, <1>10
    <3>2. trades'[j].stt = n + (j - nextId) /\ j - nextId \in Nat
      BY <2>3, <1>1, <1>5
    <3> QED BY <3>1, <3>2, <1>1
  <2>4. CASE b = a /\ i \in New /\ j \in New
    BY <2>4, <1>1, <1>5
  <2>5. CASE b = a /\ i \in New /\ j \in Of(a)
    <3>1. j < nextId /\ j \in Nat /\ i >= nextId /\ i \in Nat
      <4>1. j \in Ids /\ j < nextId
        BY <2>5, <1>10
      <4>2. i \in Int /\ nextId <= i
        BY <2>5, <1>1
      <4> QED BY <4>1, <4>2, <1>1, BoundsAssumption DEF Ids
    <3> QED BY <3>1, <1>1
  <2>6. b = a => i \in Of(a) \cup New /\ j \in Of(a) \cup New
    BY <1>8
  <2> QED BY <2>1, <2>2, <2>3, <2>4, <2>5, <2>6
<1>13. /\ req'[r].step \in {"idle", "load"} /\ req'[r].answer # "conflict"
       /\ \A s \in Requests \ {r} : req'[s] = req[s]
  <2>1. PICK st \in {Idle("ok"), [Idle("ok") EXCEPT !.step = "load", !.acc = a, !.id = nextId]} :
          req' = [req EXCEPT ![r] = st]
    BY <1>0, <1>3 DEF InsertAndCommit, Answer, Start
  <2>2. st.step \in {"idle", "load"} /\ st.answer # "conflict"
    <3>1. Idle("ok").step = "idle" /\ Idle("ok").answer = "ok"
      BY DEF Idle
    <3>2. LET load == [Idle("ok") EXCEPT !.step = "load", !.acc = a, !.id = nextId]
          IN  load.step = "load" /\ load.answer = "ok"
      BY DEF Idle
    <3> QED BY <3>1, <3>2
  <2> QED BY <2>1, <2>2 DEF TypeOK
<1>14. LockExclusive'
  BY <1>1, <1>4, <1>13 DEF SttInv, LockExclusive, Locked, TypeOK
<1>15. NextIsFree'
  <2> SUFFICES ASSUME NEW s \in Requests, req'[s].step = "insert"
               PROVE  /\ req'[s].next # 0
                      /\ \A i \in Of(req[s].acc)' : trades'[i].stt < req'[s].next
                      /\ \A m \in 1..(req'[s].next - 1) :
                            \E i \in Of(req[s].acc)' : trades'[i].stt = m
    BY DEF NextIsFree
  <2>1. s # r /\ req'[s] = req[s]
    BY <1>13
  <2>2. PICK b \in Accounts : b = req[s].acc /\ b = req'[s].acc /\ s \in lock[b]
    BY <2>1 DEF SttInv, LockExclusive, Locked
  <2>3. b # a
    BY <1>1, <2>1, <2>2 DEF SttInv, LockExclusive
  <2>4. Of(req[s].acc)' = Of(b)' /\ Of(req[s].acc) = Of(b)
    BY <2>2 DEF Of
  <2> QED BY <2>1, <2>3, <2>4, <1>6, <1>9, <1>10 DEF SttInv, NextIsFree
<1>16. NoSttConflict'
  BY <1>13 DEF SttInv, NoSttConflict
<1> QED BY <1>11, <1>12, <1>14, <1>15, <1>16 DEF SttInv

-----------------------------------------------------------------------------
(* The inductive invariant and what follows from it.                       *)

\* With no trade and no transaction the positions' invariant holds.
LEMMA InitSttInv == Init => SttInv
  BY DEF Init, SttInv, LockExclusive, Locked, NextIsFree, Positions, SttFollowsInsertion,
         NoSttConflict, Idle, Of, Stored

\* Every step keeps it; only locking, reading max(stt) and inserting can
\* disturb it.
LEMMA NextSttInv ==
    ASSUME TypeOK, TypeOK', SttInv, [Next]_vars
    PROVE  SttInv'
<1>same. UNCHANGED trades => SameRows
  BY DEF SameRows
<1>idle. \A what : Idle(what).step = "idle" /\ Idle(what).answer = what
  BY DEF Idle
<1>start. ASSUME NEW r \in Requests, NEW st, Start(r, st)
          PROVE  req'[r] = st /\ \A s \in Requests \ {r} : req'[s] = req[s]
  BY <1>start DEF Start, TypeOK
\* A request that answers, or goes on to a step outside the transaction.
<1>ans. ASSUME NEW r \in Requests, NEW what \in Answers \ {"conflict"}, Answer(r, what),
               SameRows, nextId' = nextId,
               \A a \in Accounts : lock'[a] = lock[a] \/ lock'[a] = lock[a] \ {r}
        PROVE  SttInv'
  BY <1>ans, <1>start, <1>idle, OutsideTransaction DEF Answer
<1>goto. ASSUME NEW r \in Requests, NEW step \in {"merge", "write", "load", "raw"}, Goto(r, step),
                SameRows, nextId' = nextId, lock' = lock
         PROVE  SttInv'
  <2>1. req'[r].step = step /\ req'[r].answer = req[r].answer
    BY <1>goto, <1>start DEF Goto, TypeOK, RequestState
  <2>2. req[r].answer # "conflict"
    BY DEF SttInv, NoSttConflict
  <2> QED BY <1>goto, <1>start, <2>1, <2>2, OutsideTransaction DEF Goto
<1>1. ASSUME NEW r \in Requests, NEW a \in Accounts, BeginCreate(r, a)
      PROVE  SttInv'
  <2>1. PICK f \in Fields :
          \/ Answer(r, "refused")
          \/ Start(r, [Idle("ok") EXCEPT !.step = "lock", !.acc = a, !.batch = <<f>>])
    BY <1>1 DEF BeginCreate
  <2>2. LET st == [Idle("ok") EXCEPT !.step = "lock", !.acc = a, !.batch = <<f>>]
        IN  st.step = "lock" /\ st.acc = a /\ st.batch # <<>> /\ st.answer = "ok"
    BY DEF Idle
  <2>3. UNCHANGED <<trades, nextId, lock>>
    BY <1>1 DEF BeginCreate
  <2>4. CASE Answer(r, "refused")
    BY <2>3, <2>4, <1>ans, <1>same DEF Answers
  <2>5. CASE Start(r, [Idle("ok") EXCEPT !.step = "lock", !.acc = a, !.batch = <<f>>])
    <3> DEFINE st == [Idle("ok") EXCEPT !.step = "lock", !.acc = a, !.batch = <<f>>]
    <3>1. req'[r] = st /\ \A s \in Requests \ {r} : req'[s] = req[s]
      BY <2>5, <1>start
    <3>2. st.step = "lock" /\ st.acc = a /\ st.batch # <<>> /\ st.answer = "ok"
      BY <2>2
    <3> HIDE DEF st
    <3>3. SameRows /\ nextId' = nextId /\ lock' = lock
      BY <2>3, <1>same
    <3> QED BY <3>1, <3>2, <3>3, OutsideTransaction
  <2> QED BY <2>1, <2>4, <2>5
<1>2. ASSUME NEW r \in Requests, NEW a \in Accounts, BeginImport(r, a)
      PROVE  SttInv'
  <2>1. PICK batch \in BoundedSeq(Fields, MaxBatch) :
          \/ Answer(r, "ok")
          \/ /\ batch # <<>>
             /\ Start(r, [Idle("ok") EXCEPT !.step = "lock", !.kind = "import", !.acc = a,
                                            !.batch = batch])
    BY <1>2 DEF BeginImport
  <2>2. LET st == [Idle("ok") EXCEPT !.step = "lock", !.kind = "import", !.acc = a, !.batch = batch]
        IN  st.step = "lock" /\ st.acc = a /\ st.batch = batch /\ st.answer = "ok"
    BY DEF Idle
  <2>3. UNCHANGED <<trades, nextId, lock>>
    BY <1>2 DEF BeginImport
  <2>4. CASE Answer(r, "ok")
    BY <2>3, <2>4, <1>ans, <1>same DEF Answers
  <2>5. CASE batch # <<>> /\ Start(r, [Idle("ok") EXCEPT !.step = "lock", !.kind = "import", !.acc = a,
                                                      !.batch = batch])
    <3> DEFINE st == [Idle("ok") EXCEPT !.step = "lock", !.kind = "import", !.acc = a,
                                        !.batch = batch]
    <3>1. st.step = "lock" /\ st.acc = a /\ st.batch # <<>> /\ st.answer = "ok"
      BY <2>2, <2>5
    <3> HIDE DEF st
    <3>2. req'[r] = st /\ \A s \in Requests \ {r} : req'[s] = req[s]
      BY <2>5, <1>start DEF st
    <3> QED BY <2>3, <3>1, <3>2, <1>same, OutsideTransaction
  <2> QED BY <2>1, <2>4, <2>5
<1>3. ASSUME NEW r \in Requests, LockAccount(r) \/ ReadMaxStt(r) \/ InsertAndCommit(r)
      PROVE  SttInv'
  BY <1>3, LockKeeps, ReadMaxKeeps, InsertKeeps
<1>4. ASSUME NEW r \in Requests, NEW i \in Ids, BeginPatch(r, i)
      PROVE  SttInv'
  <2>1. PICK p \in Patch, step \in {"load", "exists", "write"} :
          Start(r, [Idle("ok") EXCEPT !.kind = "patch", !.acc = trades[i].acc, !.id = i, !.patch = p,
                                      !.step = step])
    BY <1>4 DEF BeginPatch
  <2>2. LET st == [Idle("ok") EXCEPT !.kind = "patch", !.acc = trades[i].acc, !.id = i, !.patch = p,
                                     !.step = step]
        IN  st.step = step /\ st.answer = "ok"
    BY DEF Idle
  <2>3. UNCHANGED <<trades, nextId, lock>>
    BY <1>4 DEF BeginPatch
  <2> QED BY <2>1, <2>2, <2>3, <1>start, <1>same, OutsideTransaction
<1>5. ASSUME NEW r \in Requests, CheckExists(r) \/ CheckMerged(r) \/ LoadAnswer(r) \/ RawAnswer(r)
      PROVE  SttInv'
  BY <1>5, <1>same, <1>ans, <1>goto DEF CheckExists, CheckMerged, LoadAnswer, RawAnswer, Answers
<1>6. ASSUME NEW r \in Requests, UpdateFields(r)
      PROVE  SttInv'
  <2>1. SameRows /\ UNCHANGED <<nextId, lock>>
    BY <1>6 DEF UpdateFields, SameRows, TypeOK, Live, Row, NoRow
  <2> QED BY <1>6, <2>1, <1>ans, <1>goto DEF UpdateFields, Answers
<1>7. ASSUME NEW r \in Requests, NEW i \in Ids, SoftDelete(r, i)
      PROVE  SttInv'
  <2>1. SameRows /\ UNCHANGED <<nextId, lock>>
    BY <1>7 DEF SoftDelete, SameRows, TypeOK, Live, Row, NoRow
  <2> QED BY <1>7, <2>1, <1>ans DEF SoftDelete, Answers
<1>8. ASSUME NEW r \in Requests, NEW i \in Ids, Restore(r, i)
      PROVE  SttInv'
  <2>1. SameRows /\ UNCHANGED <<nextId, lock>>
    BY <1>8 DEF Restore, SameRows, TypeOK, Row, NoRow
  <2>2. LET st == [Idle("ok") EXCEPT !.step = "load", !.kind = "restore",
                                     !.acc = trades[i].acc, !.id = i]
        IN  st.step = "load" /\ st.answer = "ok"
    BY DEF Idle
  <2> QED BY <1>8, <2>1, <2>2, <1>ans, <1>start, OutsideTransaction DEF Restore, Answers
<1>9. ASSUME NEW r \in Requests, Fail(r)
      PROVE  SttInv'
  <2>1. \A a \in Accounts : lock'[a] = lock[a] \/ lock'[a] = lock[a] \ {r}
    BY <1>9 DEF Fail, TypeOK
  <2> QED BY <1>9, <2>1, <1>ans, <1>same DEF Fail, Answers
<1>10. CASE UNCHANGED vars
  BY <1>10 DEF vars, SttInv, LockExclusive, Locked, NextIsFree, Positions, SttFollowsInsertion,
               NoSttConflict, Of, Stored
<1> QED
  BY <1>1, <1>2, <1>3, <1>4, <1>5, <1>6, <1>7, <1>8, <1>9, <1>10
  DEF Next, Call, Serve, TableFull

\* Type correctness and the positions' invariant hold in every reachable
\* state, for any number of accounts, concurrent requests and rows.
THEOREM JournalInvariant == Spec => [](TypeOK /\ SttInv)
<1>1. Init => TypeOK /\ SttInv
  BY InitTypeOK, InitSttInv
<1>2. TypeOK /\ SttInv /\ [Next]_vars => (TypeOK /\ SttInv)'
  BY NextTypeOK, NextSttInv DEF SttInv
<1> QED BY <1>1, <1>2, PTL DEF Spec

\* Every reachable state is well typed: ids, rows, lock holders and the local
\* variables of every request.
THEOREM TypeCorrect == Spec => []TypeOK
  BY JournalInvariant, PTL

\* The UNIQUE index on (account_id, stt) never refuses an insert.
THEOREM NoConflictEver == Spec => []NoSttConflict
<1>1. SttInv => NoSttConflict
  BY DEF SttInv
<1> QED BY <1>1, JournalInvariant, PTL

\* Positions follow the order in which trades were inserted.
THEOREM InsertionOrder == Spec => []SttFollowsInsertion
<1>1. SttInv => SttFollowsInsertion
  BY DEF SttInv
<1> QED BY <1>1, JournalInvariant, PTL

\* The positions of an account are exactly 1 .. max(stt), each used once.
THEOREM DensePositions == Spec => []SttDense
<1>1. TypeOK /\ SttInv => SttDense
  <2> SUFFICES ASSUME TypeOK, SttInv, NEW a \in Accounts
               PROVE  /\ \A i, j \in Of(a) : i # j => trades[i].stt # trades[j].stt
                      /\ {trades[i].stt : i \in Of(a)} = 1..MaxStt(a)
    BY DEF SttDense
  <2>1. \A i \in Of(a) : i \in Nat /\ trades[i].stt \in Nat \ {0}
    BY BoundsAssumption DEF TypeOK, Of, Stored, Row, Ids
  <2>2. \A i, j \in Of(a) : i # j => trades[i].stt # trades[j].stt
    BY <2>1 DEF SttInv, SttFollowsInsertion
  <2>3. \A i \in Of(a) : trades[i].stt \in 1..MaxStt(a)
    BY <2>1, MaxSttFacts DEF SttInv
  <2>4. \A n \in 1..MaxStt(a) : \E i \in Of(a) : trades[i].stt = n
    BY <2>1, MaxSttFacts DEF SttInv, Positions
  <2> QED BY <2>2, <2>3, <2>4
<1> QED BY <1>1, JournalInvariant, PTL

\* A trade in the trash is never written: neither a racing PATCH nor an
\* import nor a restore changes the values it was deleted with.
THEOREM TrashStaysFrozen == Spec => TrashFrozen
<1> DEFINE Frozen == \A i \in Ids : i \in Stored /\ ~Live(i) => trades'[i].fields = trades[i].fields
<1>1. TypeOK /\ SttInv /\ [Next]_vars => [Frozen]_vars
  <2> SUFFICES ASSUME TypeOK, SttInv, Next, NEW i \in Ids, i \in Stored, ~Live(i)
               PROVE  trades'[i].fields = trades[i].fields
    OBVIOUS
  <2>1. trades[i] \in Row /\ trades[i].deleted /\ i < nextId
    BY DEF TypeOK, Stored, Live, SttInv, Positions
  <2>2. ASSUME NEW r \in Requests, InsertAndCommit(r)
        PROVE  trades'[i].fields = trades[i].fields
    <3>1. i \notin DOMAIN Inserted(r)
      BY <2>1, BoundsAssumption DEF Inserted, Ids, TypeOK
    <3> QED BY <2>2, <3>1 DEF InsertAndCommit
  <2>3. ASSUME NEW r \in Requests, UpdateFields(r)
        PROVE  trades'[i].fields = trades[i].fields
    BY <2>3, <2>1 DEF UpdateFields, Live, TypeOK
  <2>4. ASSUME NEW r \in Requests, NEW j \in Ids, SoftDelete(r, j) \/ Restore(r, j)
        PROVE  trades'[i].fields = trades[i].fields
    BY <2>4, <2>1 DEF SoftDelete, Restore, Live, TypeOK, Row
  <2> QED
    BY <2>2, <2>3, <2>4
    DEF Next, Call, Serve, TableFull, Fail, BeginCreate, BeginImport, BeginPatch, LockAccount,
        ReadMaxStt, CheckExists, CheckMerged, LoadAnswer, RawAnswer
<1> QED BY <1>1, JournalInvariant, PTL DEF Spec, TrashFrozen

-----------------------------------------------------------------------------
(* Times: the rule closed_at >= entered_at is checked on values read before *)
(* the UPDATE.  It holds as long as no two PATCH requests are in flight     *)
(* together, whatever creates, imports, deletes and restores do beside it.  *)

\* What the stored times rest on: at most one PATCH runs, rows on their way
\* into the table are valid ...
OnePatch == \A r, s \in Patching : r = s
BatchesValid ==
    \A r \in Requests : req[r].step \in {"lock", "max", "insert"} =>
        \A k \in DOMAIN req[r].batch : ValidTrade(req[r].batch[k])
\* ... and what a PATCH found by its merged check is still so when it writes.
PatchesChecked ==
    \A r \in Requests : req[r].step \in {"exists", "merge", "write"} =>
        /\ req[r].kind = "patch"
        /\ req[r].id \in Stored
        /\ req[r].step = "write" /\ SendsTimes(req[r].patch)
              => ValidTrade(Merged(trades[req[r].id].fields, req[r].patch))
TimesInv == ClosedAfterEntered /\ OnePatch /\ BatchesValid /\ PatchesChecked

\* A patch without times leaves them as they are.
LEMMA MergedSame ==
    ASSUME NEW f \in Fields, NEW p \in Patch, ~SendsTimes(p)
    PROVE  Merged(f, p) = f
  BY DEF Fields, Merged, SendsTimes

\* A step of one request that writes no times, and takes it into no step of a
\* PATCH it was not in.
LEMMA TimesKept ==
    ASSUME TypeOK, TimesInv, NEW r \in Requests,
           \A s \in Requests \ {r} : req'[s] = req[s],
           \A i \in Stored : i \in Stored' /\ trades'[i].fields = trades[i].fields,
           \A i \in Stored' : ValidTrade(trades'[i].fields),
           r \in Patching' => r \in Patching,
           req'[r].step \in {"lock", "max", "insert"} =>
               \A k \in DOMAIN req'[r].batch : ValidTrade(req'[r].batch[k]),
           req'[r].step \in {"exists", "merge", "write"} =>
               /\ req'[r].kind = "patch" /\ req'[r].id \in Stored
               /\ req'[r].step = "write" /\ SendsTimes(req'[r].patch)
                     => ValidTrade(Merged(trades[req'[r].id].fields, req'[r].patch))
    PROVE  TimesInv'
<1>1. ClosedAfterEntered'
  BY DEF ClosedAfterEntered
<1>2. OnePatch'
  BY DEF TimesInv, OnePatch, Patching
<1>3. BatchesValid'
  BY DEF TimesInv, BatchesValid
<1>4. PatchesChecked'
  <2> SUFFICES ASSUME NEW s \in Requests, req'[s].step \in {"exists", "merge", "write"}
               PROVE  /\ req'[s].kind = "patch"
                      /\ req'[s].id \in Stored'
                      /\ req'[s].step = "write" /\ SendsTimes(req'[s].patch)
                            => ValidTrade(Merged(trades'[req'[s].id].fields, req'[s].patch))
    BY DEF PatchesChecked, SendsTimes
  <2>1. CASE s = r
    BY <2>1
  <2>2. CASE s # r
    BY <2>2 DEF TimesInv, PatchesChecked
  <2> QED BY <2>1, <2>2
<1> QED BY <1>1, <1>2, <1>3, <1>4 DEF TimesInv

\* A step that leaves the table alone and only answers, or goes on.
LEMMA TableAlone ==
    ASSUME TypeOK, TimesInv, NEW r \in Requests, UNCHANGED trades,
           \A s \in Requests \ {r} : req'[s] = req[s],
           r \in Patching' => r \in Patching,
           req'[r].step \in {"lock", "max", "insert"} =>
               \A k \in DOMAIN req'[r].batch : ValidTrade(req'[r].batch[k]),
           req'[r].step \in {"exists", "merge", "write"} =>
               /\ req'[r].kind = "patch" /\ req'[r].id \in Stored
               /\ req'[r].step = "write" /\ SendsTimes(req'[r].patch)
                     => ValidTrade(Merged(trades[req'[r].id].fields, req'[r].patch))
    PROVE  TimesInv'
<1>1. \A i \in Stored : i \in Stored' /\ trades'[i].fields = trades[i].fields
  BY DEF Stored
<1>2. \A i \in Stored' : ValidTrade(trades'[i].fields)
  BY DEF Stored, TimesInv, ClosedAfterEntered
<1> QED BY <1>1, <1>2, TimesKept

\* Nothing is stored, no request runs.
LEMMA InitTimesInv == Init => TimesInv
  BY DEF Init, TimesInv, ClosedAfterEntered, OnePatch, BatchesValid, PatchesChecked, Patching,
         Stored, Idle

\* Every step keeps the times in order while at most one PATCH runs.
LEMMA NextTimesInv ==
    ASSUME IsFiniteSet(Requests), ConcurrentPatches <= 1,
           TypeOK, TypeOK', SttInv, TimesInv, [Next]_vars
    PROVE  TimesInv'
<1>idle. \A what : Idle(what).step = "idle"
  BY DEF Idle
<1>start. ASSUME NEW r \in Requests, NEW st, Start(r, st)
          PROVE  req'[r] = st /\ \A s \in Requests \ {r} : req'[s] = req[s]
  BY <1>start DEF Start, TypeOK
<1>ans. ASSUME NEW r \in Requests, NEW what \in Answers, Answer(r, what)
        PROVE  /\ req'[r].step = "idle"
               /\ \A s \in Requests \ {r} : req'[s] = req[s]
               /\ r \notin Patching'
  BY <1>ans, <1>start, <1>idle DEF Answer, Patching
<1>quiet. ASSUME NEW r \in Requests, NEW what \in Answers, Answer(r, what), UNCHANGED trades
          PROVE  TimesInv'
  BY <1>quiet, <1>ans, TableAlone
<1>goto. ASSUME NEW r \in Requests, NEW step \in Steps, Goto(r, step)
         PROVE  /\ req'[r].step = step /\ req'[r].kind = req[r].kind /\ req'[r].id = req[r].id
                /\ req'[r].batch = req[r].batch /\ req'[r].patch = req[r].patch
                /\ \A s \in Requests \ {r} : req'[s] = req[s]
  BY <1>goto, <1>start DEF Goto, TypeOK, RequestState
<1>1. ASSUME NEW r \in Requests, NEW a \in Accounts, BeginCreate(r, a)
      PROVE  TimesInv'
  <2>1. PICK f \in Fields :
          \/ Answer(r, "refused")
          \/ /\ ValidTrade(f)
             /\ Start(r, [Idle("ok") EXCEPT !.step = "lock", !.acc = a, !.batch = <<f>>])
    BY <1>1 DEF BeginCreate
  <2>2. LET st == [Idle("ok") EXCEPT !.step = "lock", !.acc = a, !.batch = <<f>>]
        IN  st.step = "lock" /\ st.kind = "create" /\ st.batch = <<f>>
    BY DEF Idle
  <2>3. UNCHANGED trades
    BY <1>1 DEF BeginCreate
  <2>4. CASE Answer(r, "refused")
    BY <2>3, <2>4, <1>quiet DEF Answers
  <2>5. CASE ValidTrade(f) /\ Start(r, [Idle("ok") EXCEPT !.step = "lock", !.acc = a, !.batch = <<f>>])
    <3>1. /\ req'[r].step = "lock" /\ req'[r].kind = "create" /\ req'[r].batch = <<f>>
          /\ \A s \in Requests \ {r} : req'[s] = req[s]
      BY <2>2, <2>5, <1>start
    <3>2. \A k \in DOMAIN req'[r].batch : ValidTrade(req'[r].batch[k])
      BY <3>1, <2>5
    <3>3. r \notin Patching'
      BY <3>1 DEF Patching
    <3> QED BY <2>3, <3>1, <3>2, <3>3, TableAlone
  <2> QED BY <2>1, <2>4, <2>5
<1>2. ASSUME NEW r \in Requests, NEW a \in Accounts, BeginImport(r, a)
      PROVE  TimesInv'
  <2>1. PICK batch \in BoundedSeq(Fields, MaxBatch) :
          \/ Answer(r, "ok")
          \/ /\ \A k \in DOMAIN batch : ValidTrade(batch[k])
             /\ Start(r, [Idle("ok") EXCEPT !.step = "lock", !.kind = "import", !.acc = a,
                                            !.batch = batch])
    BY <1>2 DEF BeginImport
  <2>2. LET st == [Idle("ok") EXCEPT !.step = "lock", !.kind = "import", !.acc = a, !.batch = batch]
        IN  st.step = "lock" /\ st.kind = "import" /\ st.batch = batch
    BY DEF Idle
  <2>3. UNCHANGED trades
    BY <1>2 DEF BeginImport
  <2>4. CASE Answer(r, "ok")
    BY <2>3, <2>4, <1>quiet DEF Answers
  <2>5. CASE ~Answer(r, "ok")
    <3>1. /\ req'[r].step = "lock" /\ req'[r].kind = "import" /\ req'[r].batch = batch
          /\ \A s \in Requests \ {r} : req'[s] = req[s]
      BY <2>1, <2>2, <2>5, <1>start
    <3>2. \A k \in DOMAIN req'[r].batch : ValidTrade(req'[r].batch[k])
      BY <3>1, <2>1, <2>5
    <3>3. r \notin Patching'
      BY <3>1 DEF Patching
    <3> QED BY <2>3, <3>1, <3>2, <3>3, TableAlone
  <2> QED BY <2>4, <2>5
<1>3. ASSUME NEW r \in Requests, LockAccount(r)
      PROVE  TimesInv'
  <2>1. req[r].step = "lock" /\ UNCHANGED trades /\ Goto(r, "max")
    BY <1>3 DEF LockAccount
  <2>2. /\ req'[r].step = "max" /\ req'[r].kind = req[r].kind /\ req'[r].batch = req[r].batch
        /\ \A s \in Requests \ {r} : req'[s] = req[s]
    BY <2>1, <1>goto DEF Steps
  <2>3. \A k \in DOMAIN req'[r].batch : ValidTrade(req'[r].batch[k])
    BY <2>1, <2>2 DEF TimesInv, BatchesValid
  <2>4. r \in Patching' => r \in Patching
    BY <2>1, <2>2 DEF Patching
  <2> QED BY <2>1, <2>2, <2>3, <2>4, TableAlone
<1>4. ASSUME NEW r \in Requests, ReadMaxStt(r)
      PROVE  TimesInv'
  <2>1. /\ req[r].step = "max" /\ UNCHANGED trades
        /\ Start(r, [req[r] EXCEPT !.step = "insert", !.next = MaxStt(req[r].acc) + 1])
    BY <1>4 DEF ReadMaxStt
  <2>2. /\ req'[r].step = "insert" /\ req'[r].kind = req[r].kind /\ req'[r].batch = req[r].batch
        /\ \A s \in Requests \ {r} : req'[s] = req[s]
    <3>1. LET st == [req[r] EXCEPT !.step = "insert", !.next = MaxStt(req[r].acc) + 1]
          IN  st.step = "insert" /\ st.kind = req[r].kind /\ st.batch = req[r].batch
      BY DEF TypeOK, RequestState
    <3> QED BY <2>1, <3>1, <1>start
  <2>3. \A k \in DOMAIN req'[r].batch : ValidTrade(req'[r].batch[k])
    BY <2>1, <2>2 DEF TimesInv, BatchesValid
  <2>4. r \in Patching' => r \in Patching
    BY <2>1, <2>2 DEF Patching
  <2> QED BY <2>1, <2>2, <2>3, <2>4, TableAlone
<1>5. ASSUME NEW r \in Requests, InsertAndCommit(r)
      PROVE  TimesInv'
  <2>1. CASE Collides(r)
    BY <1>5, <2>1, <1>quiet DEF InsertAndCommit, Answers
  <2>2. CASE ~Collides(r)
    <3>1. /\ req[r].step = "insert"
          /\ trades' = [i \in Ids |-> IF i \in DOMAIN Inserted(r) THEN Inserted(r)[i] ELSE trades[i]]
      BY <1>5, <2>2 DEF InsertAndCommit
    <3>2. PICK st \in {Idle("ok"), [Idle("ok") EXCEPT !.step = "load", !.acc = req[r].acc,
                                                      !.id = nextId]} : Start(r, st)
      BY <1>5, <2>2 DEF InsertAndCommit, Answer
    <3>3. st.step \in {"idle", "load"} /\ st.kind = "create"
      <4>1. Idle("ok").step = "idle" /\ Idle("ok").kind = "create"
        BY DEF Idle
      <4>2. LET load == [Idle("ok") EXCEPT !.step = "load", !.acc = req[r].acc, !.id = nextId]
            IN  load.step = "load" /\ load.kind = "create"
        BY DEF Idle
      <4> QED BY <4>1, <4>2
    <3>4. /\ req'[r].step \in {"idle", "load"} /\ r \notin Patching'
          /\ \A s \in Requests \ {r} : req'[s] = req[s]
      BY <3>2, <3>3, <1>start DEF Patching
    <3>5. ASSUME NEW i \in Stored
          PROVE  i \notin DOMAIN Inserted(r)
      BY BoundsAssumption DEF SttInv, Positions, Inserted, Stored, Ids, TypeOK
    <3>6. ASSUME NEW i \in DOMAIN Inserted(r)
          PROVE  ValidTrade(Inserted(r)[i].fields)
      <4>1. i - nextId + 1 \in DOMAIN req[r].batch
        BY DEF Inserted, TypeOK, RequestState
      <4>2. Inserted(r)[i].fields = req[r].batch[i - nextId + 1]
        BY DEF Inserted
      <4> QED BY <3>1, <4>1, <4>2 DEF TimesInv, BatchesValid
    <3>7. \A i \in Stored : i \in Stored' /\ trades'[i].fields = trades[i].fields
      BY <3>1, <3>5 DEF Stored
    <3>8. \A i \in Stored' : ValidTrade(trades'[i].fields)
      BY <3>1, <3>6 DEF Stored, TimesInv, ClosedAfterEntered
    <3> QED BY <3>4, <3>7, <3>8, TimesKept
  <2> QED BY <2>1, <2>2
\* The first PATCH: there is no other.
<1>6. ASSUME NEW r \in Requests, NEW i \in Ids, BeginPatch(r, i)
      PROVE  TimesInv'
  <2>1. Patching = {}
    <3>1. IsFiniteSet(Patching)
      BY FS_Subset DEF Patching
    <3>2. Cardinality(Patching) \in Nat /\ Cardinality(Patching) < ConcurrentPatches
      BY <1>6, <3>1, FS_CardinalityType DEF BeginPatch
    <3> QED BY <3>1, <3>2, FS_EmptySet, BoundsAssumption
  <2>2. PICK p \in Patch, step \in {"load", "exists", "write"} :
          /\ step = IF SendsNothing(p) THEN "load" ELSE IF SendsTimes(p) THEN "exists" ELSE "write"
          /\ Start(r, [Idle("ok") EXCEPT !.kind = "patch", !.acc = trades[i].acc, !.id = i, !.patch = p,
                                         !.step = step])
    BY <1>6 DEF BeginPatch
  <2>3. /\ req'[r].kind = "patch" /\ req'[r].id = i /\ req'[r].patch = p
        /\ req'[r].step = IF SendsNothing(p) THEN "load"
                          ELSE IF SendsTimes(p) THEN "exists" ELSE "write"
        /\ \A s \in Requests \ {r} : req'[s] = req[s]
    <3>1. LET st == [Idle("ok") EXCEPT !.kind = "patch", !.acc = trades[i].acc, !.id = i, !.patch = p,
                                       !.step = step]
          IN  st.kind = "patch" /\ st.id = i /\ st.patch = p /\ st.step = step
      BY DEF Idle
    <3> QED BY <2>2, <3>1, <1>start
  <2>4. UNCHANGED trades /\ i \in Stored
    BY <1>6 DEF BeginPatch, Stored
  <2>5. ClosedAfterEntered'
    BY <2>4 DEF TimesInv, ClosedAfterEntered, Stored
  <2>6. OnePatch'
    BY <2>1, <2>3 DEF OnePatch, Patching
  <2>7. BatchesValid'
    BY <2>3 DEF TimesInv, BatchesValid
  <2>8. PatchesChecked'
    <3> SUFFICES ASSUME NEW s \in Requests, req'[s].step \in {"exists", "merge", "write"}
                 PROVE  /\ req'[s].kind = "patch"
                        /\ req'[s].id \in Stored'
                        /\ req'[s].step = "write" /\ SendsTimes(req'[s].patch)
                              => ValidTrade(Merged(trades'[req'[s].id].fields, req'[s].patch))
      BY DEF PatchesChecked, SendsTimes
    <3>1. CASE s = r
      BY <2>3, <2>4, <3>1 DEF Stored
    <3>2. CASE s # r
      BY <2>3, <2>4, <3>2 DEF TimesInv, PatchesChecked, Stored
    <3> QED BY <3>1, <3>2
  <2> QED BY <2>5, <2>6, <2>7, <2>8 DEF TimesInv
<1>7. ASSUME NEW r \in Requests, CheckExists(r)
      PROVE  TimesInv'
  <2>1. CASE Goto(r, "merge")
    <3>1. req[r].step = "exists" /\ UNCHANGED trades
      BY <1>7 DEF CheckExists
    <3>2. /\ req'[r].step = "merge" /\ req'[r].kind = req[r].kind /\ req'[r].id = req[r].id
          /\ \A s \in Requests \ {r} : req'[s] = req[s]
      BY <2>1, <1>goto DEF Steps
    <3>3. req[r].kind = "patch" /\ req[r].id \in Stored
      BY <3>1 DEF TimesInv, PatchesChecked
    <3>4. r \in Patching
      BY <3>1, <3>3 DEF Patching
    <3> QED BY <3>1, <3>2, <3>3, <3>4, TableAlone
  <2>2. CASE Answer(r, "refused")
    BY <1>7, <2>2, <1>quiet DEF CheckExists, Answers
  <2> QED BY <1>7, <2>1, <2>2 DEF CheckExists
<1>8. ASSUME NEW r \in Requests, CheckMerged(r)
      PROVE  TimesInv'
  <2>1. CASE Goto(r, "write") /\ ValidTrade(Merged(trades[req[r].id].fields, req[r].patch))
    <3>1. req[r].step = "merge" /\ UNCHANGED trades
      BY <1>8 DEF CheckMerged
    <3>2. /\ req'[r].step = "write" /\ req'[r].kind = req[r].kind /\ req'[r].id = req[r].id
          /\ req'[r].patch = req[r].patch
          /\ \A s \in Requests \ {r} : req'[s] = req[s]
      BY <2>1, <1>goto DEF Steps
    <3>3. req[r].kind = "patch" /\ req[r].id \in Stored
      BY <3>1 DEF TimesInv, PatchesChecked
    <3>4. r \in Patching
      BY <3>1, <3>3 DEF Patching
    <3> QED BY <2>1, <3>1, <3>2, <3>3, <3>4, TableAlone
  <2>2. CASE Answer(r, "refused")
    BY <1>8, <2>2, <1>quiet DEF CheckMerged, Answers
  <2> QED BY <1>8, <2>1, <2>2 DEF CheckMerged
\* The write: what the merged check found still is what is stored.
<1>9. ASSUME NEW r \in Requests, UpdateFields(r)
      PROVE  TimesInv'
  <2> DEFINE t == req[r].id
             p == req[r].patch
  <2>1. CASE ~Live(t)
    BY <1>9, <2>1, <1>quiet DEF UpdateFields, Answers
  <2>2. CASE Live(t)
    <3>1. /\ req[r].step = "write" /\ Goto(r, "load")
          /\ trades' = [trades EXCEPT ![t].fields = Merged(@, p)]
      BY <1>9, <2>2 DEF UpdateFields
    <3>2. req[r].kind = "patch" /\ t \in Stored
      BY <3>1 DEF TimesInv, PatchesChecked
    <3>3. r \in Patching
      BY <3>1, <3>2 DEF Patching
    <3>4. /\ req'[r].step = "load" /\ req'[r].kind = "patch"
          /\ \A s \in Requests \ {r} : req'[s] = req[s]
      BY <3>1, <3>2, <1>goto DEF Steps
    <3>5. t \in Ids /\ trades[t] \in Row /\ p \in Patch
      BY <3>2 DEF TypeOK, Stored, RequestState
    <3>6. /\ trades'[t].fields = Merged(trades[t].fields, p)
          /\ \A j \in Ids \ {t} : trades'[j] = trades[j]
      BY <3>1, <3>5 DEF TypeOK, Row
    <3>7. ValidTrade(Merged(trades[t].fields, p))
      <4>1. CASE SendsTimes(p)
        BY <3>1, <4>1 DEF TimesInv, PatchesChecked
      <4>2. CASE ~SendsTimes(p)
        BY <3>2, <3>5, <4>2, MergedSame DEF TimesInv, ClosedAfterEntered, Row
      <4> QED BY <4>1, <4>2
    <3>8. ClosedAfterEntered'
      BY <3>6, <3>7, <3>5 DEF TimesInv, ClosedAfterEntered, Stored
    <3>9. OnePatch'
      BY <3>3, <3>4 DEF TimesInv, OnePatch, Patching
    <3>10. BatchesValid'
      BY <3>4 DEF TimesInv, BatchesValid
    <3>11. \A s \in Requests \ {r} : req[s].step \notin {"exists", "merge", "write"}
      BY <3>3 DEF TimesInv, OnePatch, PatchesChecked, Patching
    <3>12. PatchesChecked'
      BY <3>4, <3>11 DEF PatchesChecked
    <3> QED BY <3>8, <3>9, <3>10, <3>12 DEF TimesInv
  <2> QED BY <2>1, <2>2
<1>10. ASSUME NEW r \in Requests, NEW i \in Ids, SoftDelete(r, i)
       PROVE  TimesInv'
  <2>1. \E what \in Answers : Answer(r, what)
    BY <1>10 DEF SoftDelete, Answers
  <2>2. \A j \in Ids : /\ trades'[j] = NoRow <=> trades[j] = NoRow
                       /\ trades[j] # NoRow => trades'[j].fields = trades[j].fields
    BY <1>10 DEF SoftDelete, TypeOK, Live, Row, NoRow
  <2>3. /\ \A j \in Stored : j \in Stored' /\ trades'[j].fields = trades[j].fields
        /\ \A j \in Stored' : ValidTrade(trades'[j].fields)
    BY <2>2 DEF Stored, TimesInv, ClosedAfterEntered
  <2> QED BY <2>1, <2>3, <1>ans, TimesKept
<1>11. ASSUME NEW r \in Requests, NEW i \in Ids, Restore(r, i)
       PROVE  TimesInv'
  <2>1. /\ req'[r].step \in {"idle", "load"} /\ r \notin Patching'
        /\ \A s \in Requests \ {r} : req'[s] = req[s]
    <3>1. LET st == [Idle("ok") EXCEPT !.step = "load", !.kind = "restore",
                                       !.acc = trades[i].acc, !.id = i]
          IN  st.step = "load" /\ st.kind = "restore"
      BY DEF Idle
    <3> QED BY <1>11, <3>1, <1>ans, <1>start DEF Restore, Answers, Patching
  <2>2. \A j \in Ids : /\ trades'[j] = NoRow <=> trades[j] = NoRow
                       /\ trades[j] # NoRow => trades'[j].fields = trades[j].fields
    BY <1>11 DEF Restore, TypeOK, Row, NoRow
  <2>3. /\ \A j \in Stored : j \in Stored' /\ trades'[j].fields = trades[j].fields
        /\ \A j \in Stored' : ValidTrade(trades'[j].fields)
    BY <2>2 DEF Stored, TimesInv, ClosedAfterEntered
  <2> QED BY <2>1, <2>3, TimesKept
<1>12. ASSUME NEW r \in Requests, LoadAnswer(r) \/ RawAnswer(r) \/ Fail(r)
       PROVE  TimesInv'
  <2>1. UNCHANGED trades /\ req[r].step # "idle"
    BY <1>12 DEF LoadAnswer, RawAnswer, Fail
  <2>2. CASE Goto(r, "raw")
    <3>1. /\ req'[r].step = "raw" /\ req'[r].kind = req[r].kind
          /\ \A s \in Requests \ {r} : req'[s] = req[s]
      BY <2>2, <1>goto DEF Steps
    <3>2. r \in Patching' => r \in Patching
      BY <2>1, <3>1 DEF Patching
    <3> QED BY <2>1, <3>1, <3>2, TableAlone
  <2>3. CASE \E what \in Answers : Answer(r, what)
    BY <2>1, <2>3, <1>quiet
  <2> QED BY <1>12, <2>2, <2>3 DEF LoadAnswer, RawAnswer, Fail, Answers
<1>13. CASE UNCHANGED vars
  BY <1>13 DEF vars, TimesInv, ClosedAfterEntered, OnePatch, BatchesValid, PatchesChecked, Patching,
               Stored
<1> QED
  BY <1>1, <1>2, <1>3, <1>4, <1>5, <1>6, <1>7, <1>8, <1>9, <1>10, <1>11, <1>12, <1>13
  DEF Next, Call, Serve, TableFull

\* No stored trade is closed before it was entered, whatever files, creates,
\* deletes and restores come together, as long as PATCH requests come one at
\* a time: two of them that send one time each can break the rule.
THEOREM TimesInOrder ==
    ASSUME IsFiniteSet(Requests), ConcurrentPatches <= 1
    PROVE  Spec => []ClosedAfterEntered
<1>1. Init => TimesInv
  BY InitTimesInv
<1>2. TypeOK /\ SttInv /\ (TypeOK /\ SttInv)' /\ TimesInv /\ [Next]_vars => TimesInv'
  BY NextTimesInv
<1>3. TimesInv => ClosedAfterEntered
  BY DEF TimesInv
<1> QED BY <1>1, <1>2, <1>3, JournalInvariant, PTL DEF Spec

-----------------------------------------------------------------------------
(* The log: TradeJournal implements JournalLog.  Whatever requests are in   *)
(* flight and whichever of them fail, the user sees append-only lists.      *)

\* A request that inserts brings at least one row and no more than a file may
\* have.
BatchesFit ==
    \A r \in Requests : req[r].step \in {"lock", "max", "insert"} =>
        Len(req[r].batch) \in 1..MaxBatch

LogOf(a) == [n \in 1..MaxStt(a) |-> TradeAt(a, n)]

-----------------------------------------------------------------------------
(* The log of an account lists each of its trades once, by position.       *)

Listed(a) ==
    /\ MaxStt(a) \in Nat
    /\ \A n \in 1..MaxStt(a) : TradeAt(a, n) \in Of(a) /\ trades[TradeAt(a, n)].stt = n
    /\ \A i \in Of(a) : trades[i].stt \in 1..MaxStt(a) /\ TradeAt(a, trades[i].stt) = i

\* Positions 1 .. max(stt) name the trades of an account one by one.
LEMMA LogFacts == TypeOK /\ SttInv => \A a \in Accounts : Listed(a)
<1> SUFFICES ASSUME TypeOK, SttInv, NEW a \in Accounts
             PROVE  Listed(a)
  OBVIOUS
<1>1. \A i \in Of(a) : i \in Nat /\ trades[i].stt \in Nat \ {0}
  BY BoundsAssumption DEF TypeOK, Of, Stored, Row, Ids
<1>2. \A i, j \in Of(a) : i # j => trades[i].stt # trades[j].stt
  BY <1>1 DEF SttInv, SttFollowsInsertion
<1>3. /\ MaxStt(a) \in Nat
      /\ \A i \in Of(a) : trades[i].stt <= MaxStt(a)
      /\ MaxStt(a) # 0 => \E i \in Of(a) : trades[i].stt = MaxStt(a)
  BY MaxSttFacts DEF SttInv
<1>4. \A n \in 1..MaxStt(a) : \E i \in Of(a) : trades[i].stt = n
  BY <1>3 DEF SttInv, Positions
<1>5. \A n \in 1..MaxStt(a) : TradeAt(a, n) \in Of(a) /\ trades[TradeAt(a, n)].stt = n
  BY <1>4 DEF TradeAt
<1>6. \A i \in Of(a) : trades[i].stt \in 1..MaxStt(a)
  BY <1>1, <1>3
<1>7. \A i \in Of(a) : TradeAt(a, trades[i].stt) = i
  BY <1>2, <1>5, <1>6
<1> QED BY <1>3, <1>5, <1>6, <1>7 DEF Listed

\* The same after a step.
LEMMA LogFactsNext == (TypeOK /\ SttInv)' => (\A a \in Accounts : Listed(a))'
  BY LogFacts, PTL

\* A step that moves no trade of an account keeps its log.
LEMMA SameLog ==
    ASSUME TypeOK, SttInv, TypeOK', SttInv', NEW a \in Accounts,
           Of(a)' = Of(a), \A i \in Of(a) : trades'[i].stt = trades[i].stt
    PROVE  LogOf(a)' = LogOf(a)
<1>1. Listed(a) /\ Listed(a)'
  BY LogFacts, LogFactsNext
<1>2. MaxStt(a)' = MaxStt(a)
  <2>1. ASSUME MaxStt(a) # 0
        PROVE  MaxStt(a) <= MaxStt(a)'
    <3>1. MaxStt(a) \in 1..MaxStt(a)
      BY <1>1, <2>1 DEF Listed
    <3>2. PICK i \in Of(a) : trades[i].stt = MaxStt(a)
      BY <1>1, <3>1 DEF Listed
    <3>3. trades'[i].stt = MaxStt(a) /\ i \in Of(a)'
      BY <3>2
    <3>4. trades'[i].stt \in 1..MaxStt(a)'
      BY <1>1, <3>3 DEF Listed
    <3> QED BY <1>1, <3>3, <3>4 DEF Listed
  <2>2. ASSUME MaxStt(a)' # 0
        PROVE  MaxStt(a)' <= MaxStt(a)
    <3>1. MaxStt(a)' \in 1..MaxStt(a)'
      BY <1>1, <2>2 DEF Listed
    <3>2. PICK i \in Of(a)' : trades'[i].stt = MaxStt(a)'
      BY <1>1, <3>1 DEF Listed
    <3>3. trades[i].stt = MaxStt(a)' /\ i \in Of(a)
      BY <3>2
    <3>4. trades[i].stt \in 1..MaxStt(a)
      BY <1>1, <3>3 DEF Listed
    <3> QED BY <1>1, <3>3, <3>4 DEF Listed
  <2> QED BY <1>1, <2>1, <2>2 DEF Listed
<1>3. ASSUME NEW n \in 1..MaxStt(a)
      PROVE  TradeAt(a, n)' = TradeAt(a, n)
  <2>1. TradeAt(a, n)' \in Of(a) /\ trades'[TradeAt(a, n)'].stt = n
    BY <1>1, <1>2 DEF Listed
  <2>2. trades[TradeAt(a, n)'].stt = n
    BY <2>1
  <2> QED BY <1>1, <2>1, <2>2 DEF Listed
<1> QED BY <1>2, <1>3 DEF LogOf

\* An insert appends the new ids, in their order.
LEMMA Appended ==
    ASSUME TypeOK, SttInv, TypeOK', SttInv', NEW r \in Requests,
           NEW a, NEW n, NEW k, NEW New, InsertsRows(r, a, n, k, New)
    PROVE  /\ LogOf(a) \in Seq(Ids)
           /\ LogOf(a)' = LogOf(a) \o [m \in 1..k |-> nextId + m - 1]
<1> DEFINE new == [m \in 1..k |-> nextId + m - 1]
<1>top. PICK top : top = MaxStt(a)
  OBVIOUS
<1>1. /\ a \in Accounts /\ n \in Nat \ {0} /\ k \in Nat \ {0} /\ nextId \in Nat \ {0}
      /\ New = nextId..(nextId + k - 1) /\ New \subseteq Ids
      /\ \A i \in Of(a) : trades[i].stt \in Nat \ {0} /\ trades[i].stt < n
      /\ \A m \in 1..(n - 1) : \E i \in Of(a) : trades[i].stt = m
  BY DEF InsertsRows
<1>2. /\ \A i \in New : trades'[i].stt = n + (i - nextId)
      /\ \A i \in Ids \ New : trades'[i] = trades[i]
      /\ \A i \in Stored : i \notin New /\ i \in Ids
      /\ Of(a)' = Of(a) \cup New
  BY DEF InsertsRows
<1>3. Listed(a) /\ Listed(a)'
  BY <1>1, LogFacts, LogFactsNext
<1>4. top = n - 1 /\ top \in Nat
  <2>1. top \in Nat /\ \A i \in Of(a) : trades[i].stt \in 1..top
    BY <1>3, <1>top DEF Listed
  <2>2. top < n
    <3>1. CASE top = 0
      BY <1>1, <3>1
    <3>2. CASE top # 0
      <4>1. top \in 1..top
        BY <2>1, <3>2
      <4>2. PICK i \in Of(a) : trades[i].stt = top
        BY <1>3, <1>top, <4>1 DEF Listed
      <4> QED BY <1>1, <4>2
    <3> QED BY <3>1, <3>2
  <2>3. n - 1 <= top
    <3>1. CASE n = 1
      BY <2>1, <3>1
    <3>2. CASE n # 1
      <4>1. n - 1 \in 1..(n - 1)
        BY <1>1, <3>2
      <4>2. PICK i \in Of(a) : trades[i].stt = n - 1
        BY <1>1, <4>1
      <4> QED BY <2>1, <4>2, <1>1
    <3> QED BY <3>1, <3>2
  <2> QED BY <1>1, <2>1, <2>2, <2>3
<1>5. \A i \in Of(a) : i \in Ids /\ i \in Of(a)' /\ trades'[i].stt = trades[i].stt
  BY <1>2 DEF Of
<1>6. MaxStt(a)' = top + k
  <2>1. nextId + k - 1 \in New
    BY <1>1
  <2>2. trades'[nextId + k - 1].stt = n + k - 1
    <3>1. trades'[nextId + k - 1].stt = n + ((nextId + k - 1) - nextId)
      BY <1>2, <2>1, Zenon
    <3>2. n + ((nextId + k - 1) - nextId) = n + k - 1
      BY <1>1
    <3> QED BY <3>1, <3>2
  <2>3. n + k - 1 \in 1..MaxStt(a)' /\ MaxStt(a)' \in Nat
    <3>1. nextId + k - 1 \in Of(a)'
      BY <1>2, <2>1
    <3>2. trades'[nextId + k - 1].stt \in 1..MaxStt(a)' /\ MaxStt(a)' \in Nat
      BY <1>3, <3>1 DEF Listed
    <3> QED BY <2>2, <3>2
  <2>4. MaxStt(a)' <= n + k - 1
    <3>1. MaxStt(a)' \in 1..MaxStt(a)'
      BY <2>3, <1>1
    <3>2. PICK i \in Of(a)' : trades'[i].stt = MaxStt(a)'
      BY <1>3, <3>1 DEF Listed
    <3>3. CASE i \in Of(a)
      <4>1. trades[i].stt \in Nat /\ trades[i].stt < n /\ trades'[i].stt = trades[i].stt
        BY <1>1, <1>5, <3>3
      <4> QED BY <1>1, <3>2, <4>1
    <3>4. CASE i \in New
      <4>1. trades'[i].stt = n + (i - nextId) /\ i \in Int /\ i <= nextId + k - 1
        BY <1>1, <1>2, <3>4
      <4> QED BY <1>1, <3>2, <4>1
    <3> QED BY <1>2, <3>2, <3>3, <3>4
  <2> QED BY <1>1, <1>4, <2>3, <2>4
<1>7. ASSUME NEW m \in 1..top
      PROVE  TradeAt(a, m)' = TradeAt(a, m)
  <2>1. TradeAt(a, m) \in Of(a) /\ trades[TradeAt(a, m)].stt = m
    BY <1>3, <1>top DEF Listed
  <2>2. TradeAt(a, m) \in Of(a)' /\ trades'[TradeAt(a, m)].stt = m
    BY <1>5, <2>1
  <2> QED BY <1>3, <2>2 DEF Listed
<1>8. ASSUME NEW m \in 1..k
      PROVE  TradeAt(a, top + m)' = nextId + m - 1
  <2>1. PICK i : i = nextId + m - 1
    OBVIOUS
  <2>2. i \in New /\ i \in Of(a)'
    BY <1>1, <1>2, <2>1
  <2>3. trades'[i].stt = top + m
    <3>1. trades'[i].stt = n + (i - nextId)
      BY <1>2, <2>2
    <3>2. n + (i - nextId) = top + m
      BY <1>1, <1>4, <2>1
    <3> QED BY <3>1, <3>2
  <2> QED BY <1>3, <2>1, <2>2, <2>3 DEF Listed
<1>9. LogOf(a) \in Seq(Ids) /\ Len(LogOf(a)) = top
  <2>1. \A m \in 1..top : TradeAt(a, m) \in Ids
    BY <1>3, <1>5, <1>top DEF Listed
  <2> QED BY <1>4, <1>top, <2>1 DEF LogOf
<1>10. new \in Seq(Ids) /\ Len(new) = k
  <2>1. \A m \in 1..k : nextId + m - 1 \in Ids
    BY <1>1
  <2> QED BY <1>1, <2>1
<1>11. LogOf(a)' = LogOf(a) \o new
  <2>1. /\ LogOf(a) \o new \in Seq(Ids)
        /\ Len(LogOf(a) \o new) = top + k
        /\ \A m \in 1..(top + k) : (LogOf(a) \o new)[m] =
              IF m <= top THEN LogOf(a)[m] ELSE new[m - top]
    <3>1. /\ LogOf(a) \o new \in Seq(Ids)
          /\ Len(LogOf(a) \o new) = Len(LogOf(a)) + Len(new)
          /\ \A m \in 1..(Len(LogOf(a)) + Len(new)) : (LogOf(a) \o new)[m] =
                IF m <= Len(LogOf(a)) THEN LogOf(a)[m] ELSE new[m - Len(LogOf(a))]
      <4> HIDE DEF new
      <4> QED BY <1>9, <1>10, ConcatProperties
    <3> QED BY <3>1, <1>9, <1>10
  <2>2. LogOf(a)' = [m \in 1..(top + k) |-> TradeAt(a, m)']
    BY <1>6 DEF LogOf
  <2>3. ASSUME NEW m \in 1..(top + k)
        PROVE  TradeAt(a, m)' = (LogOf(a) \o new)[m]
    <3>1. CASE m <= top
      <4>1. m \in 1..top
        BY <1>4, <1>1, <3>1
      <4> QED BY <1>7, <1>top, <2>1, <3>1, <4>1 DEF LogOf
    <3>2. CASE ~(m <= top)
      <4>1. PICK q \in 1..k : m = top + q /\ q = m - top
        <5> SUFFICES m - top \in 1..k /\ m = top + (m - top)
          OBVIOUS
        <5>1. m \in Int /\ 1 <= m /\ m <= top + k /\ ~(m <= top)
          BY <1>1, <1>4, <3>2
        <5>2. top \in Int /\ k \in Int
          BY <1>1, <1>4
        <5> QED BY <5>1, <5>2
      <4>2. new[q] = nextId + q - 1 /\ TradeAt(a, top + q)' = nextId + q - 1
        BY <1>8
      <4>3. TradeAt(a, m)' = TradeAt(a, top + q)'
        BY <4>1
      <4> QED BY <2>1, <3>2, <4>1, <4>2, <4>3
    <3> QED BY <3>1, <3>2
  <2>4. LogOf(a) \o new = [m \in 1..(top + k) |-> (LogOf(a) \o new)[m]]
    BY <2>1, <1>4, <1>1
  <2> QED BY <2>2, <2>3, <2>4
<1> QED BY <1>9, <1>11

-----------------------------------------------------------------------------
(* What a request brings fits a file.                                      *)

\* No request runs at first.
LEMMA InitFit == Init => BatchesFit
  BY DEF Init, BatchesFit, Idle

\* Creating brings one row, an import at most MaxBatch and never none.
LEMMA NextFit ==
    ASSUME MaxBatch >= 1, TypeOK, BatchesFit, [Next]_vars
    PROVE  BatchesFit'
<1>idle. \A what : Idle(what).step = "idle"
  BY DEF Idle
<1>start. ASSUME NEW r \in Requests, NEW st, Start(r, st)
          PROVE  req'[r] = st /\ \A s \in Requests \ {r} : req'[s] = req[s]
  BY <1>start DEF Start, TypeOK
<1>out. ASSUME NEW r \in Requests, NEW st, Start(r, st), st.step \notin {"lock", "max", "insert"}
        PROVE  BatchesFit'
  BY <1>out, <1>start DEF BatchesFit
<1>keep. ASSUME NEW r \in Requests, NEW st, Start(r, st), st.batch = req[r].batch,
                req[r].step \in {"lock", "max", "insert"}
         PROVE  BatchesFit'
  BY <1>keep, <1>start DEF BatchesFit
<1>new. ASSUME NEW r \in Requests, NEW st, Start(r, st), Len(st.batch) \in 1..MaxBatch
        PROVE  BatchesFit'
  BY <1>new, <1>start DEF BatchesFit
<1>goto. \A r \in Requests, step \in Steps :
           /\ [req[r] EXCEPT !.step = step].step = step
           /\ [req[r] EXCEPT !.step = step].batch = req[r].batch
  BY DEF TypeOK, RequestState
<1>1. ASSUME NEW r \in Requests, NEW a \in Accounts, BeginCreate(r, a)
      PROVE  BatchesFit'
  <2>1. PICK f \in Fields :
          \/ Answer(r, "refused")
          \/ Start(r, [Idle("ok") EXCEPT !.step = "lock", !.acc = a, !.batch = <<f>>])
    BY <1>1 DEF BeginCreate
  <2>2. CASE Answer(r, "refused")
    BY <2>2, <1>idle, <1>out DEF Answer
  <2>3. CASE Start(r, [Idle("ok") EXCEPT !.step = "lock", !.acc = a, !.batch = <<f>>])
    <3>1. [Idle("ok") EXCEPT !.step = "lock", !.acc = a, !.batch = <<f>>].batch = <<f>>
      BY DEF Idle
    <3>2. Len(<<f>>) \in 1..MaxBatch
      BY BoundsAssumption
    <3> QED BY <2>3, <3>1, <3>2, <1>new
  <2> QED BY <2>1, <2>2, <2>3
<1>2. ASSUME NEW r \in Requests, NEW a \in Accounts, BeginImport(r, a)
      PROVE  BatchesFit'
  <2>1. PICK batch \in BoundedSeq(Fields, MaxBatch) :
          \/ Answer(r, "ok")
          \/ /\ batch # <<>>
             /\ Start(r, [Idle("ok") EXCEPT !.step = "lock", !.kind = "import", !.acc = a,
                                            !.batch = batch])
    BY <1>2 DEF BeginImport
  <2>2. CASE Answer(r, "ok")
    BY <2>2, <1>idle, <1>out DEF Answer
  <2>3. CASE ~Answer(r, "ok")
    <3>1. [Idle("ok") EXCEPT !.step = "lock", !.kind = "import", !.acc = a, !.batch = batch].batch = batch
      BY DEF Idle
    <3>2. PICK m \in 0..MaxBatch : batch \in [1..m -> Fields]
      BY DEF BoundedSeq, SeqOf
    <3>3. m # 0
      BY <2>1, <2>3, <3>2
    <3>4. batch \in Seq(Fields) /\ Len(batch) = m
      BY <3>2, BoundsAssumption
    <3>5. Len(batch) \in 1..MaxBatch
      BY <3>2, <3>3, <3>4, BoundsAssumption
    <3> QED BY <2>1, <2>3, <3>1, <3>5, <1>new
  <2> QED BY <2>2, <2>3
<1>3. ASSUME NEW r \in Requests, LockAccount(r)
      PROVE  BatchesFit'
  BY <1>3, <1>goto, <1>keep DEF LockAccount, Goto, Steps
<1>4. ASSUME NEW r \in Requests, ReadMaxStt(r)
      PROVE  BatchesFit'
  <2>1. [req[r] EXCEPT !.step = "insert", !.next = MaxStt(req[r].acc) + 1].batch = req[r].batch
    BY DEF TypeOK, RequestState
  <2> QED BY <1>4, <2>1, <1>keep DEF ReadMaxStt
<1>5. ASSUME NEW r \in Requests, InsertAndCommit(r)
      PROVE  BatchesFit'
  <2>1. PICK st \in {Idle("ok"), Idle("conflict"),
                     [Idle("ok") EXCEPT !.step = "load", !.acc = req[r].acc, !.id = nextId]} :
          Start(r, st)
    BY <1>5 DEF InsertAndCommit, Answer
  <2>2. [Idle("ok") EXCEPT !.step = "load", !.acc = req[r].acc, !.id = nextId].step = "load"
    BY DEF Idle
  <2>3. st.step \notin {"lock", "max", "insert"}
    BY <2>2, <1>idle
  <2> QED BY <2>1, <2>3, <1>out
<1>6. ASSUME NEW r \in Requests, NEW i \in Ids, BeginPatch(r, i)
      PROVE  BatchesFit'
  <2>1. PICK p \in Patch, step \in {"load", "exists", "write"} :
          Start(r, [Idle("ok") EXCEPT !.kind = "patch", !.acc = trades[i].acc, !.id = i, !.patch = p,
                                      !.step = step])
    BY <1>6 DEF BeginPatch
  <2>2. [Idle("ok") EXCEPT !.kind = "patch", !.acc = trades[i].acc, !.id = i, !.patch = p,
                           !.step = step].step = step
    BY DEF Idle
  <2> QED BY <2>1, <2>2, <1>out
<1>7. ASSUME NEW r \in Requests, NEW step \in {"merge", "write", "load", "raw"}, Goto(r, step)
      PROVE  BatchesFit'
  BY <1>7, <1>goto, <1>out DEF Goto, Steps
<1>8. ASSUME NEW r \in Requests, NEW what, Answer(r, what)
      PROVE  BatchesFit'
  BY <1>8, <1>idle, <1>out DEF Answer
<1>9. ASSUME NEW r \in Requests, NEW i \in Ids, Restore(r, i)
      PROVE  BatchesFit'
  <2>1. [Idle("ok") EXCEPT !.step = "load", !.kind = "restore", !.acc = trades[i].acc, !.id = i].step = "load"
    BY DEF Idle
  <2> QED BY <1>9, <2>1, <1>8, <1>out DEF Restore
<1>10. CASE UNCHANGED vars
  BY <1>10 DEF vars, BatchesFit
<1> QED
  BY <1>1, <1>2, <1>3, <1>4, <1>5, <1>6, <1>7, <1>8, <1>9, <1>10
  DEF Next, Call, Serve, TableFull, Fail, CheckExists, CheckMerged, UpdateFields, SoftDelete,
      LoadAnswer, RawAnswer

-----------------------------------------------------------------------------
(* The refinement.                                                         *)

\* The ids in the logs are the ids of the table.
LEMMA LoggedIsStored == TypeOK /\ SttInv => Log!Logged = Stored
<1> SUFFICES ASSUME TypeOK, SttInv
             PROVE  Log!Logged = Stored
  OBVIOUS
<1>1. \A a \in Accounts : Listed(a)
  BY LogFacts
<1>2. ASSUME NEW i \in Stored
      PROVE  i \in Log!Logged
  <2>1. PICK a \in Accounts : i \in Of(a)
    BY DEF TypeOK, Stored, Of, Row
  <2>2. trades[i].stt \in 1..MaxStt(a) /\ TradeAt(a, trades[i].stt) = i
    BY <1>1, <2>1 DEF Listed
  <2>3. i \in ToSet(LogOf(a))
    BY <2>2 DEF ToSet, LogOf
  <2> QED BY <2>3 DEF Log!Logged, Log!ToSet, ToSet, LogOf
<1>3. ASSUME NEW i \in Log!Logged
      PROVE  i \in Stored
  <2>1. PICK a \in Accounts : i \in ToSet(LogOf(a))
    BY <1>3 DEF Log!Logged, Log!ToSet, ToSet, LogOf
  <2>2. PICK n \in 1..MaxStt(a) : i = TradeAt(a, n)
    BY <2>1 DEF ToSet, LogOf
  <2>3. i \in Of(a)
    BY <1>1, <2>2 DEF Listed
  <2> QED BY <2>3 DEF Of
<1> QED BY <1>2, <1>3

\* The same after a step.
LEMMA LoggedIsStoredNext == (TypeOK /\ SttInv)' => (Log!Logged = Stored)'
  BY LoggedIsStored, PTL

TheLog == [a \in Accounts |-> LogOf(a)]
TheTrash == {i \in Stored : trades[i].deleted}
TheContent == [i \in Stored |-> trades[i].fields]

\* A step that moves no trade keeps all logs.
LEMMA SameLogs ==
    ASSUME TypeOK, SttInv, TypeOK', SttInv', SameRows
    PROVE  TheLog' = TheLog /\ Stored' = Stored
<1>1. Stored' = Stored
  BY DEF SameRows, Stored
<1>2. ASSUME NEW a \in Accounts
      PROVE  LogOf(a)' = LogOf(a)
  <2>1. Of(a)' = Of(a) /\ \A i \in Of(a) : trades'[i].stt = trades[i].stt
    BY <1>1 DEF SameRows, Of, Stored
  <2> QED BY <2>1, SameLog
<1> QED BY <1>1, <1>2 DEF TheLog

\* An empty table is an empty log.
LEMMA InitLog == Init => Log!Init
<1> SUFFICES ASSUME Init
             PROVE  Log!Init
  OBVIOUS
<1>1. Stored = {}
  BY DEF Init, Stored
<1>2. \A a \in Accounts : Of(a) = {}
  BY <1>1 DEF Of
<1>3. \A a \in Accounts : MaxStt(a) = 0
  BY <1>2 DEF MaxStt
<1>4. \A a \in Accounts : [n \in 1..MaxStt(a) |-> TradeAt(a, n)] = <<>>
  BY <1>3
<1>5. [i \in Stored |-> trades[i].fields] = <<>>
  BY <1>1
<1> QED BY <1>1, <1>4, <1>5 DEF Log!Init

\* Every step of the table is a step of the log or changes nothing in it.
LEMMA StepLog ==
    ASSUME TypeOK, SttInv, BatchesFit, TypeOK', SttInv', [Next]_vars
    PROVE  [Log!Next]_(Log!vars)
<1>same. ASSUME UNCHANGED trades
         PROVE  UNCHANGED Log!vars
  <2>1. SameRows
    BY <1>same DEF SameRows
  <2>2. TheLog' = TheLog /\ Stored' = Stored
    BY <2>1, SameLogs
  <2> QED BY <1>same, <2>2 DEF Log!vars, TheLog, LogOf
<1>logged. Log!Logged = Stored /\ (Log!Logged)' = Stored'
  BY LoggedIsStored, LoggedIsStoredNext
<1>1. ASSUME NEW r \in Requests, InsertAndCommit(r)
      PROVE  \E a \in Accounts : Log!AppendBatch(a)
  <2>1. PICK a, n, k, New :
          /\ a = req[r].acc /\ n = req[r].next /\ k = Len(req[r].batch)
          /\ New = nextId..(nextId + k - 1)
    OBVIOUS
  <2>2. InsertsRows(r, a, n, k, New)
    BY <1>1, <2>1, InsertEffect
  <2>3. k \in 1..MaxBatch /\ a \in Accounts
    BY <2>1, <2>2 DEF InsertsRows, BatchesFit
  <2>4. PICK new : new = [m \in 1..k |-> nextId + m - 1]
    OBVIOUS
  <2>5. LogOf(a)' = LogOf(a) \o new
    BY <2>2, <2>4, Appended
  <2>6. \A b \in Accounts \ {a} : LogOf(b)' = LogOf(b)
    <3> SUFFICES ASSUME NEW b \in Accounts \ {a}
                 PROVE  LogOf(b)' = LogOf(b)
      OBVIOUS
    <3>1. Of(b)' = Of(b)
      BY <2>2 DEF InsertsRows
    <3>2. \A i \in Of(b) : trades'[i].stt = trades[i].stt
      BY <2>2 DEF InsertsRows, Of
    <3> QED BY <3>1, <3>2, SameLog
  <2>7. TheLog' = [TheLog EXCEPT ![a] = @ \o new]
    BY <2>3, <2>5, <2>6 DEF TheLog
  <2>8. new \in [1..k -> Ids \ Stored]
    <3>1. \A m \in 1..k : nextId + m - 1 \in New
      BY <2>2, <2>3 DEF InsertsRows
    <3>2. New \subseteq Ids \ Stored
      BY <2>2 DEF InsertsRows
    <3> QED BY <2>4, <3>1, <3>2
  <2>9. Log!IsInjective(new)
    BY <2>2, <2>4 DEF InsertsRows, Log!IsInjective
  <2>10. \A i \in Stored : i \in Stored' /\ trades'[i] = trades[i]
    BY <2>2 DEF InsertsRows, Stored
  <2>11. TheContent' \in [Stored' -> Fields] /\ \A i \in Stored : TheContent'[i] = TheContent[i]
    BY <2>10 DEF TheContent, TypeOK, Stored, Row
  <2>12. TheTrash' = TheTrash
    <3>1. \A i \in Stored' \ Stored : ~trades'[i].deleted
      <4>1. ASSUME NEW i \in New
            PROVE  ~trades'[i].deleted
        <5>1. trades'[i] = Inserted(r)[i]
          BY <2>2 DEF InsertsRows
        <5>2. Inserted(r)[i].deleted = FALSE
          BY <2>1 DEF Inserted
        <5> QED BY <5>1, <5>2
      <4>2. Stored' \ Stored \subseteq New
        BY <2>2 DEF InsertsRows, Stored
      <4> QED BY <4>1, <4>2
    <3> QED BY <2>10, <3>1 DEF TheTrash
  <2>13. \E m \in 1..MaxBatch : \E ids \in [1..m -> Ids \ Log!Logged] :
             Log!IsInjective(ids) /\ TheLog' = [TheLog EXCEPT ![a] = @ \o ids]
    BY <1>logged, <2>3, <2>7, <2>8, <2>9
  <2>14. Log!AppendBatch(a)
    BY <1>logged, <2>11, <2>12, <2>13 DEF Log!AppendBatch, TheLog, LogOf, TheContent, TheTrash
  <2> QED BY <2>3, <2>14
<1>2. ASSUME NEW r \in Requests, UpdateFields(r)
      PROVE  UNCHANGED Log!vars \/ \E i \in Ids : Log!Edit(i)
  <2>1. CASE ~Live(req[r].id)
    BY <1>2, <2>1, <1>same DEF UpdateFields
  <2>2. CASE req[r].id \notin Ids
    <3>1. UNCHANGED trades
      BY <1>2, <2>2 DEF UpdateFields, TypeOK
    <3> QED BY <3>1, <1>same
  <2>3. CASE Live(req[r].id) /\ req[r].id \in Ids
    <3>1. SameRows
      BY <1>2 DEF UpdateFields, SameRows, TypeOK, Live, Row, NoRow
    <3>2. PICK i : i = req[r].id
      OBVIOUS
    <3>3. i \in Ids /\ i \in Stored /\ ~trades[i].deleted /\ trades[i] \in Row /\ req[r].patch \in Patch
      BY <2>3, <3>2 DEF Live, Stored, TypeOK, RequestState
    <3>4. PICK f : f = Merged(trades[i].fields, req[r].patch)
      OBVIOUS
    <3>5. f \in Fields
      BY <3>3, <3>4, MergedType DEF Row
    <3>6. trades' = [trades EXCEPT ![i].fields = f]
      BY <1>2, <2>3, <3>2, <3>4 DEF UpdateFields
    <3>7. /\ trades'[i].fields = f /\ trades'[i].deleted = trades[i].deleted
          /\ \A j \in Ids \ {i} : trades'[j] = trades[j]
      BY <3>3, <3>6 DEF TypeOK, Row
    <3>8. TheLog' = TheLog /\ Stored' = Stored
      BY <3>1, SameLogs
    <3>9. TheTrash' = TheTrash /\ i \notin TheTrash
      BY <3>3, <3>7, <3>8 DEF TheTrash, Stored
    <3>10. TheContent' = [TheContent EXCEPT ![i] = f]
      BY <3>3, <3>7, <3>8 DEF TheContent, Stored
    <3>11. Log!Edit(i)
      BY <1>logged, <3>3, <3>5, <3>8, <3>9, <3>10 DEF Log!Edit, TheLog, LogOf, TheContent, TheTrash
    <3> QED BY <3>3, <3>11
  <2> QED BY <2>1, <2>2, <2>3
<1>3. ASSUME NEW r \in Requests, NEW i \in Ids, SoftDelete(r, i)
      PROVE  UNCHANGED Log!vars \/ Log!Trash(i)
  <2>1. CASE ~Live(i)
    BY <1>3, <2>1, <1>same DEF SoftDelete
  <2>2. CASE Live(i)
    <3>1. SameRows
      BY <1>3 DEF SoftDelete, SameRows, TypeOK, Live, Row, NoRow
    <3>2. i \in Stored /\ ~trades[i].deleted /\ trades[i] \in Row
      BY <2>2 DEF Live, Stored, TypeOK
    <3>3. trades' = [trades EXCEPT ![i].deleted = TRUE]
      BY <1>3, <2>2 DEF SoftDelete
    <3>4. /\ trades'[i].fields = trades[i].fields /\ trades'[i].deleted = TRUE
          /\ \A j \in Ids \ {i} : trades'[j] = trades[j]
      BY <3>2, <3>3 DEF TypeOK, Row
    <3>5. TheLog' = TheLog /\ Stored' = Stored
      BY <3>1, SameLogs
    <3>6. TheTrash' = TheTrash \cup {i} /\ i \notin TheTrash
      BY <3>2, <3>4, <3>5 DEF TheTrash, Stored
    <3>7. TheContent' = TheContent
      BY <3>4, <3>5 DEF TheContent, Stored
    <3> QED BY <1>logged, <3>2, <3>5, <3>6, <3>7 DEF Log!Trash, TheLog, LogOf, TheContent, TheTrash
  <2> QED BY <2>1, <2>2
<1>4. ASSUME NEW r \in Requests, NEW i \in Ids, Restore(r, i)
      PROVE  UNCHANGED Log!vars \/ Log!Recover(i)
  <2>1. CASE ~trades[i].deleted
    BY <1>4, <2>1, <1>same DEF Restore
  <2>2. CASE trades[i].deleted
    <3>1. SameRows
      BY <1>4 DEF Restore, SameRows, TypeOK, Row, NoRow
    <3>2. i \in Stored /\ trades[i] \in Row
      BY <1>4 DEF Restore, Stored, TypeOK
    <3>3. trades' = [trades EXCEPT ![i].deleted = FALSE]
      BY <1>4, <2>2 DEF Restore
    <3>4. /\ trades'[i].fields = trades[i].fields /\ trades'[i].deleted = FALSE
          /\ \A j \in Ids \ {i} : trades'[j] = trades[j]
      BY <3>2, <3>3 DEF TypeOK, Row
    <3>5. TheLog' = TheLog /\ Stored' = Stored
      BY <3>1, SameLogs
    <3>6. TheTrash' = TheTrash \ {i} /\ i \in TheTrash
      BY <2>2, <3>2, <3>4, <3>5 DEF TheTrash, Stored
    <3>7. TheContent' = TheContent
      BY <3>4, <3>5 DEF TheContent, Stored
    <3> QED BY <3>5, <3>6, <3>7 DEF Log!Recover, TheLog, LogOf, TheContent, TheTrash
  <2> QED BY <2>1, <2>2
<1>5. CASE UNCHANGED vars
  BY <1>5, <1>same DEF vars
<1> QED
  BY <1>same, <1>1, <1>2, <1>3, <1>4, <1>5
  DEF Log!Next, Next, Call, Serve, TableFull, Fail, BeginCreate, BeginImport, BeginPatch, LockAccount,
      ReadMaxStt, CheckExists, CheckMerged, LoadAnswer, RawAnswer

\* The journal is an append-only log for its user: batches land whole, at the
\* end, in the order of the file, and only the trash and edits of live trades
\* change anything else; for any number of concurrent and failing requests.
THEOREM JournalImplementsLog ==
    ASSUME MaxBatch >= 1
    PROVE  Spec => ImplementsLog
<1>1. Init => BatchesFit /\ Log!Init
  BY InitFit, InitLog
<1>2. TypeOK /\ BatchesFit /\ [Next]_vars => BatchesFit'
  BY NextFit
<1>3. TypeOK /\ SttInv /\ BatchesFit /\ (TypeOK /\ SttInv)' /\ [Next]_vars => [Log!Next]_(Log!vars)
  BY StepLog
<1> QED BY <1>1, <1>2, <1>3, JournalInvariant, PTL DEF Spec, ImplementsLog, Log!Spec

-----------------------------------------------------------------------------
(* JournalPages: sizes, places and the rows of a page.                       *)

\* The smaller and the larger of two numbers.
LEMMA OfTwo ==
    ASSUME NEW a \in Int, NEW b \in Int
    PROVE  Min({a, b}) = (IF a <= b THEN a ELSE b) /\ Max({a, b}) = (IF a <= b THEN b ELSE a)
<1>1. \A x \in {a, b} : x = a \/ x = b
  OBVIOUS
<1>2. Min({a, b}) \in {a, b} /\ \A y \in {a, b} : Min({a, b}) <= y
  <2>1. \E x \in {a, b} : \A y \in {a, b} : x <= y
    <3>1. CASE a <= b
      BY <3>1
    <3>2. CASE ~(a <= b)
      BY <3>2
    <3> QED BY <3>1, <3>2
  <2> QED BY <2>1 DEF Min
<1>3. Max({a, b}) \in {a, b} /\ \A y \in {a, b} : Max({a, b}) >= y
  <2>1. \E x \in {a, b} : \A y \in {a, b} : x >= y
    <3>1. CASE a <= b
      BY <3>1
    <3>2. CASE ~(a <= b)
      BY <3>2
    <3> QED BY <3>1, <3>2
  <2> QED BY <2>1 DEF Max
<1>4. Min({a, b}) = (IF a <= b THEN a ELSE b)
  BY <1>2
<1>5. Max({a, b}) = (IF a <= b THEN b ELSE a)
  BY <1>3
<1> QED BY <1>4, <1>5

\* A set of naturals that is not empty has a least element.
LEMMA Least ==
    ASSUME NEW S \in SUBSET Nat, S # {}
    PROVE  \E x \in S : \A y \in S : x <= y
<1>1. PICK x \in S : \A y \in S : ~(<<y, x>> \in OpToRel(<, Nat))
  <2>1. IsWellFoundedOn(OpToRel(<, Nat), Nat)
    BY NatLessThanWellFounded
  <2> QED BY <2>1, WFMin
<1>2. \A y \in S : ~(y < x)
  BY <1>1 DEF OpToRel
<1> QED BY <1>2

\* The trades from t on and those after it; the place of t counts the first.
From(S, t) == {s \in S : s >= t}
After(S, t) == {s \in S : s > t}
Place(S, t) == Cardinality(From(S, t))

\* Places are numbers, at most that of all the trades.
LEMMA PlaceTyped ==
    ASSUME NEW S, IsFiniteSet(S), NEW t
    PROVE  /\ IsFiniteSet(After(S, t)) /\ Cardinality(After(S, t)) \in Nat /\ Place(S, t) \in Nat
           /\ IsFiniteSet(From(S, t)) /\ Place(S, t) <= Cardinality(S)
<1>1. From(S, t) \in SUBSET S /\ After(S, t) \in SUBSET S
  BY DEF From, After
<1>2. IsFiniteSet(From(S, t)) /\ IsFiniteSet(After(S, t)) /\ Cardinality(From(S, t)) <= Cardinality(S)
  BY <1>1, FS_Subset
<1> QED BY <1>2, FS_CardinalityType DEF Place

\* A trade counts itself and those after it.
LEMMA PlaceCounts ==
    ASSUME NEW S \in SUBSET Nat, IsFiniteSet(S), NEW t \in S
    PROVE  Place(S, t) = Cardinality(After(S, t)) + 1
<1>1. t \in Nat /\ \A s \in S : s \in Nat /\ (s >= t <=> s > t \/ s = t)
  OBVIOUS
<1>2. From(S, t) = After(S, t) \cup {t} /\ t \notin After(S, t)
  <2>1. \A s \in S : s \in From(S, t) <=> s \in After(S, t) \/ s = t
    BY <1>1 DEF From, After
  <2>2. From(S, t) \subseteq S /\ After(S, t) \subseteq S
    BY DEF From, After
  <2>3. ~(t > t)
    BY <1>1
  <2> QED BY <2>1, <2>2, <2>3 DEF After
<1>3. IsFiniteSet(After(S, t))
  BY PlaceTyped
<1> QED BY <1>2, <1>3, FS_AddElement DEF Place

\* A later trade has fewer after it.
LEMMA FewerAfter ==
    ASSUME NEW S \in SUBSET Nat, IsFiniteSet(S), NEW t \in S, NEW u \in After(S, t)
    PROVE  u \in S /\ Cardinality(After(S, u)) < Cardinality(After(S, t))
<1>1. u \in S /\ u \in Nat /\ t \in Nat /\ u > t
  BY DEF After
<1>2. u \notin After(S, u)
  BY <1>1 DEF After
<1>3. After(S, u) \in SUBSET After(S, t)
  <2>1. \A s \in S : s \in Nat /\ (s > u => s > t)
    BY <1>1
  <2> QED BY <2>1 DEF After
<1>4. /\ IsFiniteSet(After(S, t)) /\ Cardinality(After(S, t)) \in Nat /\ Cardinality(After(S, u)) \in Nat
  BY PlaceTyped
<1>5. /\ Cardinality(After(S, u)) <= Cardinality(After(S, t))
      /\ Cardinality(After(S, t)) = Cardinality(After(S, u)) => After(S, t) = After(S, u)
  BY <1>3, <1>4, FS_Subset
<1> QED BY <1>1, <1>2, <1>4, <1>5

\* Among the trades that have passed place lo there is one that has just passed it.
LEMMA NextPlace ==
    ASSUME NEW S \in SUBSET Nat, IsFiniteSet(S), S # {}, NEW lo \in Nat, lo < Cardinality(S)
    PROVE  \E t \in S : lo < Place(S, t) /\ Place(S, t) <= lo + 1
<1> DEFINE T == {t \in S : lo < Place(S, t)}
           Sizes == {Cardinality(After(S, t)) : t \in T}
<1>1. T # {}
  <2>1. PICK x \in S : \A y \in S : x <= y
    BY Least
  <2>2. From(S, x) = S
    BY <2>1 DEF From
  <2> QED BY <2>2 DEF Place
<1>2. PICK t \in T : \A u \in T : Cardinality(After(S, t)) <= Cardinality(After(S, u))
  <2>1. Sizes \in SUBSET Nat /\ Sizes # {}
    BY <1>1, PlaceTyped
  <2>2. PICK n \in Sizes : \A m \in Sizes : n <= m
    <3> HIDE DEF Sizes
    <3> QED BY <2>1, Least
  <2> QED BY <2>2
<1>3. t \in S /\ lo < Place(S, t) /\ Cardinality(After(S, t)) \in Nat /\ Place(S, t) = Cardinality(After(S, t)) + 1
  BY PlaceTyped, PlaceCounts
\* What comes after it has not passed lo.
<1>4. Cardinality(After(S, t)) <= lo
  <2>1. CASE After(S, t) = {}
    BY <2>1, FS_EmptySet
  <2>2. CASE After(S, t) # {}
    <3>1. After(S, t) \in SUBSET Nat
      BY DEF After
    <3>2. PICK u \in After(S, t) : \A y \in After(S, t) : u <= y
      BY <2>2, <3>1, Least
    <3>3. u \in S /\ Cardinality(After(S, u)) < Cardinality(After(S, t)) /\ Cardinality(After(S, u)) \in Nat
      BY <1>3, FewerAfter, PlaceTyped
    <3>4. u \notin T
      BY <1>2, <1>3, <3>3
    <3>5. ~(lo < Place(S, u))
      BY <3>3, <3>4
    <3>6. From(S, u) = After(S, t)
      <4>1. u \in Nat /\ t \in Nat /\ u > t /\ \A s \in S : s \in Nat /\ (s > t => s >= u)
        BY <1>3, <3>2 DEF After
      <4>2. \A s \in S : s >= u <=> s > t
        BY <4>1
      <4> QED BY <4>2 DEF From, After
    <3> QED BY <3>5, <3>6, <1>3 DEF Place
  <2> QED BY <2>1, <2>2
<1> QED BY <1>3, <1>4

----------------------------------------------------------------------------
(* The URL. *)

\* The sizes a page of rows may have.
Sizes == 1 .. MaxPageSize

\* What a URL is read as.
LEMMA UrlIsRead ==
    ASSUME NEW u \in Urls
    PROVE  /\ ReadFilter(u) \in Filters /\ ReadPage(u) \in Nat \ {0} /\ ReadSize(u) \in Sizes
           /\ ReadView(u) \in {"trades", "day", "week"} /\ u.path \in {"/", "/trades"}
<1>1. u.page \in Nat /\ u.size \in Nat /\ u.filter \in Filters /\ u.path \in {"/", "/trades"}
  BY DEF Urls
<1>2. DefaultSize \in Sizes /\ MaxPageSize \in Nat
  BY SizesAreSane DEF Sizes
<1>3. Min({u.size, MaxPageSize}) = IF u.size <= MaxPageSize THEN u.size ELSE MaxPageSize
  BY <1>1, <1>2, OfTwo
<1>4. ReadSize(u) \in Sizes
  BY <1>1, <1>2, <1>3 DEF ReadSize, Sizes
<1>5. ReadPage(u) \in Nat \ {0}
  BY <1>1 DEF ReadPage
<1> QED BY <1>1, <1>4, <1>5 DEF ReadFilter, ReadView

\* What is written is read back.
LEMMA UrlIsWritten ==
    ASSUME NEW path \in {"/", "/trades"}, NEW f \in Filters, NEW p \in Nat \ {0}, NEW size \in Nat,
           NEW view \in {"trades", "day", "week"}
    PROVE  LET u == WriteParams(path, f, p, size, view)
           IN  /\ u \in Urls /\ u.path = path /\ ReadFilter(u) = f /\ ReadPage(u) = p
               /\ size \in Sizes => ReadSize(u) = size
<1> DEFINE u == WriteParams(path, f, p, size, view)
<1>1. /\ u.path = path /\ u.filter = f /\ u.page = (IF p > 1 THEN p ELSE 0)
      /\ u.size = (IF size # DefaultSize THEN size ELSE 0)
  BY DEF WriteParams
<1>2. u \in Urls
  <2>1. (IF p > 1 THEN p ELSE 0) \in Nat
    OBVIOUS
  <2>2. (IF size # DefaultSize THEN size ELSE 0) \in Nat
    OBVIOUS
  <2>3. (IF view # "trades" THEN view ELSE "") \in {"", "trades", "day", "week", "year"}
    OBVIOUS
  <2> QED BY <2>1, <2>2, <2>3 DEF WriteParams, Urls
<1> HIDE DEF u
<1>3. ReadPage(u) = p
  BY <1>1 DEF ReadPage
<1>4. ASSUME size \in Sizes PROVE ReadSize(u) = size
  <2>1. size \in Nat /\ 1 <= size /\ size <= MaxPageSize /\ MaxPageSize \in Nat
    BY <1>4, SizesAreSane DEF Sizes
  <2>2. CASE size = DefaultSize
    BY <1>1, <2>2 DEF ReadSize
  <2>3. CASE size # DefaultSize
    <3>1. u.size = size /\ ~(size < 1)
      BY <1>1, <2>1, <2>3
    <3>2. Min({size, MaxPageSize}) = size
      BY <2>1, OfTwo
    <3> QED BY <3>1, <3>2 DEF ReadSize
  <2> QED BY <2>2, <2>3
<1> QED BY <1>1, <1>2, <1>3, <1>4 DEF ReadFilter, u

\* The URLs visited, the one shown, and the journal.
PagesTyped ==
    /\ hist \in Seq(Urls) /\ at \in 1 .. Len(hist)
    /\ deferred \in Filters
    /\ rows \in SUBSET Trades /\ IsFiniteSet(rows)

\* Every URL of the history is one.
LEMMA UrlTyped ==
    ASSUME PagesTyped
    PROVE  /\ url \in Urls /\ at \in Nat \ {0} /\ Len(hist) \in Nat
           /\ \A i \in 1 .. Len(hist) : hist[i] \in Urls
BY DEF PagesTyped, url

\* The dashboard is left before it is visited again.
Alternates(h) == \A i \in 1 .. Len(h) - 1 : h[i].path = "/trades" \/ h[i + 1].path = "/trades"

\* A link followed: the URL is the last of the history.
LEMMA PushEffect ==
    ASSUME PagesTyped, NEW u \in Urls, Push(u)
    PROVE  /\ hist' \in Seq(Urls) /\ at' \in 1 .. Len(hist') /\ url' = u
           /\ Alternates(hist) /\ (url.path = "/trades" \/ u.path = "/trades") => Alternates(hist')
<1>1. hist \in Seq(Urls) /\ at \in 1 .. Len(hist) /\ at \in Nat /\ Len(hist) \in Nat
  BY UrlTyped DEF PagesTyped
<1> DEFINE h == SubSeq(hist, 1, at)
<1>2. h \in Seq(Urls) /\ Len(h) = at /\ \A i \in 1 .. at : h[i] = hist[i]
  BY <1>1
<1>3. hist' = Append(h, u) /\ at' = at + 1
  BY DEF Push
<1> HIDE DEF h
<1>4. /\ hist' \in Seq(Urls) /\ Len(hist') = at + 1 /\ hist'[at + 1] = u
      /\ \A i \in 1 .. at : hist'[i] = h[i]
  BY <1>2, <1>3
<1>5. at' \in 1 .. Len(hist')
  BY <1>1, <1>3, <1>4
<1>6. url' = u
  BY <1>3, <1>4 DEF url
<1>7. ASSUME Alternates(hist), url.path = "/trades" \/ u.path = "/trades" PROVE Alternates(hist')
  <2> SUFFICES ASSUME NEW i \in 1 .. Len(hist') - 1 PROVE hist'[i].path = "/trades" \/ hist'[i + 1].path = "/trades"
    BY DEF Alternates
  <2>1. i \in 1 .. at /\ hist'[i] = hist[i]
    BY <1>1, <1>2, <1>4
  <2>2. CASE i = at
    BY <1>4, <1>7, <2>1, <2>2 DEF url
  <2>3. CASE i # at
    <3>1. i \in 1 .. Len(hist) - 1 /\ i + 1 \in 1 .. at
      BY <1>1, <2>1, <2>3
    <3>2. hist'[i + 1] = hist[i + 1]
      BY <3>1, <1>2, <1>4
    <3> QED BY <3>1, <3>2, <2>1, <1>7 DEF Alternates
  <2> QED BY <2>2, <2>3
<1> QED BY <1>4, <1>5, <1>6, <1>7

\* A parameter changed in place: the URL takes the place of the one shown.
LEMMA ReplaceEffect ==
    ASSUME PagesTyped, NEW u \in Urls, Replace(u), u.path = url.path
    PROVE  /\ hist' \in Seq(Urls) /\ at' \in 1 .. Len(hist') /\ url' = u
           /\ Alternates(hist) => Alternates(hist')
<1>1. hist \in Seq(Urls) /\ at \in 1 .. Len(hist) /\ at \in Nat /\ Len(hist) \in Nat
  BY UrlTyped DEF PagesTyped
<1>2. hist' = [hist EXCEPT ![at] = u] /\ at' = at
  BY DEF Replace
<1>3. /\ hist' \in Seq(Urls) /\ Len(hist') = Len(hist) /\ hist'[at] = u
      /\ \A i \in 1 .. Len(hist) \ {at} : hist'[i] = hist[i]
  BY <1>1, <1>2
<1>4. \A i \in 1 .. Len(hist) : hist'[i].path = hist[i].path
  BY <1>1, <1>3 DEF url
<1>5. Alternates(hist) => Alternates(hist')
  <2>1. \A i \in 1 .. Len(hist) - 1 : i \in 1 .. Len(hist) /\ i + 1 \in 1 .. Len(hist)
    BY <1>1
  <2> QED BY <2>1, <1>3, <1>4 DEF Alternates
<1> QED BY <1>1, <1>2, <1>3, <1>5 DEF url

----------------------------------------------------------------------------
(* The pages of rows that exist. *)

\* A product grows with its first factor.
LEMMA ProductGrows ==
    ASSUME NEW a \in Int, NEW b \in Int, NEW s \in Nat, a <= b
    PROVE  a * s <= b * s
<1>1. (b - a) * s >= 0
  BY Z3
<1>2. b * s = a * s + (b - a) * s
  BY Z3
<1>3. a * s \in Int /\ b * s \in Int /\ (b - a) * s \in Int
  OBVIOUS
<1> QED BY <1>1, <1>2, <1>3

\* The pages counted by rounding up all have rows before their end.
LEMMA PageHasRows ==
    ASSUME NEW n \in Nat, NEW s \in Nat \ {0}, NEW p \in Nat \ {0}, p <= (n + s - 1) \div s
    PROVE  (p - 1) * s < n
<1> DEFINE D == (n + s - 1) \div s
<1>1. D \in Int /\ D * s <= n + s - 1
  BY Z3
<1>2. p * s <= D * s
  <2>1. p \in Int /\ p <= D
    OBVIOUS
  <2> HIDE DEF D
  <2> QED BY <1>1, <2>1, ProductGrows
<1>3. (p - 1) * s = p * s - s
  BY Z3
<1>4. p * s \in Int /\ D * s \in Int /\ (p - 1) * s \in Int
  BY <1>1
<1> HIDE DEF D
<1> QED BY <1>1, <1>2, <1>3, <1>4

\* A footer links to pages that there are, or before the one shown.
LEMMA FooterLinks ==
    ASSUME NEW c \in Nat \ {0}, NEW total \in Nat \ {0},
           NEW p \in (PageHref(c, total) \cup Neighbours(c, total)) \ {c}
    PROVE  p \in Nat \ {0} /\ (p <= total \/ p < c)
<1>1. CASE p \in Neighbours(c, total)
  BY <1>1 DEF Neighbours
<1>2. CASE p \in PageHref(c, total) /\ total <= 7
  BY <1>2 DEF PageHref
<1>3. CASE p \in PageHref(c, total) /\ total > 7
  <2>1. p \in {1, total, c} \/ (c <= 4 /\ p \in 2 .. 5) \/ p \in (total - 4) .. (total - 1)
        \/ (c > 4 /\ c < total - 3 /\ p \in {c - 1, c + 1})
    BY <1>3 DEF PageHref
  <2> QED BY <1>3, <2>1
<1> QED BY <1>1, <1>2, <1>3

\* Of the rows that match the URL's filter there are some on the page it asks for.
PageExists(u) ==
    \/ ReadPage(u) = 1
    \/ (ReadPage(u) - 1) * ReadSize(u) < Cardinality(Matching(ReadFilter(u)))

\* The answers kept are of the trades they were asked for.
CacheTyped ==
    \A k \in DOMAIN cache : IsFiniteSet(cache[k]) /\ \A t \in cache[k] : t \in Trades /\ Matches(k.f, t)

\* What an observer goes on showing has finitely many rows.
KeptTyped ==
    /\ kept = [list |-> kept.list, stats |-> kept.stats, day |-> kept.day]
    /\ kept.list = NoData \/ IsFiniteSet(kept.list.rows)

\* The calendar: 0 is no month, no day hovered and none opened.
CardTyped == card \in [month : Nat, hovered : Nat, opened : Nat, pages : Nat, early : BOOLEAN]

\* The dialog of a day is on the dashboard; unless it was opened early, the page
\* has followed the filter and the day is one of the filter's.
DialogInFilter ==
    card.opened # 0 =>
      /\ OnDashboard
      /\ ~card.early => /\ deferred = ReadFilter(url)
                        /\ deferred.from = 0 \/ deferred.from <= card.opened
                        /\ deferred.to = 0 \/ card.opened <= deferred.to

\* The inductive invariant of JournalPages.
PagesInv ==
    /\ PagesTyped /\ CacheTyped /\ KeptTyped /\ CardTyped
    /\ Alternates(hist) /\ DialogInFilter
    /\ ~stray => PageExists(url)

----------------------------------------------------------------------------
(* What a step may disturb. *)

\* The list the trades page shows has finitely many rows.
LEMMA ListIsFinite ==
    ASSUME CacheTyped, KeptTyped, ListShown # NoData
    PROVE  IsFiniteSet(ListShown.rows)
<1> DEFINE k == ListQuery(url, deferred)
<1>1. CASE Cached(k)
  <2>1. ListShown.rows = cache[k]
    BY <1>1 DEF ListShown, Shown, Answered
  <2> QED BY <1>1, <2>1 DEF CacheTyped, Cached
<1>2. CASE ~Cached(k)
  <2>1. ListShown = kept.list
    BY <1>2 DEF ListShown, Shown
  <2> QED BY <2>1 DEF KeptTyped
<1> QED BY <1>1, <1>2

\* What an observer goes on showing is an answer it had.
LEMMA HeldIsTyped ==
    ASSUME CacheTyped, KeptTyped, Hold
    PROVE  KeptTyped'
<1>1. ListShown = NoData \/ IsFiniteSet(ListShown.rows)
  BY ListIsFinite
<1>2. /\ kept'.list = ListShown
      /\ kept' = [list |-> kept'.list, stats |-> kept'.stats, day |-> kept'.day]
  BY DEF Hold
<1> QED BY <1>1, <1>2 DEF KeptTyped

\* The list is kept when what the dialog shows is put aside.
LEMMA DayIsKept ==
    ASSUME KeptTyped, NEW d, kept' = [kept EXCEPT !.day = d]
    PROVE  KeptTyped'
<1>1. kept = [list |-> kept.list, stats |-> kept.stats, day |-> kept.day]
  BY DEF KeptTyped
<1>2. kept'.list = kept.list /\ kept' = [list |-> kept'.list, stats |-> kept'.stats, day |-> kept'.day]
  BY <1>1
<1> QED BY <1>2 DEF KeptTyped

\* A day that a cell counts is a day of the filter.
LEMMA CellIsInFilter ==
    ASSUME CacheTyped, NEW m, NEW d \in CellDays(m), Cached(ChartsQuery(deferred)), deferred \in Filters
    PROVE  /\ d \in Nat \ {0}
           /\ deferred.from = 0 \/ deferred.from <= d
           /\ deferred.to = 0 \/ d <= deferred.to
<1>1. PICK t \in Charted : d = DayOf[t]
  BY DEF CellDays
<1>2. ChartsQuery(deferred) \in DOMAIN cache /\ Charted = cache[ChartsQuery(deferred)]
  BY DEF Cached, Charted
<1>3. t \in Trades /\ Matches(ChartsQuery(deferred).f, t)
  BY <1>1, <1>2 DEF CacheTyped
<1>4. ChartsQuery(deferred).f = deferred
  BY DEF ChartsQuery, Query
<1>5. DayOf[t] \in Nat \ {0}
  BY <1>3, TradesAreKnown
<1> QED BY <1>1, <1>3, <1>4, <1>5 DEF Matches

\* An answer kept is of the trades it was asked for.
LEMMA LoadIsTyped ==
    ASSUME PagesTyped, CacheTyped, NEW k, Load(k)
    PROVE  CacheTyped'
<1>1. /\ DOMAIN cache' = {k} \cup DOMAIN cache /\ cache'[k] = Matching(k.f)
      /\ \A q \in DOMAIN cache \ {k} : cache'[q] = cache[q]
  BY DEF Load
<1>2. Matching(k.f) \in SUBSET rows /\ \A t \in Matching(k.f) : Matches(k.f, t)
  BY DEF Matching
<1>3. IsFiniteSet(Matching(k.f)) /\ \A t \in Matching(k.f) : t \in Trades
  BY <1>2, FS_Subset DEF PagesTyped
<1> SUFFICES ASSUME NEW q \in {k} \cup DOMAIN cache
             PROVE  IsFiniteSet(cache'[q]) /\ \A t \in cache'[q] : t \in Trades /\ Matches(q.f, t)
  BY <1>1 DEF CacheTyped
<1>4. CASE q = k
  BY <1>1, <1>2, <1>3, <1>4
<1>5. CASE q # k
  BY <1>1, <1>5 DEF CacheTyped
<1> QED BY <1>4, <1>5

\* The card as it is mounted has no dialog.
LEMMA ClosedIsTyped ==
    ASSUME card' = Closed
    PROVE  CardTyped' /\ card'.opened = 0
BY DEF CardTyped, Closed

\* As long as neither the URL nor the journal changes, only the card, the answers
\* and what is kept can come out of type.
LEMMA SteadyStep ==
    ASSUME PagesInv, UNCHANGED <<rows, hist, at, stray>>, deferred' \in Filters,
           CacheTyped', KeptTyped', CardTyped', DialogInFilter'
    PROVE  PagesInv'
<1>1. url' = url
  BY DEF url
<1>2. PagesTyped' /\ Alternates(hist)'
  BY DEF PagesInv, PagesTyped, Alternates
<1>3. ~stray' => PageExists(url)'
  BY <1>1 DEF PagesInv, PageExists, Matching
<1> QED BY <1>2, <1>3 DEF PagesInv

\* A move to another URL closes the dialog or finds it closed.
LEMMA MoveStep ==
    ASSUME PagesInv, NEW u \in Urls, Visit(u), url' = u,
           hist' \in Seq(Urls), at' \in 1 .. Len(hist'), Alternates(hist'),
           card.opened = 0 \/ u.path # url.path,
           ~stray' => PageExists(u)
    PROVE  PagesInv'
<1> USE DEF PagesInv
<1>1. rows' = rows /\ cache' = cache
  BY DEF Visit
<1>2. deferred' \in Filters
  BY UrlIsRead DEF Visit, PagesTyped
<1>3. PagesTyped'
  BY <1>1, <1>2 DEF PagesTyped
<1>4. CacheTyped'
  BY <1>1 DEF CacheTyped
<1>5. KeptTyped' /\ CardTyped' /\ card'.opened = 0
  <2>1. CASE u.path = url.path
    BY <2>1, HeldIsTyped DEF Visit, CardTyped
  <2>2. CASE u.path # url.path
    <3>1. kept' = Unkept /\ card' = Closed
      BY <2>2 DEF Visit
    <3>2. KeptTyped'
      BY <3>1 DEF Unkept, KeptTyped
    <3> QED BY <3>1, <3>2 DEF Closed, CardTyped
  <2> QED BY <2>1, <2>2
<1>6. DialogInFilter'
  BY <1>5 DEF DialogInFilter
<1>7. ~stray' => PageExists(url)'
  <2>1. PageExists(u) => PageExists(url)'
    BY <1>1 DEF PageExists, Matching
  <2> QED BY <2>1
<1> QED BY <1>3, <1>4, <1>5, <1>6, <1>7 DEF Alternates

----------------------------------------------------------------------------
(* One lemma per group of actions. *)

\* A link to a page that exists, followed when no dialog is open or away from it.
LEMMA PushStep ==
    ASSUME PagesInv, NEW u \in Urls, Push(u), u.path = "/trades" \/ u.path # url.path,
           card.opened = 0 \/ u.path # url.path, ~stray' => PageExists(u)
    PROVE  PagesInv'
<1>1. url \in Urls /\ Alternates(hist) /\ PagesTyped
  BY UrlTyped DEF PagesInv
<1>2. url.path = "/trades" \/ u.path = "/trades"
  BY <1>1, UrlIsRead
<1>3. hist' \in Seq(Urls) /\ at' \in 1 .. Len(hist') /\ url' = u /\ Alternates(hist')
  BY <1>1, <1>2, PushEffect
<1>4. Visit(u)
  BY DEF Push
<1> QED BY <1>3, <1>4, MoveStep

\* Another filter, view or size of the pages, when no dialog is open.
LEMMA ReplaceStep ==
    ASSUME PagesInv, NEW u \in Urls, Replace(u), u.path = url.path, ~Modal, ReadPage(u) = 1
    PROVE  PagesInv'
<1>1. hist' \in Seq(Urls) /\ at' \in 1 .. Len(hist') /\ url' = u /\ Alternates(hist')
  BY ReplaceEffect DEF PagesInv
<1>2. Visit(u) /\ card.opened = 0 /\ PageExists(u)
  BY DEF Replace, Modal, PageExists
<1> QED BY <1>1, <1>2, MoveStep

\* Back and Forward may reach a page that exists no more, and close the dialog:
\* the dashboard was left before it was visited again.
LEMMA HistoryStep ==
    ASSUME PagesInv, Back \/ Forward
    PROVE  PagesInv'
<1>1. /\ hist \in Seq(Urls) /\ at \in 1 .. Len(hist) /\ at \in Nat /\ Len(hist) \in Nat /\ Alternates(hist)
      /\ \A i \in 1 .. Len(hist) : hist[i] \in Urls
  BY UrlTyped DEF PagesInv, PagesTyped
<1>2. PICK i \in 1 .. Len(hist) :
        /\ at' = i /\ hist' = hist /\ Visit(hist[i])
        /\ hist[i].path = "/trades" \/ url.path = "/trades"
  <2>1. CASE Back
    <3>1. at - 1 \in 1 .. Len(hist) - 1 /\ at - 1 + 1 = at /\ at - 1 \in 1 .. Len(hist)
      BY <1>1, <2>1 DEF Back
    <3>2. hist[at - 1].path = "/trades" \/ hist[at].path = "/trades"
      BY <1>1, <3>1 DEF Alternates
    <3> QED BY <2>1, <3>1, <3>2 DEF Back, url
  <2>2. CASE Forward
    <3>1. at \in 1 .. Len(hist) - 1 /\ at + 1 \in 1 .. Len(hist)
      BY <1>1, <2>2 DEF Forward
    <3>2. hist[at].path = "/trades" \/ hist[at + 1].path = "/trades"
      BY <1>1, <3>1 DEF Alternates
    <3> QED BY <2>2, <3>1, <3>2 DEF Forward, url
  <2> QED BY <2>1, <2>2
<1> DEFINE u == hist[i]
<1>3. u \in Urls /\ Visit(u)
  BY <1>1, <1>2
<1>4. hist' \in Seq(Urls) /\ at' \in 1 .. Len(hist') /\ Alternates(hist')
  BY <1>1, <1>2
<1>5. stray' = TRUE
  BY DEF Back, Forward
<1>6. url' = u
  BY <1>2 DEF url
<1>7. card.opened = 0 \/ u.path # url.path
  BY <1>2 DEF PagesInv, DialogInFilter, OnDashboard
<1> HIDE DEF u
<1> QED BY <1>3, <1>4, <1>5, <1>6, <1>7, MoveStep

\* A new filter, another view or another size of the pages ask for the first page.
LEMMA FilterStep ==
    ASSUME PagesInv, SetField \/ SetView \/ SetPageSize
    PROVE  PagesInv'
<1>1. /\ url \in Urls /\ ReadFilter(url) \in Filters /\ ReadSize(url) \in Nat
      /\ ReadView(url) \in {"trades", "day", "week"} /\ url.path \in {"/", "/trades"}
  BY UrlTyped, UrlIsRead, SizesAreSane DEF PagesInv, Sizes
<1>2. ~Modal
  BY DEF SetField, SetView, SetPageSize
<1>3. PICK f \in Filters, n \in Nat, v \in {"trades", "day", "week"} : Replace(WriteParams(url.path, f, 1, n, v))
  <2>1. CASE SetField
    <3>1. PICK f \in Offered : Replace(Filtered(f))
      BY <2>1 DEF SetField
    <3>2. f \in Filters
      <4>1. Symbols \cup {0} \subseteq Nat /\ Days \cup {0} \subseteq Nat
        BY UrlsAreRead
      <4>2. f = [symbol |-> f.symbol, from |-> f.from, to |-> f.to] /\ f.symbol \in Nat /\ f.from \in Nat /\ f.to \in Nat
        BY <4>1 DEF Offered
      <4> QED BY <4>2 DEF Filters
    <3>3. DefaultSize \in Nat
      BY SizesAreSane
    <3> QED BY <1>1, <3>1, <3>2, <3>3 DEF Filtered
  <2>2. CASE SetView
    <3>1. PICK v \in {"trades", "day", "week"} : Replace(WriteParams("/trades", ReadFilter(url), 1, ReadSize(url), v))
      BY <2>2 DEF SetView
    <3>2. url.path = "/trades"
      BY <2>2 DEF SetView, OnTrades
    <3> QED BY <1>1, <3>1, <3>2
  <2>3. CASE SetPageSize
    <3>1. PICK n \in PageSizes : Replace(WriteParams("/trades", ReadFilter(url), 1, n, ReadView(url)))
      BY <2>3 DEF SetPageSize
    <3>2. url.path = "/trades"
      BY <2>3 DEF SetPageSize, TableDrawn, OnTrades
    <3>3. n \in Nat
      BY SizesAreSane
    <3> QED BY <1>1, <3>1, <3>2, <3>3
  <2> QED BY <2>1, <2>2, <2>3
<1> DEFINE u == WriteParams(url.path, f, 1, n, v)
<1>4. u \in Urls /\ u.path = url.path /\ ReadPage(u) = 1 /\ Replace(u)
  BY <1>1, <1>3, UrlIsWritten
<1> HIDE DEF u
<1> QED BY <1>2, <1>4, ReplaceStep

\* The links between the pages, and from a row of a day to the day's journal.
LEMMA LinkStep ==
    ASSUME PagesInv, OpenPage \/ FollowRow
    PROVE  PagesInv'
<1>1. /\ url \in Urls /\ url.path \in {"/", "/trades"} /\ DefaultSize \in Nat
      /\ deferred \in Filters /\ card.opened \in Nat
  BY UrlTyped, UrlIsRead, SizesAreSane DEF PagesInv, PagesTyped, CardTyped
<1>2. PICK path \in {"/", "/trades"}, f \in Filters :
        /\ Push(WriteParams(path, f, 1, DefaultSize, "trades"))
        /\ path = "/trades" \/ path # url.path
        /\ card.opened = 0 \/ path # url.path
  <2>1. CASE OpenPage
    <3>1. PICK path \in {"/", "/trades"} \ {url.path} : Push(WriteParams(path, EmptyFilter, 1, DefaultSize, "trades"))
      BY <2>1 DEF OpenPage
    <3>2. EmptyFilter \in Filters
      BY DEF EmptyFilter, Filters
    <3> QED BY <3>1, <3>2
  <2>2. CASE FollowRow
    <3>1. Push(WriteParams("/trades", DayFilter(deferred, card.opened), 1, DefaultSize, "trades"))
      BY <2>2 DEF FollowRow
    <3>2. DayFilter(deferred, card.opened) \in Filters
      BY <1>1 DEF DayFilter, Filters
    <3>3. url.path = "/"
      BY <2>2 DEF FollowRow, MonthDrawn, CardDrawn, BoardDrawn, OnDashboard
    <3> QED BY <3>1, <3>2, <3>3
  <2> QED BY <2>1, <2>2
<1> DEFINE u == WriteParams(path, f, 1, DefaultSize, "trades")
<1>3. u \in Urls /\ u.path = path /\ ReadPage(u) = 1
  <2>1. 1 \in Nat \ {0} /\ "trades" \in {"trades", "day", "week"}
    OBVIOUS
  <2> QED BY <1>1, <1>2, <2>1, UrlIsWritten
<1>5. Push(u)
  BY <1>2
<1> HIDE DEF u
<1>4. PageExists(u)
  BY <1>3 DEF PageExists
<1> QED BY <1>2, <1>3, <1>4, <1>5, PushStep

\* The rows of a page are of the answer, those of its places.
LEMMA ItemsArePlaced ==
    ASSUME NEW S \in SUBSET Nat, IsFiniteSet(S), NEW p \in Nat \ {0}, NEW n \in Sizes
    PROVE  Paginate(S, p, n) = {t \in S : (p - 1) * n < Place(S, t) /\ Place(S, t) <= p * n}
<1>1. n \in Nat /\ ~(n < 1) /\ n <= MaxPageSize /\ MaxPageSize \in Nat
  BY SizesAreSane DEF Sizes
<1>2. (IF n < 1 THEN DefaultSize ELSE Min({n, MaxPageSize})) = n
  BY <1>1, OfTwo
<1> QED BY <1>2 DEF Paginate, Place, From

\* The footer leads to a page that exists, when it counts the rows there are.
LEMMA GoToPageStep ==
    ASSUME PagesInv, GoToPage
    PROVE  PagesInv'
<1> USE DEF PagesInv
<1> DEFINE c == ReadPage(url)
           s == ReadSize(url)
           n == IF ListShown = NoData THEN 0 ELSE Cardinality(ListShown.rows)
           v == ReadView(url)
<1>1. /\ url \in Urls /\ ReadFilter(url) \in Filters /\ c \in Nat \ {0} /\ s \in Sizes
      /\ v \in {"trades", "day", "week"} /\ s \in Nat \ {0}
  BY UrlTyped, UrlIsRead, SizesAreSane DEF Sizes
<1>2. ListShown # NoData /\ Items(ListShown) # {} /\ ~Modal /\ url.path = "/trades"
  BY DEF GoToPage, TableDrawn, EmptyState, OnTrades
<1>3. PICK p \in (PageHref(c, PageCount) \cup Neighbours(c, PageCount)) \ {c} :
        Push(WriteParams("/trades", ReadFilter(url), p, s, v))
  BY DEF GoToPage
<1>4. n \in Nat /\ IsFiniteSet(ListShown.rows) /\ n = Cardinality(ListShown.rows)
  BY <1>2, ListIsFinite, FS_CardinalityType
<1>5. /\ (n + s - 1) \div s \in Int /\ PageCount \in Nat \ {0}
      /\ PageCount = 1 \/ PageCount = (n + s - 1) \div s
  <2>1. (n + s - 1) \div s \in Int
    BY <1>1, <1>4
  <2>2. PageCount = Max({1, (n + s - 1) \div s})
    BY DEF PageCount
  <2> DEFINE D == (n + s - 1) \div s
  <2> HIDE DEF D
  <2>3. 1 \in Int /\ D \in Int
    BY <2>1 DEF D
  <2>4. Max({1, D}) = IF 1 <= D THEN D ELSE 1
    BY <2>3, OfTwo
  <2>5. PageCount = IF 1 <= D THEN D ELSE 1
    BY <2>2, <2>4 DEF D
  <2>6. D \in Int /\ PageCount \in Nat \ {0} /\ (PageCount = 1 \/ PageCount = D)
    BY <2>3, <2>5
  <2> QED BY <2>6 DEF D
<1>6. p \in Nat \ {0} /\ (p <= PageCount \/ p < c)
  BY <1>1, <1>3, <1>5, FooterLinks
<1> DEFINE u == WriteParams("/trades", ReadFilter(url), p, s, v)
<1>7. u \in Urls /\ u.path = "/trades" /\ ReadPage(u) = p /\ ReadFilter(u) = ReadFilter(url) /\ ReadSize(u) = s
  BY <1>1, <1>6, UrlIsWritten
<1>8. Push(u) /\ card.opened = 0
  BY <1>2, <1>3 DEF Modal
<1>9. ASSUME ~stray' PROVE PageExists(u)
  <2>1. Fresh(ListQuery(url, ReadFilter(url))) /\ deferred = ReadFilter(url)
    BY <1>9 DEF GoToPage
  <2> DEFINE M == Matching(ReadFilter(url))
  <2>2. ListShown = Answered(ListQuery(url, deferred)) /\ ListShown.rows = M
    BY <2>1 DEF ListShown, Shown, Fresh, Answered, ListQuery, Query
  <2>3. M \in SUBSET Nat /\ IsFiniteSet(M) /\ n = Cardinality(M)
    <3>1. M \in SUBSET rows /\ rows \in SUBSET Nat
      BY TradesAreNumbered DEF Matching, PagesTyped
    <3> QED BY <3>1, <1>4, <2>2
  <2>4. Items(ListShown) = Paginate(M, c, s)
    BY <2>2 DEF Items, Answered, ListQuery, Query
  <2> HIDE DEF M, n, c, s
  <2>5. PICK t \in M : (c - 1) * s < Place(M, t)
    <3>1. Paginate(M, c, s) = {t \in M : (c - 1) * s < Place(M, t) /\ Place(M, t) <= c * s}
      BY <1>1, <2>3, ItemsArePlaced
    <3> QED BY <1>2, <2>4, <3>1
  <2>6. (c - 1) * s < n
    <3>1. Place(M, t) \in Nat /\ Place(M, t) <= n
      BY <2>3, PlaceTyped
    <3>2. (c - 1) * s \in Int
      BY <1>1
    <3> QED BY <1>4, <2>5, <3>1, <3>2
  <2>7. p = 1 \/ (p - 1) * s < n
    <3>1. CASE p < c
      <4>1. p - 1 \in Int /\ c - 1 \in Int /\ p - 1 <= c - 1 /\ s \in Nat
        BY <1>1, <1>6, <3>1
      <4>2. (p - 1) * s <= (c - 1) * s
        BY <4>1, ProductGrows
      <4>3. (p - 1) * s \in Int /\ (c - 1) * s \in Int
        BY <4>1
      <4> QED BY <1>4, <2>6, <4>2, <4>3
    <3>2. CASE PageCount = 1 /\ p <= PageCount
      BY <1>6, <3>2
    <3>3. CASE PageCount = (n + s - 1) \div s /\ p <= PageCount
      BY <1>1, <1>4, <1>6, <3>3, PageHasRows
    <3> QED BY <1>5, <1>6, <3>1, <3>2, <3>3
  <2> QED BY <2>3, <2>7, <1>7 DEF PageExists, M, n, s
<1> HIDE DEF u
<1> QED BY <1>7, <1>8, <1>9, PushStep

\* An answer arrives; the month chosen may be forgotten, the card go.
LEMMA LoadStep ==
    ASSUME PagesInv, LoadList \/ LoadStats \/ LoadCharts \/ LoadDay \/ LoadTip
    PROVE  PagesInv'
<1> USE DEF PagesInv
<1>1. PICK k : Load(k)
  BY DEF LoadList, LoadStats, LoadCharts, LoadDay, LoadTip
<1>2. UNCHANGED <<rows, hist, at, deferred, kept, stray>>
  BY <1>1 DEF Load
<1>3. CacheTyped'
  BY <1>1, LoadIsTyped
<1>4. card' \in {card, Closed, [card EXCEPT !.month = 0]}
  BY DEF LoadList, LoadStats, LoadCharts, LoadDay, LoadTip, StillDrawn
<1>5. CardTyped' /\ (card'.opened = 0 \/ (card'.opened = card.opened /\ card'.early = card.early))
  <2>1. card = [month |-> card.month, hovered |-> card.hovered, opened |-> card.opened,
                pages |-> card.pages, early |-> card.early]
    BY DEF CardTyped
  <2>2. CASE card' = card
    BY <2>2 DEF CardTyped
  <2>3. CASE card' = Closed
    BY <2>3, ClosedIsTyped
  <2>4. CASE card' = [card EXCEPT !.month = 0]
    <3>1. CardTyped'
      BY <2>4 DEF CardTyped
    <3>2. card'.opened = card.opened /\ card'.early = card.early
      BY <2>1, <2>4
    <3> QED BY <3>1, <3>2
  <2> QED BY <1>4, <2>2, <2>3, <2>4
<1>6. KeptTyped' /\ deferred' \in Filters
  BY <1>2 DEF KeptTyped, PagesTyped
<1>7. DialogInFilter'
  <2>1. url' = url
    BY <1>2 DEF url
  <2> QED BY <1>2, <1>5, <2>1 DEF DialogInFilter, OnDashboard
<1> QED BY <1>2, <1>3, <1>5, <1>6, <1>7, SteadyStep

\* The page follows the filter: a dialog that stays was opened early.
LEMMA CatchUpStep ==
    ASSUME PagesInv, CatchUp
    PROVE  PagesInv'
<1> USE DEF PagesInv
<1>1. UNCHANGED <<rows, hist, at, cache, stray>> /\ deferred' = ReadFilter(url) /\ deferred # ReadFilter(url) /\ Hold
  BY DEF CatchUp
<1>2. card' = card \/ card' = Closed
  BY DEF CatchUp, StillDrawn
<1>3. deferred' \in Filters
  BY <1>1, UrlTyped, UrlIsRead
<1>4. CacheTyped' /\ KeptTyped'
  BY <1>1, HeldIsTyped DEF CacheTyped
<1>5. CardTyped'
  BY <1>2, ClosedIsTyped DEF CardTyped
<1>6. DialogInFilter'
  <2>1. CASE card' = card
    BY <1>1, <2>1 DEF DialogInFilter, OnDashboard, url
  <2>2. CASE card' = Closed
    BY <2>2 DEF DialogInFilter, Closed
  <2> QED BY <1>2, <2>1, <2>2
<1> QED BY <1>1, <1>3, <1>4, <1>5, <1>6, SteadyStep

\* The card: another month, a day hovered, opened, listed further and closed.
LEMMA CardStep ==
    ASSUME PagesInv, TurnMonth \/ HoverDay \/ OpenDay \/ CloseDay \/ LoadMore
    PROVE  PagesInv'
<1> USE DEF PagesInv
<1>1. PICK c : Look(c)
  BY DEF TurnMonth, HoverDay, OpenDay, CloseDay, LoadMore
<1>2. UNCHANGED <<rows, hist, at, deferred, cache, stray>> /\ url' = url
  BY <1>1 DEF Look, url
<1>3. kept' = kept \/ \E d : kept' = [kept EXCEPT !.day = d]
  BY DEF TurnMonth, HoverDay, OpenDay, CloseDay, LoadMore
<1>4. CacheTyped' /\ KeptTyped' /\ deferred' \in Filters
  BY <1>2, <1>3, DayIsKept DEF CacheTyped, KeptTyped, PagesTyped
<1>5. MonthDrawn /\ OnDashboard /\ Cached(ChartsQuery(deferred))
  BY DEF TurnMonth, HoverDay, OpenDay, CloseDay, LoadMore, MonthDrawn, CardDrawn, BoardDrawn
<1>6. card = [month |-> card.month, hovered |-> card.hovered, opened |-> card.opened,
              pages |-> card.pages, early |-> card.early]
  BY DEF CardTyped
<1>7. CardTyped' /\ DialogInFilter'
  <2>1. CASE TurnMonth
    <3>1. PICK m \in Months : card' = [card EXCEPT !.month = m, !.hovered = 0]
      BY <2>1 DEF TurnMonth, Look, Available
    <3>2. CardTyped'
      BY <3>1, TradesAreKnown DEF CardTyped
    <3>3. card'.opened = card.opened /\ card'.early = card.early
      BY <3>1, <1>6
    <3> QED BY <1>2, <3>2, <3>3 DEF DialogInFilter, OnDashboard
  <2>2. CASE HoverDay
    <3>1. PICK d \in CellDays(Current) : card' = [card EXCEPT !.hovered = d]
      BY <2>2 DEF HoverDay, Look
    <3>2. d \in Nat
      BY <1>5, CellIsInFilter DEF PagesTyped
    <3>3. CardTyped'
      BY <3>1, <3>2 DEF CardTyped
    <3>4. card'.opened = card.opened /\ card'.early = card.early
      BY <3>1, <1>6
    <3> QED BY <1>2, <3>3, <3>4 DEF DialogInFilter, OnDashboard
  <2>3. CASE OpenDay
    <3> DEFINE b == deferred # ReadFilter(url)
    <3>1. PICK d \in CellDays(Current) :
            card' = [card EXCEPT !.hovered = 0, !.opened = d, !.pages = 1, !.early = b]
      BY <2>3 DEF OpenDay, Look
    <3>2. /\ d \in Nat
          /\ deferred.from = 0 \/ deferred.from <= d
          /\ deferred.to = 0 \/ d <= deferred.to
      BY <1>5, CellIsInFilter DEF PagesTyped
    <3>3. b \in BOOLEAN
      OBVIOUS
    <3>4. card'.opened = d /\ card'.early = b
      BY <3>1, <1>6
    <3>5. CardTyped'
      <4> HIDE DEF b
      <4> QED BY <3>1, <3>2, <3>3 DEF CardTyped
    <3> QED BY <1>2, <1>5, <3>2, <3>4, <3>5 DEF DialogInFilter, OnDashboard
  <2>4. CASE CloseDay
    <3>1. card' = [card EXCEPT !.opened = 0, !.pages = 1, !.early = FALSE]
      BY <2>4 DEF CloseDay, Look
    <3>2. CardTyped' /\ card'.opened = 0
      BY <3>1 DEF CardTyped
    <3> QED BY <3>2 DEF DialogInFilter
  <2>5. CASE LoadMore
    <3>1. card' = [card EXCEPT !.pages = card.pages + 1]
      BY <2>5 DEF LoadMore, Look
    <3>2. CardTyped'
      BY <3>1 DEF CardTyped
    <3>3. card'.opened = card.opened /\ card'.early = card.early
      BY <3>1, <1>6
    <3> QED BY <1>2, <3>2, <3>3 DEF DialogInFilter, OnDashboard
  <2> QED BY <2>1, <2>2, <2>3, <2>4, <2>5
<1> QED BY <1>2, <1>4, <1>7, SteadyStep

\* The journal changes under the page.
LEMMA ChangeStep ==
    ASSUME PagesInv, RemoveTrade \/ Add
    PROVE  PagesInv'
<1> USE DEF PagesInv
<1>1. PICK S \in SUBSET Trades : IsFiniteSet(S) /\ Change(S)
  <2>1. CASE RemoveTrade
    <3>1. Change(rows \ {removing})
      BY <2>1 DEF RemoveTrade
    <3>2. rows \ {removing} \in SUBSET rows /\ rows \in SUBSET Trades /\ IsFiniteSet(rows)
      BY DEF PagesTyped
    <3> QED BY <3>1, <3>2, FS_Subset
  <2>2. CASE Add
    <3>1. PICK t \in Trades \ rows : Change(rows \cup {t})
      BY <2>2 DEF Add
    <3>2. rows \cup {t} \in SUBSET Trades /\ IsFiniteSet(rows \cup {t})
      BY FS_AddElement DEF PagesTyped
    <3> QED BY <3>1, <3>2
  <2> QED BY <2>1, <2>2
<1>2. rows' = S /\ stray' = TRUE /\ UNCHANGED <<hist, at, deferred, cache, kept, card>>
  BY <1>1 DEF Change
<1>3. PagesTyped' /\ CacheTyped' /\ KeptTyped' /\ CardTyped'
  BY <1>1, <1>2 DEF PagesTyped, CacheTyped, KeptTyped, CardTyped
<1>4. Alternates(hist)' /\ DialogInFilter'
  BY <1>2 DEF Alternates, DialogInFilter, OnDashboard, url
<1> QED BY <1>2, <1>3, <1>4

\* The question whether to remove a trade, and the export, move none of it.
LEMMA BesideThePage ==
    ASSUME PagesInv, UNCHANGED <<rows, hist, at, deferred, cache, kept, card, stray>>
    PROVE  PagesInv'
<1>1. CacheTyped' /\ KeptTyped' /\ CardTyped' /\ deferred' \in Filters
  BY DEF PagesInv, PagesTyped, CacheTyped, KeptTyped, CardTyped
<1>2. DialogInFilter'
  BY DEF PagesInv, DialogInFilter, OnDashboard, url
<1> QED BY <1>1, <1>2, SteadyStep

\* The page of a bookmark, which need not exist, and an empty history.
LEMMA PagesStart == PagesInit => PagesInv
<1> SUFFICES ASSUME PagesInit PROVE PagesInv
  OBVIOUS
<1>1. PICK u \in FirstUrls : hist = <<u>> /\ deferred = ReadFilter(u)
  BY DEF PagesInit
<1>2. u \in Urls /\ deferred \in Filters
  BY <1>1, UrlsAreRead, UrlIsRead
<1>3. hist \in Seq(Urls) /\ Len(hist) = 1 /\ at = 1
  BY <1>1, <1>2 DEF PagesInit
<1>4. PagesTyped
  BY <1>2, <1>3, TradesAreKnown DEF PagesInit, PagesTyped
<1>5. CacheTyped /\ KeptTyped
  BY DEF PagesInit, CacheTyped, KeptTyped, Unkept
<1>6. CardTyped /\ DialogInFilter
  BY DEF PagesInit, CardTyped, DialogInFilter, Closed
<1>7. Alternates(hist)
  BY <1>3 DEF Alternates
<1>8. stray = TRUE
  BY DEF PagesInit
<1> QED BY <1>4, <1>5, <1>6, <1>7, <1>8 DEF PagesInv

\* Every step of the pages keeps the invariant.
LEMMA PagesStep == PagesInv /\ [PagesNext]_pagesVars => PagesInv'
<1> SUFFICES ASSUME PagesInv, [PagesNext]_pagesVars PROVE PagesInv'
  OBVIOUS
<1>1. CASE Back \/ Forward
  BY <1>1, HistoryStep
<1>2. CASE SetField \/ SetView \/ SetPageSize
  BY <1>2, FilterStep
<1>3. CASE GoToPage
  BY <1>3, GoToPageStep
<1>4. CASE OpenPage \/ FollowRow
  BY <1>4, LinkStep
<1>5. CASE CatchUp
  BY <1>5, CatchUpStep
<1>6. CASE LoadList \/ LoadStats \/ LoadCharts \/ LoadDay \/ LoadTip
  BY <1>6, LoadStep
<1>7. CASE TurnMonth \/ HoverDay \/ OpenDay \/ CloseDay \/ LoadMore
  BY <1>7, CardStep
<1>8. CASE RemoveTrade \/ Add
  BY <1>8, ChangeStep
<1>9. CASE AskRemove \/ Cancel \/ Export \/ Download \/ UNCHANGED pagesVars
  <2>1. UNCHANGED <<rows, hist, at, deferred, cache, kept, card, stray>>
    BY <1>9 DEF AskRemove, Cancel, Export, Download, page, pagesVars
  <2> QED BY <2>1, BesideThePage
<1> QED BY <1>1, <1>2, <1>3, <1>4, <1>5, <1>6, <1>7, <1>8, <1>9 DEF PagesNext

\* In every reachable state the URLs of the history are well formed, the answers
\* kept are of the trades they were asked for, an open dialog shows a day of the
\* page's filter, and a page chosen for the rows there are has some of them.
THEOREM PagesAreSound == PagesSpec => []PagesInv
BY PagesStart, PagesStep, PTL DEF PagesSpec

\* A page that exists has a row, the one just past the pages before it.
LEMMA SomeRowIsShown ==
    ASSUME PagesInv, ~stray, Matching(ReadFilter(url)) # {}
    PROVE  Paginate(Matching(ReadFilter(url)), ReadPage(url), ReadSize(url)) # {}
<1> DEFINE M == Matching(ReadFilter(url))
           p == ReadPage(url)
           s == ReadSize(url)
           lo == (p - 1) * s
<1>1. p \in Nat \ {0} /\ s \in Sizes /\ s \in Nat \ {0}
  BY UrlTyped, UrlIsRead, SizesAreSane DEF PagesInv, Sizes
<1>2. M \in SUBSET Nat /\ IsFiniteSet(M)
  <2>1. M \in SUBSET rows /\ rows \in SUBSET Nat /\ IsFiniteSet(rows)
    BY TradesAreNumbered DEF PagesInv, PagesTyped, Matching
  <2> QED BY <2>1, FS_Subset
<1>3. p = 1 \/ lo < Cardinality(M)
  BY DEF PagesInv, PageExists
<1>4. Cardinality(M) \in Nat /\ Cardinality(M) # 0 /\ M # {}
  <2> HIDE DEF M
  <2>1. M # {}
    BY DEF M
  <2> QED BY <1>2, <2>1, FS_EmptySet, FS_CardinalityType
<1> HIDE DEF M, p, s
<1>5. lo \in Nat /\ lo < Cardinality(M)
  <2>1. CASE p = 1
    BY <1>1, <1>4, <2>1
  <2>2. CASE p # 1
    <3>1. lo \in Nat
      <4>1. p - 1 \in Nat /\ s \in Nat
        BY <1>1
      <4> QED BY <4>1
    <3> QED BY <1>3, <2>2, <3>1
  <2> QED BY <2>1, <2>2
<1>6. lo + 1 <= p * s
  <2>1. p * s = lo + s
    <3>1. p \in Int /\ s \in Int
      BY <1>1
    <3> QED BY <3>1, Z3
  <2> QED BY <1>1, <1>5, <2>1
<1>7. p * s \in Int
  BY <1>1
<1> HIDE DEF lo
<1>8. PICK t \in M : lo < Place(M, t) /\ Place(M, t) <= lo + 1
  BY <1>2, <1>4, <1>5, NextPlace
<1>9. Place(M, t) <= p * s
  <2>1. Place(M, t) \in Nat
    BY <1>2, PlaceTyped
  <2> QED BY <1>5, <1>6, <1>7, <1>8, <2>1
<1>10. Paginate(M, p, s) = {x \in M : (p - 1) * s < Place(M, x) /\ Place(M, x) <= p * s}
  BY <1>1, <1>2, ItemsArePlaced
<1>11. t \in Paginate(M, p, s)
  BY <1>8, <1>9, <1>10 DEF lo
<1> QED BY <1>11 DEF M, p, s

\* The trades page says that there is nothing only when there is nothing: no move
\* of the user ends on a page past the last one (EmptyMeansEmpty of JournalPages).
THEOREM NothingIsHidden == PagesSpec => []EmptyMeansEmpty
<1>1. PagesInv => EmptyMeansEmpty
  <2> SUFFICES ASSUME PagesInv, EmptyState, ~stray, deferred = ReadFilter(url), Fresh(ListQuery(url, deferred)),
                      Matching(ReadFilter(url)) # {}
               PROVE  FALSE
    BY DEF EmptyMeansEmpty
  <2>1. Items(ListShown) = Paginate(Matching(ReadFilter(url)), ReadPage(url), ReadSize(url))
    BY DEF ListShown, Shown, Fresh, Answered, ListQuery, Query, Items
  <2>2. Items(ListShown) = {}
    BY DEF EmptyState
  <2> QED BY <2>1, <2>2, SomeRowIsShown
<1> QED BY <1>1, PagesAreSound, PTL

\* The filter of a day of the filter finds the trades of that day.
LEMMA DayIsItsTrades ==
    ASSUME PagesTyped, NEW d \in Nat \ {0},
           deferred.from = 0 \/ deferred.from <= d, deferred.to = 0 \/ d <= deferred.to
    PROVE  Matching(DayFilter(deferred, d)) = OnDay(Matching(deferred), d)
<1>1. deferred = [symbol |-> deferred.symbol, from |-> deferred.from, to |-> deferred.to]
      /\ deferred.from \in Nat /\ deferred.to \in Nat
  BY DEF PagesTyped, Filters
<1> DEFINE f == DayFilter(deferred, d)
<1>2. f.symbol = deferred.symbol /\ f.from = d /\ f.to = d
  BY <1>1 DEF DayFilter
<1> HIDE DEF f
<1>3. ASSUME NEW t \in rows
      PROVE  Matches(f, t) <=> Matches(deferred, t) /\ DayOf[t] = d
  <2>1. DayOf[t] \in Nat
    BY TradesAreKnown DEF PagesTyped
  <2>2. (f.from = 0 \/ f.from <= DayOf[t]) /\ (f.to = 0 \/ DayOf[t] <= f.to) <=> DayOf[t] = d
    BY <1>2, <2>1
  <2>3. Matches(f, t) <=> deferred.symbol \in {0, SymbolOf[t]} /\ DayOf[t] = d
    BY <1>2, <2>2 DEF Matches
  <2> QED BY <2>3 DEF Matches
<1> QED BY <1>3 DEF Matching, OnDay, f

\* Once everything is answered, a cell of the calendar, its tooltip, the dialog of
\* the day and the journal a row of it leads to count the same trades
\* (NumbersAgree of JournalPages).
THEOREM DayAgrees == PagesSpec => []NumbersAgree
<1>1. PagesInv => NumbersAgree
  <2> SUFFICES ASSUME PagesInv, MonthDrawn, Fresh(ChartsQuery(deferred))
               PROVE  TipAgrees /\ DialogAgrees
    BY DEF NumbersAgree
  <2> USE DEF PagesInv
  <2>1. Charted = Matching(deferred) /\ Cached(ChartsQuery(deferred))
    BY DEF Charted, Fresh, ChartsQuery, Query
  <2>2. ASSUME card.hovered \in CellDays(Current), Fresh(TipQuery)
        PROVE  cache[TipQuery] = OnDay(Charted, card.hovered)
    <3>1. cache[TipQuery] = Matching(DayFilter(deferred, card.hovered))
      BY <2>2 DEF Fresh, TipQuery, Query
    <3>2. /\ card.hovered \in Nat \ {0}
          /\ deferred.from = 0 \/ deferred.from <= card.hovered
          /\ deferred.to = 0 \/ card.hovered <= deferred.to
      BY <2>1, <2>2, CellIsInFilter DEF PagesTyped
    <3> QED BY <2>1, <3>1, <3>2, DayIsItsTrades
  <2>3. ASSUME card.opened # 0, ~card.early, Fresh(DialogQuery)
        PROVE  /\ Cardinality(DayShown.rows) = Cardinality(OnDay(Charted, card.opened))
               /\ Remaining(DayShown) = 0 => Net(Items(DayShown)) = Net(OnDay(Charted, card.opened))
               /\ Matching(DayFilter(deferred, card.opened)) = OnDay(Charted, card.opened)
    <3>1. DayShown.rows = Matching(DayFilter(deferred, card.opened))
      BY <2>3 DEF DayShown, Shown, Fresh, Answered, DialogQuery, Query
    <3>2. /\ card.opened \in Nat \ {0}
          /\ deferred.from = 0 \/ deferred.from <= card.opened
          /\ deferred.to = 0 \/ card.opened <= deferred.to
      BY <2>3 DEF DialogInFilter, CardTyped
    <3>3. Matching(DayFilter(deferred, card.opened)) = OnDay(Charted, card.opened)
      BY <2>1, <3>2, DayIsItsTrades
    <3>4. ASSUME Remaining(DayShown) = 0 PROVE Items(DayShown) = DayShown.rows
      <4>1. Items(DayShown) \in SUBSET DayShown.rows
        BY DEF Items, Paginate
      <4>2. IsFiniteSet(DayShown.rows)
        <5>1. DayShown.rows \in SUBSET rows
          BY <3>1 DEF Matching
        <5> QED BY <5>1, FS_Subset DEF PagesTyped
      <4>3. Cardinality(Items(DayShown)) \in Nat /\ Cardinality(DayShown.rows) \in Nat
        BY <4>1, <4>2, FS_Subset, FS_CardinalityType
      <4>4. Cardinality(Items(DayShown)) = Cardinality(DayShown.rows)
        BY <3>4, <4>3 DEF Remaining
      <4> QED BY <4>1, <4>2, <4>4, FS_Subset
    <3> QED BY <3>1, <3>3, <3>4
  <2> QED BY <2>2, <2>3 DEF TipAgrees, DialogAgrees
<1> QED BY <1>1, PagesAreSound, PTL
===============================================================================
