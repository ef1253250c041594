----------------------------- MODULE JournalLog -----------------------------
(***************************************************************************)
(* What the trade journal promises its user, with no request, lock or      *)
(* transaction in sight: every account is an append-only list of trades.   *)
(* A call appends a whole batch or nothing; the trash hides a trade        *)
(* without moving it; only a trade outside the trash can be edited.        *)
(***************************************************************************)
EXTENDS Naturals, Sequences, FiniteSets, SequencesExt

CONSTANTS Accounts, Ids, Fields, MaxBatch

VARIABLES
    log,      \* log[a]: the ids of account a in stt order, trash included
    trash,    \* the soft-deleted ids
    content   \* content[i]: the user's fields of every trade in some log

vars == <<log, trash, content>>

Logged == UNION {ToSet(log[a]) : a \in Accounts}

Init ==
    /\ log = [a \in Accounts |-> <<>>]
    /\ trash = {}
    /\ content = <<>>

\* A batch is appended whole: new ids at the end of one log, nothing else moves.
AppendBatch(a) ==
    /\ \E n \in 1..MaxBatch : \E new \in [1..n -> Ids \ Logged] :
         IsInjective(new) /\ log' = [log EXCEPT ![a] = @ \o new]
    /\ content' \in [Logged' -> Fields]
    /\ \A i \in Logged : content'[i] = content[i]
    /\ UNCHANGED trash

Trash(i) ==
    /\ i \in Logged \ trash
    /\ trash' = trash \cup {i}
    /\ UNCHANGED <<log, content>>

Recover(i) ==
    /\ i \in trash
    /\ trash' = trash \ {i}
    /\ UNCHANGED <<log, content>>

Edit(i) ==
    /\ i \in Logged \ trash
    /\ \E f \in Fields : content' = [content EXCEPT ![i] = f]
    /\ UNCHANGED <<log, trash>>

Next ==
    \/ \E a \in Accounts : AppendBatch(a)
    \/ \E i \in Ids : Trash(i) \/ Recover(i) \/ Edit(i)

Spec == Init /\ [][Next]_vars
=============================================================================
