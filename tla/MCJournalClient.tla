--------------------------- MODULE MCJournalClient ---------------------------
(* JournalClient for TLC: a user with two accounts.                         *)
EXTENDS JournalClient

MCFirst == {<<>>, <<"a", "b">>}
MCRemembered == {None}
=============================================================================
