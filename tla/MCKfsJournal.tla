--------------------------- MODULE MCKfsJournal ---------------------------
(* Instances of KfsJournal for TLC: two home blocks and the superblock, two
   possible contents, and a journal of two entries, so that transactions
   coalesce, fill the journal and overflow it. *)
EXTENDS KfsJournal
=============================================================================
