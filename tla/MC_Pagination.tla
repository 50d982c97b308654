--------------------------- MODULE MC_Pagination ---------------------------
(* Instance of Pagination for TLC.                                         *)
EXTENDS Pagination

NoValue == -1

(* The backends differ in where NULL sorts, and page numbers do not depend *)
(* on what the answer holds.                                               *)
Asks(drafts, nulls, cursor, limit, writes) ==
    [list : {l \in Listings : /\ l.drafts = drafts
                              /\ l.pg => nulls
                              /\ ~l.kept => cursor},
     nulls : {nulls}, cursor : {cursor}, limit : {limit}, writes : {writes}]

Asked ==
    Asks(TRUE, FALSE, TRUE, 2, 0)             \* drafts, pages of two, no writes
      \cup Asks(FALSE, TRUE, TRUE, 1, 1)      \* NULLs and a write
      \cup Asks(TRUE, FALSE, TRUE, 1, 1)
      \cup Asks(FALSE, FALSE, FALSE, 2, 1)    \* page numbers
=============================================================================
