----------------------------- MODULE Pagination ----------------------------
(***************************************************************************)
(* A client walks through the listing of a collection, page by page, while *)
(* others write to it.  find_documents reads the page in one statement and *)
(* counts the matching documents in a second one, outside a transaction.   *)
(* In cursor mode the next request names the last (after_cursor) or the    *)
(* first document (before_cursor) of the page at hand; in page mode it     *)
(* names the number of the page.                                           *)
(*                                                                         *)
(* A row outside the query's filters does not exist here; to come to match *)
(* them is to be created.                                                  *)
(***************************************************************************)
EXTENDS Keyset, Sequences, FiniteSets, SequencesExt

CONSTANTS
    Vals,      \* values of the sort column
    Queries    \* a listing, its mode, the limit, and how many writes there are

ASSUME PaginationAssumption ==
    /\ IsFiniteSet(Ids) /\ IsFiniteSet(Vals)
    /\ Vals \subseteq Nat
    /\ Queries \subseteq [list : Listings, nulls : BOOLEAN, cursor : BOOLEAN,
                          limit : Nat \ {0}, writes : Nat]

VARIABLES
    query,   \* what is asked for, fixed
    rows,    \* the documents that match
    req,     \* a request between its two statements
    page,    \* the last answer
    walk,    \* history of the walk: see Walks
    left     \* writes that may still happen

vars == <<query, rows, req, page, walk, left>>

Kinds == {"none", "first", "after", "before"}

Requests == [kind : Kinds, docs : Seq(Rows), number : Nat, more : BOOLEAN]
NoRequest == [kind |-> "none", docs |-> <<>>, number |-> 0, more |-> FALSE]

(* from is what the page before this one showed.                           *)
Pages == [kind : Kinds, docs : Seq(Rows), number : Nat, next : BOOLEAN, prev : BOOLEAN,
          from : Seq(Rows)]
NoPage == [kind |-> "none", docs |-> <<>>, number |-> 0, next |-> FALSE, prev |-> FALSE,
           from |-> <<>>]

(* Since its first page: how often the walk has shown each document (two   *)
(* stands for more), the rows that have been there all the time, unchanged,*)
(* whether nothing at all has been written, whether a row went between the *)
(* two statements of the first page, whether it has only gone forwards,    *)
(* and the last row shown.                                                 *)
Walks == [shown : [Ids -> 0..2], stable : SUBSET Rows, quiet : BOOLEAN,
          raced : BOOLEAN, forward : BOOLEAN, pos : Seq(Rows)]

PaginationTypeOK ==
    /\ query \in Queries
    /\ rows \subseteq Rows
    /\ req \in Requests
    /\ page \in Pages
    /\ walk \in Walks
    /\ left \in Nat

Statuses == IF query.list.drafts THEN {0, 1} ELSE {1}
Values == IF query.nulls THEN Vals \cup {Null} ELSE Vals

NewWalk == [shown |-> [i \in Ids |-> 0], stable |-> rows, quiet |-> TRUE,
            raced |-> FALSE, forward |-> TRUE, pos |-> <<>>]

Init ==
    /\ query \in Queries
    /\ \E D \in SUBSET Ids :
          \E status \in [D -> Statuses], val \in [D -> Values] :
             rows = {[id |-> i, status |-> status[i], val |-> val[i]] : i \in D}
    /\ req = NoRequest
    /\ page = NoPage
    /\ walk = NewWalk
    /\ left = query.writes

-----------------------------------------------------------------------------
(* The page: its rows in order, cut to the limit.  The place of a row is   *)
(* the number of rows before it.                                           *)

RowsBefore(r, S) == {s \in S : apply_order_by(query.list, s, r)}

Ordered(S) ==
    [k \in 1 .. Cardinality(S) |-> CHOOSE r \in S : Cardinality(RowsBefore(r, S)) = k - 1]

First(s, n) == SubSeq(s, 1, IF n < Len(s) THEN n ELSE Len(s))
Final(s, n) == SubSeq(s, IF n < Len(s) THEN Len(s) - n + 1 ELSE 1, Len(s))

(* Backwards the query runs in the opposite order and map_rows turns the   *)
(* result round.                                                           *)
apply_limit(s, before, n) == IF before THEN Final(s, n) ELSE First(s, n)

find(c, before) == Ordered({r \in rows : apply_cursor_keyset(query.list, c, before, r)})

\* Mutant of Overfetched: the page is read without one row more.
FetchLimit == query.limit

Overfetched == query.limit + 1

(* With a cursor, one row more is read, and dropped.                       *)
CursorRequest(kind, c) ==
    LET before == kind = "before"
        got    == apply_limit(find(c, before), before, Overfetched)
    IN  [kind |-> kind, number |-> 0,
         more |-> Len(got) > query.limit,
         docs |-> apply_limit(got, before, query.limit)]

PageRequest(kind, n) ==
    LET offset == (n - 1) * query.limit
    IN  [kind |-> kind, number |-> n, more |-> FALSE,
         docs |-> First(SubSeq(Ordered(rows), offset + 1, Cardinality(rows)), query.limit)]

FindFirst ==
    /\ req.kind = "none"
    /\ req' = PageRequest("first", 1)
    /\ page' = NoPage
    /\ walk' = NewWalk
    /\ UNCHANGED <<query, rows, left>>

(* Without a document on the page there is no cursor to go on from.        *)
FindAfter ==
    /\ req.kind = "none"
    /\ page.next
    /\ query.cursor => page.docs # <<>>
    /\ req' = IF query.cursor
              THEN CursorRequest("after", cursor_from_doc(query.list, Last(page.docs)))
              ELSE PageRequest("after", page.number + 1)
    /\ UNCHANGED <<query, rows, page, walk, left>>

FindBefore ==
    /\ req.kind = "none"
    /\ page.prev
    /\ query.cursor => page.docs # <<>>
    /\ req' = IF query.cursor
              THEN CursorRequest("before", cursor_from_doc(query.list, Head(page.docs)))
              ELSE PageRequest("before", page.number - 1)
    /\ UNCHANGED <<query, rows, page, walk, left>>

-----------------------------------------------------------------------------
(* The count, and the answer.                                              *)

\* Mutant of total_pages: the division rounds down.
FullPages == Cardinality(rows) \div query.limit

total_pages == (Cardinality(rows) + query.limit - 1) \div query.limit

Flags ==
    IF query.cursor
    THEN CASE req.kind = "first"  -> <<total_pages > 1, FALSE>>
           [] req.kind = "after"  -> <<req.more, TRUE>>
           [] req.kind = "before" -> <<TRUE, req.more>>
    ELSE <<req.number < total_pages, req.number > 1>>

Shown ==
    [i \in Ids |->
        LET n == walk.shown[i]
        IN  IF n < 2 /\ \E k \in DOMAIN req.docs : req.docs[k].id = i THEN n + 1 ELSE n]

find_documents ==
    /\ req.kind # "none"
    /\ page' = [kind |-> req.kind, docs |-> req.docs, number |-> req.number,
                next |-> Flags[1], prev |-> Flags[2], from |-> page.docs]
    /\ walk' = [walk EXCEPT !.shown = Shown,
                            !.forward = @ /\ req.kind # "before",
                            !.pos = IF req.docs = <<>> THEN @ ELSE <<Last(req.docs)>>]
    /\ req' = NoRequest
    /\ UNCHANGED <<query, rows, left>>

-----------------------------------------------------------------------------
(* What others write: a document comes, goes, or changes.                  *)

Write(new) ==
    /\ left > 0
    /\ left' = left - 1
    /\ rows' = new
    /\ walk' = [walk EXCEPT !.stable = @ \cap new, !.quiet = FALSE,
                            !.raced = @ \/ (req.kind = "first"
                                             /\ Cardinality(new) < Cardinality(rows))]
    /\ UNCHANGED <<query, req, page>>

Create ==
    \E i \in Ids \ {r.id : r \in rows}, s \in Statuses, v \in Values :
        Write(rows \cup {[id |-> i, status |-> s, val |-> v]})

Delete == \E r \in rows : Write(rows \ {r})

Update ==
    \E r \in rows, s \in Statuses, v \in Values :
        /\ <<s, v>> # <<r.status, r.val>>
        /\ Write((rows \ {r}) \cup {[r EXCEPT !.status = s, !.val = v]})

Next ==
    \/ FindFirst \/ FindAfter \/ FindBefore
    \/ find_documents
    \/ Create \/ Delete \/ Update

Spec == Init /\ [][Next]_vars

-----------------------------------------------------------------------------
Answered == req.kind = "none" /\ page.kind # "none"

UpTo(r, s) == r = s \/ apply_order_by(query.list, r, s)

(* Cursors name positions: page numbers do so only while nothing changes.  *)
Holds(before) ==
    IF query.cursor THEN Exact(query.list, query.nulls, before) ELSE walk.quiet

(* However documents come, go and change between the requests of a walk    *)
(* forwards, those that stay as they are are shown in order, each once:    *)
(* all of them up to the last row shown, and none beyond it                *)
(* (apply_cursor_keyset, apply_order_by).                                  *)
WalkCovers ==
    Answered /\ walk.forward /\ Holds(FALSE) =>
        \A r \in walk.stable :
            walk.shown[r.id] = IF \E k \in DOMAIN walk.pos : UpTo(r, walk.pos[k])
                               THEN 1 ELSE 0

(* When an answer says that there is no next page, the walk has shown every*)
(* document that was there all the time, unless one was deleted between    *)
(* the two statements of the first page (build_pagination).                *)
WalkComplete ==
    Answered /\ walk.forward /\ Holds(FALSE) /\ ~page.next /\ ~walk.raced =>
        \A r \in walk.stable : walk.shown[r.id] = 1

(* While nothing is written, to go on and back again, or back and on,      *)
(* shows the same page, across the border of drafts and published          *)
(* documents too (CursorData::status_val).                                 *)
Symmetric ==
    [][/\ Answered' /\ req.kind # "none"
       /\ {req.kind, page.kind} = {"after", "before"}
       /\ walk.quiet /\ Holds(FALSE) /\ Holds(TRUE)
       => page'.docs = page.from]_vars

(* While nothing is written, has_next_page and has_prev_page say whether   *)
(* there are documents after and before those of the page                  *)
(* (PaginationResultBuilder).                                              *)
FlagsTrue ==
    Answered /\ walk.quiet /\ page.docs # <<>> /\ Holds(FALSE) /\ Holds(TRUE) =>
        /\ page.next <=> \E r \in rows : ~UpTo(r, Last(page.docs))
        /\ page.prev <=> \E r \in rows : apply_order_by(query.list, r, Head(page.docs))
=============================================================================
