------------------------------- MODULE Keyset ------------------------------
(***************************************************************************)
(* The order in which a listing shows its documents, and the WHERE clause  *)
(* that picks up the listing after, or before, a cursor.  A row has an id, *)
(* a status (0: draft, 1: published) and a value in the sort column; ids   *)
(* and values are numbers, compared as SQL compares the strings they stand *)
(* for.  A comparison with NULL is not true.                               *)
(***************************************************************************)
EXTENDS Integers

CONSTANTS
    Null,    \* of the sort column
    Ids

ASSUME KeysetAssumption ==
    /\ Ids \subseteq Nat
    /\ Null \notin Nat

Rows == [id : Ids, status : {0, 1}, val : Nat \cup {Null}]

(* A collection and a query: the backend, the direction of the sort,       *)
(* whether the listing puts drafts first (drafts), and whether the answer  *)
(* still holds what the cursor is made of (kept).                          *)
Listings == [pg : BOOLEAN, dir : {"asc", "desc"}, drafts : BOOLEAN, kept : BOOLEAN]

Cursors == [id : Ids, status : {0, 1}, val : Nat \cup {Null}]

-----------------------------------------------------------------------------
(* ORDER BY _status ASC, column DIR, id DIR.  SQLite takes NULL for the    *)
(* smallest value, Postgres for the largest.                               *)

NullFirst(l) == ~l.pg

Less(l, v, w) ==
    IF v = Null \/ w = Null
    THEN v # w /\ (NullFirst(l) <=> v = Null)
    ELSE v < w

Up(l, r, s) == Less(l, r.val, s.val) \/ (r.val = s.val /\ r.id < s.id)

Inner(l, r, s) == IF l.dir = "asc" THEN Up(l, r, s) ELSE Up(l, s, r)

apply_order_by(l, r, s) ==
    IF l.drafts
    THEN r.status < s.status \/ (r.status = s.status /\ Inner(l, r, s))
    ELSE Inner(l, r, s)

-----------------------------------------------------------------------------
(* The cursor of a row as the answer shows it.  When the select, the       *)
(* reader's field access or a hook has taken the fields out, the value is  *)
(* NULL and the status "published".                                        *)
cursor_from_doc(l, r) ==
    IF l.kept THEN r ELSE [id |-> r.id, status |-> 1, val |-> Null]

inner_op(l, before) == IF (l.dir = "desc") = before THEN ">" ELSE "<"

Compare(op, v, w) == IF op = ">" THEN v > w ELSE v < w

\* Mutant of inner_keyset_clause: no tiebreaker.
ByValueOnly(op, c, r) == r.val # Null /\ (c.val # Null => Compare(op, r.val, c.val))

inner_keyset_clause(op, c, r) ==
    IF c.val = Null
    THEN IF op = ">" THEN (r.val = Null /\ r.id > c.id) \/ r.val # Null
         ELSE r.val = Null /\ r.id < c.id
    ELSE /\ r.val # Null
         /\ \/ Compare(op, r.val, c.val)
            \/ r.val = c.val /\ Compare(op, r.id, c.id)

\* Mutant of apply_cursor_keyset: the comparison of the status is not turned round.
DraftsFirst(l, c, before, r) ==
    LET inner == inner_keyset_clause(inner_op(l, before), c, r)
    IN  IF l.drafts THEN r.status > c.status \/ (r.status = c.status /\ inner) ELSE inner

apply_cursor_keyset(l, c, before, r) ==
    LET outer == IF before THEN r.status < c.status ELSE r.status > c.status
        inner == inner_keyset_clause(inner_op(l, before), c, r)
    IN  IF l.drafts THEN outer \/ (r.status = c.status /\ inner) ELSE inner

-----------------------------------------------------------------------------
(* The clause finds what the order asks for: without NULLs, and with them  *)
(* on SQLite towards larger values.                                        *)
Exact(l, nulls, before) ==
    /\ l.kept
    /\ nulls => ~l.pg /\ inner_op(l, before) = ">"
=============================================================================
