---------------------------- MODULE KeysetProofs ---------------------------
(***************************************************************************)
(* The cursor clause against the order of the listing, for all rows, ids   *)
(* and values; and the walks of Pagination, for any collection, any limit  *)
(* and any writes.                                                         *)
(***************************************************************************)
EXTENDS Pagination, FiniteSetTheorems, FunctionTheorems, SequenceTheorems, TLAPS

(* The values of a column are in a strict total order on either backend.   *)
LEMMA ValuesOrdered ==
    ASSUME NEW l \in Listings,
           NEW u \in Nat \cup {Null}, NEW v \in Nat \cup {Null}, NEW w \in Nat \cup {Null}
    PROVE  /\ ~Less(l, u, u)
           /\ Less(l, u, v) /\ Less(l, v, w) => Less(l, u, w)
           /\ Less(l, u, v) \/ u = v \/ Less(l, v, u)
BY KeysetAssumption DEF Less, NullFirst, Listings

(* The same for rows, by value and id.                                     *)
LEMMA RowsOrdered ==
    ASSUME NEW l \in Listings, NEW r \in Rows, NEW s \in Rows, NEW t \in Rows
    PROVE  /\ ~Up(l, r, r)
           /\ Up(l, r, s) /\ Up(l, s, t) => Up(l, r, t)
           /\ r.id # s.id => Up(l, r, s) \/ Up(l, s, r)
<1>1. /\ r.val \in Nat \cup {Null} /\ s.val \in Nat \cup {Null} /\ t.val \in Nat \cup {Null}
      /\ r.id \in Nat /\ s.id \in Nat /\ t.id \in Nat
  BY KeysetAssumption DEF Rows
<1>2. ~Up(l, r, r)
  <2>1. ~Less(l, r.val, r.val)
    BY <1>1, ValuesOrdered
  <2> QED BY <1>1, <2>1 DEF Up
<1>3. Up(l, r, s) /\ Up(l, s, t) => Up(l, r, t)
  <2>1. Less(l, r.val, s.val) /\ Less(l, s.val, t.val) => Less(l, r.val, t.val)
    BY <1>1, ValuesOrdered
  <2> QED BY <1>1, <2>1 DEF Up
<1>4. r.id # s.id => Up(l, r, s) \/ Up(l, s, r)
  <2>1. Less(l, r.val, s.val) \/ r.val = s.val \/ Less(l, s.val, r.val)
    BY <1>1, ValuesOrdered
  <2> QED BY <1>1, <2>1 DEF Up
<1> QED BY <1>2, <1>3, <1>4

(* The order of a listing (apply_order_by) is a strict total order of the  *)
(* documents: no two of them tie, whatever their values and statuses, so   *)
(* that a position in it is well defined.                                  *)
THEOREM ListingOrdered ==
    ASSUME NEW l \in Listings, NEW r \in Rows, NEW s \in Rows, NEW t \in Rows
    PROVE  /\ ~apply_order_by(l, r, r)
           /\ apply_order_by(l, r, s) /\ apply_order_by(l, s, t) => apply_order_by(l, r, t)
           /\ r.id # s.id => apply_order_by(l, r, s) \/ apply_order_by(l, s, r)
<1>1. r.status \in Nat /\ s.status \in Nat /\ t.status \in Nat
  BY DEF Rows
<1>2. /\ ~Inner(l, r, r)
      /\ Inner(l, r, s) /\ Inner(l, s, t) => Inner(l, r, t)
      /\ r.id # s.id => Inner(l, r, s) \/ Inner(l, s, r)
  BY RowsOrdered DEF Inner
<1> QED BY <1>1, <1>2 DEF apply_order_by

(* Up, in the terms of the clause: towards larger values it is the order,  *)
(* on SQLite also where there are NULLs.                                   *)
LEMMA ClauseUp ==
    ASSUME NEW l \in Listings, NEW c \in Rows, NEW r \in Rows,
           ~l.pg \/ (c.val # Null /\ r.val # Null)
    PROVE  inner_keyset_clause(">", c, r) <=> Up(l, c, r)
<1>1. /\ c.val \in Nat \cup {Null} /\ r.val \in Nat \cup {Null}
      /\ c.id \in Nat /\ r.id \in Nat
  BY KeysetAssumption DEF Rows
<1> QED BY <1>1, KeysetAssumption DEF inner_keyset_clause, Compare, Up, Less, NullFirst

LEMMA ClauseDown ==
    ASSUME NEW l \in Listings, NEW c \in Rows, NEW r \in Rows,
           c.val # Null, r.val # Null
    PROVE  inner_keyset_clause("<", c, r) <=> Up(l, r, c)
<1>1. /\ c.val \in Nat /\ r.val \in Nat
      /\ c.id \in Nat /\ r.id \in Nat
  BY KeysetAssumption DEF Rows
<1> QED BY <1>1, KeysetAssumption DEF inner_keyset_clause, Compare, Up, Less, NullFirst

(* Within its scope the cursor of a document finds exactly the documents   *)
(* that come after it in the listing, and before it with before_cursor:    *)
(* with drafts first or not, in both directions, for any ids and values    *)
(* (apply_cursor_keyset against apply_order_by).                           *)
THEOREM KeysetExact ==
    ASSUME NEW l \in Listings, NEW nulls \in BOOLEAN, NEW before \in BOOLEAN,
           NEW c \in Rows, NEW r \in Rows,
           Exact(l, nulls, before),
           nulls \/ (c.val # Null /\ r.val # Null)
    PROVE  apply_cursor_keyset(l, cursor_from_doc(l, c), before, r)
              <=> IF before THEN apply_order_by(l, r, c) ELSE apply_order_by(l, c, r)
<1>1. cursor_from_doc(l, c) = c
  BY DEF Exact, cursor_from_doc
<1>2. l.dir \in {"asc", "desc"} /\ l.drafts \in BOOLEAN /\ l.pg \in BOOLEAN
  BY DEF Listings
<1>3. r.status \in Nat /\ c.status \in Nat
  BY DEF Rows
<1>4. inner_keyset_clause(inner_op(l, before), c, r)
         <=> IF before THEN Inner(l, r, c) ELSE Inner(l, c, r)
  <2>1. CASE inner_op(l, before) = ">"
    <3>1. inner_keyset_clause(inner_op(l, before), c, r) <=> Up(l, c, r)
      BY <2>1, <1>2, ClauseUp DEF Exact
    <3>2. (l.dir = "desc") = before
      BY <2>1 DEF inner_op
    <3> QED BY <3>1, <3>2, <1>2 DEF Inner
  <2>2. CASE inner_op(l, before) = "<"
    <3>1. c.val # Null /\ r.val # Null
      BY <2>2 DEF Exact
    <3>2. inner_keyset_clause(inner_op(l, before), c, r) <=> Up(l, r, c)
      BY <2>2, <3>1, ClauseDown
    <3>3. (l.dir = "desc") # before
      BY <2>2 DEF inner_op
    <3> QED BY <3>2, <3>3, <1>2 DEF Inner
  <2> QED BY <2>1, <2>2 DEF inner_op
<1> QED BY <1>1, <1>2, <1>3, <1>4 DEF apply_cursor_keyset, apply_order_by

-----------------------------------------------------------------------------
\* The inductive invariants of a walk.

Lt(r, s) == apply_order_by(query.list, r, s)

(* The rows a query can meet.                                              *)
Proper == {r \in Rows : query.nulls \/ r.val # Null}

OneEach(S) == \A r, s \in S : r.id = s.id => r = s

In(r, docs) == \E k \in DOMAIN docs : docs[k] = r

(* Of a row that stays, a page or a position shows no other version.       *)
Agrees(docs) == \A r \in walk.stable, k \in DOMAIN docs : docs[k].id = r.id => docs[k] = r

WalkInv ==
    /\ PaginationTypeOK
    /\ rows \subseteq Proper /\ IsFiniteSet(rows) /\ OneEach(rows)
    /\ walk.stable \subseteq rows
    /\ walk.quiet => walk.stable = rows
    /\ req.docs \in Seq(Proper) /\ page.docs \in Seq(Proper) /\ walk.pos \in Seq(Proper)
    /\ Agrees(req.docs) /\ Agrees(walk.pos)
    /\ page.docs # <<>> => walk.pos = <<Last(page.docs)>>
    /\ req.kind = "first" => page.kind = "none"
    /\ req.kind \in {"after", "before"} => page.kind # "none"
    /\ ~query.cursor /\ page.prev => page.number > 1
    /\ page.kind = "none" =>
          /\ ~page.next /\ ~page.prev /\ page.docs = <<>>
          /\ walk.pos = <<>> /\ \A i \in Ids : walk.shown[i] = 0

(* The rows that follow the last row shown.                                *)
Ahead(r) == \A k \in DOMAIN walk.pos : Lt(walk.pos[k], r)

Covered(r) == \E k \in DOMAIN walk.pos : UpTo(r, walk.pos[k])

(* Nothing follows the page that is under way.                             *)
NoMore ==
    \/ req.kind = "first" /\ ~walk.raced /\ Cardinality(rows) <= query.limit
    \/ req.kind = "after" /\ IF query.cursor THEN ~req.more
                             ELSE Cardinality(rows) <= req.number * query.limit

(* A page under way holds the rows that stay from the position to its end. *)
Contiguous ==
    /\ \A r \in walk.stable : In(r, req.docs) <=>
          req.docs # <<>> /\ Ahead(r) /\ UpTo(r, Last(req.docs))
    /\ req.docs # <<>> => Ahead(Last(req.docs))
    /\ NoMore => \A r \in walk.stable : Ahead(r) => In(r, req.docs)

CoverInv ==
    walk.forward /\ Holds(FALSE) =>
        /\ \A r \in walk.stable : walk.shown[r.id] = IF Covered(r) THEN 1 ELSE 0
        /\ page.kind # "none" /\ ~page.next /\ ~walk.raced =>
              \A r \in walk.stable : Covered(r)
        /\ req.kind \in {"first", "after"} => Contiguous

Total == Cardinality(rows)

From(t, s, a) == \A k \in 1 .. Len(t) : t[k] = s[a + k]

(* While nothing is written, a page is a window of the listing s: the rows *)
(* behind the first a up to the b-th.                                      *)
Window(s, docs, a, b) ==
    /\ a \in 0 .. b /\ b \in 0 .. Len(s)
    /\ Len(docs) = b - a /\ From(docs, s, a)

FullAfter(l, t, a, b) == b = IF a + l < t THEN a + l ELSE t
FullBefore(l, a, b)   == a = IF b > l THEN b - l ELSE 0

(* Its window is full unless it ends the listing, and in page mode its     *)
(* number gives its place.                                                 *)
Fits(q, t, a, b, n) ==
    /\ t > 0 => a < b
    /\ b < t => FullBefore(q.limit, a, b)
    /\ a > 0 => FullAfter(q.limit, t, a, b)
    /\ ~q.cursor => n > 0 /\ a = (n - 1) * q.limit /\ FullAfter(q.limit, t, a, b)

PageWindow(q, s, p, a, b) ==
    /\ Window(s, p.docs, a, b) /\ Fits(q, Len(s), a, b, p.number)
    /\ p.next = (b < Len(s)) /\ p.prev = (a > 0)
    /\ p.kind = "after" =>
          \E c \in 0 .. a : Window(s, p.from, c, a) /\ FullBefore(q.limit, c, a)
    /\ p.kind = "before" =>
          \E c \in b .. Len(s) : Window(s, p.from, b, c) /\ FullAfter(q.limit, Len(s), b, c)

ReqWindow(q, s, p, r, a, b) ==
    /\ Window(s, r.docs, a, b) /\ Fits(q, Len(s), a, b, r.number)
    /\ r.kind = "first" => a = 0 /\ FullAfter(q.limit, Len(s), a, b)
    /\ r.kind = "after" =>
          /\ \E c \in 0 .. a : PageWindow(q, s, p, c, a)
          /\ FullAfter(q.limit, Len(s), a, b) /\ a > 0
          /\ q.cursor => r.more = (b < Len(s))
    /\ r.kind = "before" =>
          /\ \E c \in b .. Len(s) : PageWindow(q, s, p, b, c)
          /\ FullBefore(q.limit, a, b) /\ b < Len(s)
          /\ q.cursor => r.more = (a > 0)

Steady == walk.quiet /\ Holds(FALSE) /\ Holds(TRUE)

WindowInv ==
    Steady =>
        /\ page.kind # "none" =>
              \E a, b \in 0 .. Total : PageWindow(query, Ordered(rows), page, a, b)
        /\ req.kind # "none" =>
              \E a, b \in 0 .. Total : ReqWindow(query, Ordered(rows), page, req, a, b)

-----------------------------------------------------------------------------
\* The order of a set of rows.

LEMMA Orders ==
    ASSUME query.list \in Listings, NEW r \in Rows, NEW s \in Rows, NEW t \in Rows
    PROVE  /\ ~Lt(r, r)
           /\ Lt(r, s) /\ Lt(s, t) => Lt(r, t)
           /\ r.id # s.id => Lt(r, s) \/ Lt(s, r)
  BY ListingOrdered DEF Lt

(* A row that comes before another one has fewer rows before it.           *)
LEMMA PlaceGrows ==
    ASSUME query.list \in Listings, NEW S \in SUBSET Rows, IsFiniteSet(S),
           NEW r \in S, NEW s \in S
    PROVE  /\ IsFiniteSet(RowsBefore(r, S))
           /\ Cardinality(RowsBefore(r, S)) \in Nat /\ Cardinality(RowsBefore(s, S)) \in Nat
           /\ Cardinality(RowsBefore(r, S)) < Cardinality(S)
           /\ Lt(r, s) => Cardinality(RowsBefore(r, S)) < Cardinality(RowsBefore(s, S))
<1>1. \A x \in S : IsFiniteSet(RowsBefore(x, S)) /\ Cardinality(RowsBefore(x, S)) \in Nat
  <2> SUFFICES ASSUME NEW x \in S
               PROVE  IsFiniteSet(RowsBefore(x, S)) /\ Cardinality(RowsBefore(x, S)) \in Nat
    OBVIOUS
  <2>1. RowsBefore(x, S) \in SUBSET S
    BY DEF RowsBefore
  <2> QED
    BY <2>1, FS_Subset, FS_CardinalityType
<1>2. r \notin RowsBefore(r, S)
  BY Orders DEF RowsBefore, Lt
<1>3. /\ IsFiniteSet(RowsBefore(r, S) \cup {r})
      /\ Cardinality(RowsBefore(r, S) \cup {r}) = Cardinality(RowsBefore(r, S)) + 1
  BY <1>1, <1>2, FS_AddElement
<1>4. RowsBefore(r, S) \cup {r} \in SUBSET S
  BY DEF RowsBefore
<1>5. Cardinality(RowsBefore(r, S)) + 1 <= Cardinality(S) /\ Cardinality(S) \in Nat
  BY <1>3, <1>4, FS_Subset, FS_CardinalityType
<1>6. ASSUME Lt(r, s)
      PROVE  Cardinality(RowsBefore(r, S)) < Cardinality(RowsBefore(s, S))
  <2>1. RowsBefore(r, S) \cup {r} \in SUBSET RowsBefore(s, S)
    <3>1. \A x \in S : Lt(x, r) => Lt(x, s)
      BY <1>6, Orders
    <3> QED
      BY <1>6, <3>1 DEF RowsBefore, Lt
  <2>2. Cardinality(RowsBefore(r, S) \cup {r}) <= Cardinality(RowsBefore(s, S))
    BY <1>1, <2>1, FS_Subset
  <2> QED
    BY <1>1, <1>3, <2>2
<1> QED
  BY <1>1, <1>5, <1>6

(* Ordered lists each row once, in the order of the listing.               *)
LEMMA Sorted ==
    ASSUME query.list \in Listings, NEW S \in SUBSET Rows, IsFiniteSet(S), OneEach(S)
    PROVE  /\ Cardinality(S) \in Nat
           /\ Ordered(S) \in Seq(S) /\ Len(Ordered(S)) = Cardinality(S)
           /\ \A k \in 1 .. Cardinality(S) : Ordered(S)[k] \in S
           /\ \A r \in S : \E k \in 1 .. Cardinality(S) : Ordered(S)[k] = r
           /\ \A j, k \in 1 .. Cardinality(S) : j < k <=> Lt(Ordered(S)[j], Ordered(S)[k])
           /\ \A r \in S : Ordered(S)[Cardinality(RowsBefore(r, S)) + 1] = r
<1> DEFINE n == Cardinality(S)
           f == [r \in S |-> Cardinality(RowsBefore(r, S)) + 1]
<1>1. n \in Nat
  BY FS_CardinalityType
<1>2. f \in [S -> 1 .. n]
  BY <1>1, PlaceGrows
<1>3. \A r, s \in S : Lt(r, s) => f[r] < f[s]
  BY PlaceGrows
<1>4. \A r, s \in S : r # s => Lt(r, s) \/ Lt(s, r)
  BY Orders DEF OneEach
<1>5. \A r, s \in S : f[r] = f[s] => r = s
  BY <1>2, <1>3, <1>4
<1>6. f \in Injection(S, 1 .. n)
  BY <1>2, <1>5 DEF Injection, IsInjective
<1>7. IsFiniteSet(1 .. n) /\ Cardinality(1 .. n) = n
  BY <1>1, FS_Interval
<1>8. f \in Surjection(S, 1 .. n)
  BY <1>6, <1>7, FS_Injection
<1>9. \A k \in 1 .. n : \E r \in S : f[r] = k
  BY <1>8 DEF Surjection
<1>10. \A k \in 1 .. n : Ordered(S)[k] \in S /\ f[Ordered(S)[k]] = k
  <2> SUFFICES ASSUME NEW k \in 1 .. n PROVE Ordered(S)[k] \in S /\ f[Ordered(S)[k]] = k
    OBVIOUS
  <2>1. Ordered(S)[k] = CHOOSE r \in S : Cardinality(RowsBefore(r, S)) = k - 1
    BY DEF Ordered
  <2>2. PICK r \in S : f[r] = k
    BY <1>9
  <2>3. Cardinality(RowsBefore(r, S)) = k - 1
    BY <2>2, PlaceGrows
  <2>4. Ordered(S)[k] \in S /\ Cardinality(RowsBefore(Ordered(S)[k], S)) = k - 1
    BY <2>1, <2>3
  <2> QED
    BY <2>4
<1>11. Ordered(S) \in [1 .. n -> S]
  BY <1>10 DEF Ordered
<1>12. Ordered(S) \in Seq(S) /\ Len(Ordered(S)) = n
  BY <1>1, <1>11
<1>13. \A r \in S : f[r] = Cardinality(RowsBefore(r, S)) + 1
  OBVIOUS
<1> HIDE DEF f
<1>14. \A r \in S : Ordered(S)[f[r]] = r
  BY <1>2, <1>5, <1>10
<1>15. ASSUME NEW r \in S PROVE \E k \in 1 .. n : Ordered(S)[k] = r
  <2>1. f[r] \in 1 .. n
    BY <1>2
  <2> QED
    BY <1>5, <1>10, <2>1
<1>16. ASSUME NEW j \in 1 .. n, NEW k \in 1 .. n
       PROVE  j < k <=> Lt(Ordered(S)[j], Ordered(S)[k])
  <2>1. ASSUME Lt(Ordered(S)[j], Ordered(S)[k]) PROVE j < k
    BY <1>3, <1>10, <2>1
  <2>2. ASSUME j < k PROVE Lt(Ordered(S)[j], Ordered(S)[k])
    <3>1. Ordered(S)[j] # Ordered(S)[k]
      BY <1>10, <2>2
    <3>2. ~Lt(Ordered(S)[k], Ordered(S)[j])
      <4>1. f[Ordered(S)[j]] = j /\ f[Ordered(S)[k]] = k
        BY <1>10
      <4> QED
        BY <1>1, <1>3, <1>10, <2>2, <4>1
    <3> QED
      BY <1>4, <1>10, <3>1, <3>2
  <2> QED
    BY <2>1, <2>2
<1> QED
  BY <1>1, <1>10, <1>12, <1>15, <1>16, <1>13, <1>14

(* As many rows as places, in a part of a sorted listing.                  *)
LEMMA PartSize ==
    ASSUME query.list \in Listings, NEW R \in SUBSET Rows, IsFiniteSet(R), OneEach(R),
           NEW a \in Nat, NEW b \in Nat, a <= b, b <= Cardinality(R)
    PROVE  LET S == {Ordered(R)[j] : j \in (a + 1) .. b}
           IN  IsFiniteSet(S) /\ Cardinality(S) = b - a
<1> DEFINE S == {Ordered(R)[j] : j \in (a + 1) .. b}
           g == [j \in (a + 1) .. b |-> Ordered(R)[j]]
<1>1. Cardinality(R) \in Nat /\ \A j, k \in 1 .. Cardinality(R) :
         Ordered(R)[j] \in R /\ (j < k <=> Lt(Ordered(R)[j], Ordered(R)[k]))
  BY Sorted
<1>2. \A j, k \in 1 .. Cardinality(R) : Ordered(R)[j] = Ordered(R)[k] => j = k
  <2> SUFFICES ASSUME NEW j \in 1 .. Cardinality(R), NEW k \in 1 .. Cardinality(R),
                      Ordered(R)[j] = Ordered(R)[k]
               PROVE  j = k
    OBVIOUS
  <2>1. ~Lt(Ordered(R)[j], Ordered(R)[k]) /\ ~Lt(Ordered(R)[k], Ordered(R)[j])
    BY <1>1, Orders
  <2> QED
    BY <1>1, <2>1
<1>3. g \in [(a + 1) .. b -> S] /\ \A j \in (a + 1) .. b : j \in 1 .. Cardinality(R)
  BY <1>1
<1>4. g \in Bijection((a + 1) .. b, S)
  <2>1. \A j, k \in (a + 1) .. b : g[j] = g[k] => j = k
    BY <1>2, <1>3
  <2>2. \A s \in S : \E j \in (a + 1) .. b : g[j] = s
    OBVIOUS
  <2> QED
    BY <1>3, <2>1, <2>2 DEF Bijection, Injection, Surjection, IsInjective
<1>5. IsFiniteSet((a + 1) .. b) /\ Cardinality((a + 1) .. b) = b - a
  <2> DEFINE c == a + 1
  <2>1. c \in Int /\ b \in Int
    OBVIOUS
  <2> HIDE DEF c
  <2>2. IsFiniteSet(c .. b) /\ Cardinality(c .. b) = IF c > b THEN 0 ELSE b - c + 1
    BY <2>1, FS_Interval
  <2> QED
    BY <2>2 DEF c
<1>6. ExistsBijection((a + 1) .. b, S)
  BY <1>4 DEF ExistsBijection
<1> QED
  BY <1>5, <1>6, FS_Bijection

(* A part of a sorted listing, sorted, is that part of it.                 *)
LEMMA PartSorted ==
    ASSUME query.list \in Listings, NEW R \in SUBSET Rows, IsFiniteSet(R), OneEach(R),
           NEW a \in Nat, NEW b \in Nat, a <= b, b <= Cardinality(R),
           NEW S, S = {Ordered(R)[j] : j \in (a + 1) .. b}
    PROVE  /\ Ordered(S) \in Seq(R) /\ Len(Ordered(S)) = b - a
           /\ From(Ordered(S), Ordered(R), a)
<1>1. Cardinality(R) \in Nat /\ \A j, k \in 1 .. Cardinality(R) :
         Ordered(R)[j] \in R /\ (j < k <=> Lt(Ordered(R)[j], Ordered(R)[k]))
  BY Sorted
<1>2. IsFiniteSet(S) /\ Cardinality(S) = b - a
  BY PartSize
<1>3. S \in SUBSET R
  BY <1>1
<1>4. S \in SUBSET Rows /\ OneEach(S)
  BY <1>3 DEF OneEach
<1>5. /\ Ordered(S) \in Seq(S) /\ Len(Ordered(S)) = b - a
      /\ \A r \in S : Ordered(S)[Cardinality(RowsBefore(r, S)) + 1] = r
  BY <1>2, <1>4, Sorted
<1>6. Ordered(S) \in Seq(R)
  BY <1>3, <1>5, SeqMonotonic
<1>7. ASSUME NEW k \in 1 .. (b - a) PROVE Ordered(S)[k] = Ordered(R)[a + k]
  <2>1. a + k \in 1 .. Cardinality(R) /\ a + k \in (a + 1) .. b
    BY <1>1
  <2>2. RowsBefore(Ordered(R)[a + k], S) = {Ordered(R)[j] : j \in (a + 1) .. (a + k - 1)}
    BY <1>1, <2>1 DEF RowsBefore, Lt
  <2>3. Cardinality(RowsBefore(Ordered(R)[a + k], S)) = (a + k - 1) - a
    <3>1. a + k - 1 \in Nat /\ a <= a + k - 1 /\ a + k - 1 <= Cardinality(R)
      BY <1>1, <2>1
    <3> DEFINE m == a + k - 1
    <3> HIDE DEF m
    <3>2. Cardinality({Ordered(R)[j] : j \in (a + 1) .. m}) = m - a
      BY <3>1, PartSize DEF m
    <3> QED
      BY <2>2, <3>2 DEF m
  <2>4. Ordered(R)[a + k] \in S
    BY <2>1
  <2> QED
    BY <1>5, <2>3, <2>4
<1> QED
  BY <1>5, <1>6, <1>7 DEF From

-----------------------------------------------------------------------------
\* What a request fetches.

Least(m, n) == IF m < n THEN m ELSE n

LEMMA FirstCut ==
    ASSUME NEW S, NEW s \in Seq(S), NEW n \in Nat, NEW t, t = First(s, n)
    PROVE  /\ t \in Seq(S) /\ Len(t) = Least(n, Len(s))
           /\ \A k \in 1 .. Len(t) : t[k] = s[k]
<1> DEFINE m == Least(n, Len(s))
<1>1. Len(s) \in Nat /\ m \in Nat /\ m <= Len(s) /\ \A k \in 1 .. Len(s) : s[k] \in S
  BY LenProperties, ElementOfSeq DEF Least
<1>2. t = SubSeq(s, 1, m)
  BY DEF First, Least
<1> HIDE DEF m
<1>3. /\ t \in Seq(S)
      /\ Len(t) = IF 1 <= m THEN m - 1 + 1 ELSE 0
      /\ \A k \in 1 .. m - 1 + 1 : t[k] = s[1 + k - 1]
  BY <1>1, <1>2, SubSeqProperties
<1> QED
  BY <1>1, <1>3 DEF m

(* t ends s.                                                               *)
Ends(t, s) == From(t, s, Len(s) - Len(t))

LEMMA FinalCut ==
    ASSUME NEW S, NEW s \in Seq(S), NEW n \in Nat, NEW t, t = Final(s, n)
    PROVE  t \in Seq(S) /\ Len(t) = Least(n, Len(s)) /\ Ends(t, s)
<1> DEFINE m == Least(n, Len(s))
           i == Len(s) - m + 1
<1>1. Len(s) \in Nat /\ m \in Nat /\ m <= Len(s) /\ \A k \in 1 .. Len(s) : s[k] \in S
  BY LenProperties, ElementOfSeq DEF Least
<1>2. t = SubSeq(s, i, Len(s))
  <2>1. i = IF n < Len(s) THEN Len(s) - n + 1 ELSE 1
    BY <1>1 DEF Least
  <2> QED
    BY <2>1 DEF Final
<1>3. i \in Int /\ i >= 1 /\ Len(s) - i + 1 = m /\ \A k \in i .. Len(s) : s[k] \in S
  BY <1>1
<1>4. \A k \in 1 .. m : i + k - 1 = Len(s) - m + k
  BY <1>1
<1> HIDE DEF m, i
<1>5. /\ t \in Seq(S)
      /\ Len(t) = IF i <= Len(s) THEN Len(s) - i + 1 ELSE 0
      /\ \A k \in 1 .. Len(s) - i + 1 : t[k] = s[i + k - 1]
  BY <1>1, <1>2, <1>3, SubSeqProperties
<1>6. Len(t) = m /\ \A k \in 1 .. m : t[k] = s[Len(s) - m + k]
  BY <1>1, <1>3, <1>4, <1>5
<1> QED
  BY <1>5, <1>6 DEF m, Ends, From

(* With a cursor: the first, or last, rows that the clause finds, and      *)
(* whether there are more.                                                 *)
LEMMA CursorFetch ==
    ASSUME NEW S, NEW kind \in {"after", "before"}, NEW c, query.limit \in Nat \ {0},
           NEW s \in Seq(S), s = find(c, kind = "before"),
           NEW q, q = CursorRequest(kind, c), NEW m, m = Least(query.limit, Len(s))
    PROVE  /\ q.kind = kind /\ q.number = 0 /\ q.more = (query.limit < Len(s))
           /\ m \in 0 .. Len(s) /\ q.docs \in Seq(S) /\ Len(q.docs) = m
           /\ q = [kind |-> kind, number |-> 0, more |-> q.more, docs |-> q.docs]
           /\ kind = "after" => \A k \in 1 .. m : q.docs[k] = s[k]
           /\ kind = "before" => Ends(q.docs, s)
<1> DEFINE got == apply_limit(s, kind = "before", Overfetched)
           docs == apply_limit(got, kind = "before", query.limit)
<1>1. q = [kind |-> kind, number |-> 0, more |-> Len(got) > query.limit, docs |-> docs]
  BY DEF CursorRequest
<1>2. /\ Overfetched \in Nat /\ Overfetched = query.limit + 1 /\ Len(s) \in Nat
      /\ m \in 0 .. Len(s)
  BY LenProperties DEF Overfetched, Least
<1>3. CASE kind = "after"
  <2>1. got = First(s, Overfetched) /\ docs = First(got, query.limit)
    BY <1>3 DEF apply_limit
  <2> HIDE DEF got, docs
  <2>2. /\ got \in Seq(S) /\ Len(got) = Least(Overfetched, Len(s))
        /\ \A k \in 1 .. Len(got) : got[k] = s[k]
    BY <1>2, <2>1, FirstCut
  <2>3. /\ docs \in Seq(S) /\ Len(docs) = Least(query.limit, Len(got))
        /\ \A k \in 1 .. Len(docs) : docs[k] = got[k]
    BY <2>1, <2>2, FirstCut
  <2>4. Least(query.limit, Len(got)) = m /\ (Len(got) > query.limit <=> query.limit < Len(s))
        /\ \A k \in 1 .. m : k \in 1 .. Len(got)
    BY <1>2, <2>2 DEF Least
  <2> QED
    BY <1>1, <1>2, <1>3, <2>2, <2>3, <2>4
<1>4. CASE kind = "before"
  <2>1. got = Final(s, Overfetched) /\ docs = Final(got, query.limit)
    BY <1>4 DEF apply_limit
  <2> HIDE DEF got, docs
  <2>2. /\ got \in Seq(S) /\ Len(got) = Least(Overfetched, Len(s))
        /\ Ends(got, s)
    BY <1>2, <2>1, FinalCut
  <2>3. /\ docs \in Seq(S) /\ Len(docs) = Least(query.limit, Len(got))
        /\ Ends(docs, got)
    BY <2>1, <2>2, FinalCut
  <2>4. Least(query.limit, Len(got)) = m /\ (Len(got) > query.limit <=> query.limit < Len(s))
        /\ Len(got) \in Nat /\ m <= Len(got)
    BY <1>2, <2>2 DEF Least
  <2>5. ASSUME NEW k \in 1 .. m PROVE docs[k] = s[Len(s) - m + k]
    <3>1. Len(got) - m + k \in 1 .. Len(got)
      BY <1>2, <2>4
    <3>2. Len(s) - Len(got) + (Len(got) - m + k) = Len(s) - m + k
      BY <1>2, <2>4
    <3>3. docs[k] = got[Len(got) - m + k]
      BY <2>3, <2>4 DEF Ends, From
    <3>4. got[Len(got) - m + k] = s[Len(s) - Len(got) + (Len(got) - m + k)]
      BY <2>2, <3>1 DEF Ends, From
    <3> QED
      BY <3>2, <3>3, <3>4
  <2>6. Ends(docs, s)
    BY <2>3, <2>4, <2>5 DEF Ends, From
  <2> QED
    BY <1>1, <1>2, <1>4, <2>3, <2>4, <2>6
<1> QED
  BY <1>3, <1>4

(* With a number: the rows from an offset.                                 *)
LEMMA PageFetch ==
    ASSUME NEW S, NEW kind \in Kinds, NEW n \in Nat \ {0}, query.limit \in Nat \ {0},
           Ordered(rows) \in Seq(S), Len(Ordered(rows)) = Cardinality(rows),
           NEW a, a = (n - 1) * query.limit, a <= Cardinality(rows),
           NEW q, q = PageRequest(kind, n),
           NEW m, m = Least(query.limit, Cardinality(rows) - a)
    PROVE  /\ q = [kind |-> kind, number |-> n, more |-> FALSE, docs |-> q.docs]
           /\ a \in Nat /\ q.docs \in Seq(S) /\ Len(q.docs) = m
           /\ m \in 0 .. (Cardinality(rows) - a)
           /\ From(q.docs, Ordered(rows), a)
<1> DEFINE total == Cardinality(rows)
           s == SubSeq(Ordered(rows), a + 1, total)
           docs == First(s, query.limit)
<1>1. q = [kind |-> kind, number |-> n, more |-> FALSE, docs |-> docs]
  BY DEF PageRequest
<1>2. a \in Nat
  <2>1. n - 1 \in Nat /\ query.limit \in Nat
    OBVIOUS
  <2>2. (n - 1) * query.limit \in Nat
    BY <2>1
  <2> QED
    BY <2>2
<1>3. total \in Nat /\ \A k \in 1 .. total : Ordered(rows)[k] \in S
  BY LenProperties, ElementOfSeq
<1>4. a <= total
  OBVIOUS
<1> HIDE DEF total
<1>5. s \in Seq(S) /\ Len(s) = total - a /\ \A k \in 1 .. (total - a) : s[k] = Ordered(rows)[a + k]
  <2> DEFINE b == a + 1
  <2>1. b \in Int /\ \A k \in b .. total : Ordered(rows)[k] \in S
    BY <1>2, <1>3
  <2>2. s = SubSeq(Ordered(rows), b, total)
    OBVIOUS
  <2> HIDE DEF b, s
  <2>3. /\ s \in Seq(S)
        /\ Len(s) = IF b <= total THEN total - b + 1 ELSE 0
        /\ \A k \in 1 .. total - b + 1 : s[k] = Ordered(rows)[b + k - 1]
    BY <1>3, <2>1, <2>2, SubSeqProperties
  <2>4. total - b + 1 = total - a /\ (b <= total \/ total - a = 0)
    BY <1>2, <1>3, <1>4 DEF b
  <2>5. \A k \in 1 .. (total - a) : b + k - 1 = a + k
    BY <1>2, <1>3 DEF b
  <2> QED
    BY <1>2, <1>3, <1>4, <2>3, <2>4, <2>5
<1> HIDE DEF s
<1>6. /\ docs \in Seq(S) /\ Len(docs) = Least(query.limit, total - a)
      /\ \A k \in 1 .. Len(docs) : docs[k] = s[k]
  <2>1. query.limit \in Nat /\ docs = First(s, query.limit) /\ s \in Seq(S)
    BY <1>5
  <2> HIDE DEF docs
  <2>2. docs \in Seq(S) /\ Len(docs) = Least(query.limit, Len(s))
        /\ \A k \in 1 .. Len(docs) : docs[k] = s[k]
    BY <2>1, FirstCut
  <2> QED
    BY <1>5, <2>2
<1>7. m \in 0 .. (total - a) /\ m = Least(query.limit, total - a)
  BY <1>2, <1>3, <1>4 DEF Least, total
<1> HIDE DEF docs
<1>8. \A k \in 1 .. m : docs[k] = Ordered(rows)[a + k]
  BY <1>2, <1>3, <1>5, <1>6, <1>7
<1>9. From(docs, Ordered(rows), a)
  BY <1>6, <1>7, <1>8 DEF From
<1> QED
  BY <1>1, <1>2, <1>6, <1>7, <1>9 DEF total

-----------------------------------------------------------------------------
\* Types, and the rows that pages show.

LEMMA Facts ==
    ASSUME WalkInv
    PROVE  /\ query \in Queries /\ query.list \in Listings /\ query.limit \in Nat \ {0}
           /\ query.nulls \in BOOLEAN /\ query.cursor \in BOOLEAN /\ query.writes \in Nat
           /\ rows \in SUBSET Rows /\ IsFiniteSet(rows) /\ OneEach(rows) /\ Total \in Nat
           /\ Ordered(rows) \in Seq(rows) /\ Len(Ordered(rows)) = Total
           /\ walk.stable \in SUBSET Rows /\ Proper \in SUBSET Rows
<1>1. /\ query \in Queries
      /\ query \in [list : Listings, nulls : BOOLEAN, cursor : BOOLEAN,
                    limit : Nat \ {0}, writes : Nat]
  BY PaginationAssumption DEF WalkInv, PaginationTypeOK
<1>2. /\ query.list \in Listings /\ query.limit \in Nat \ {0}
      /\ query.nulls \in BOOLEAN /\ query.cursor \in BOOLEAN /\ query.writes \in Nat
  BY <1>1
<1>3. rows \in SUBSET Rows /\ IsFiniteSet(rows) /\ OneEach(rows)
  BY DEF WalkInv, Proper
<1>4. walk.stable \in SUBSET Rows /\ Proper \in SUBSET Rows
  BY <1>3 DEF WalkInv, Proper
<1> QED
  BY <1>1, <1>2, <1>3, <1>4, Sorted DEF Total

(* What is fetched are rows of the collection.                             *)
LEMMA FetchedByNumber ==
    ASSUME WalkInv, NEW kind \in Kinds, NEW n \in Nat \ {0}, NEW q, q = PageRequest(kind, n)
    PROVE  /\ q = [kind |-> kind, number |-> n, more |-> q.more, docs |-> q.docs]
           /\ q.more \in BOOLEAN /\ q.docs \in Seq(rows)
<1> DEFINE b == (n - 1) * query.limit + 1
           s == SubSeq(Ordered(rows), b, Total)
           docs == First(s, query.limit)
<1>1. q = [kind |-> kind, number |-> n, more |-> FALSE, docs |-> docs]
  BY DEF PageRequest, Total
<1>2. (n - 1) * query.limit \in Nat
  BY Facts
<1>3. b \in Int /\ b >= 1
  BY <1>2
<1>4. Total \in Int /\ \A k \in 1 .. Total : Ordered(rows)[k] \in rows
  BY Facts, ElementOfSeq
<1> HIDE DEF b
<1>5. s \in Seq(rows)
  <2>1. \A k \in b .. Total : Ordered(rows)[k] \in rows
    BY <1>3, <1>4
  <2> QED
    BY <1>3, <1>4, <2>1, SubSeqProperties
<1> HIDE DEF s
<1>6. docs \in Seq(rows)
  BY <1>5, Facts, FirstCut
<1> QED
  BY <1>1, <1>6

LEMMA FetchedByCursor ==
    ASSUME WalkInv, NEW kind \in {"after", "before"}, NEW c, NEW q, q = CursorRequest(kind, c)
    PROVE  /\ q = [kind |-> kind, number |-> 0, more |-> q.more, docs |-> q.docs]
           /\ q.more \in BOOLEAN /\ q.docs \in Seq(rows)
<1> DEFINE S == {r \in rows : apply_cursor_keyset(query.list, c, kind = "before", r)}
           s == find(c, kind = "before")
<1>1. s = Ordered(S)
  BY DEF find
<1>2. S \in SUBSET rows
  OBVIOUS
<1> HIDE DEF S, s
<1>3. S \in SUBSET Rows /\ IsFiniteSet(S) /\ OneEach(S)
  BY <1>2, Facts, FS_Subset DEF OneEach
<1>4. s \in Seq(S)
  BY <1>1, <1>3, Facts, Sorted
<1>5. s \in Seq(rows)
  BY <1>2, <1>4, SeqMonotonic
<1>6. query.limit \in Nat \ {0}
  BY Facts
<1> DEFINE m == Least(query.limit, Len(s))
<1>7. /\ q = [kind |-> kind, number |-> 0, more |-> q.more, docs |-> q.docs]
      /\ q.more = (query.limit < Len(s)) /\ q.docs \in Seq(rows)
  BY <1>5, <1>6, CursorFetch DEF s
<1> QED
  BY <1>7

LEMMA RowsOfListing ==
    ASSUME WalkInv, NEW docs \in Seq(rows)
    PROVE  docs \in Seq(Proper) /\ docs \in Seq(Rows) /\ Agrees(docs)
<1>1. rows \in SUBSET Proper /\ rows \in SUBSET Rows
  BY Facts DEF WalkInv
<1>2. docs \in Seq(Proper) /\ docs \in Seq(Rows)
  BY <1>1, SeqMonotonic
<1>3. \A k \in DOMAIN docs : docs[k] \in rows
  BY LenProperties, ElementOfSeq
<1>4. walk.stable \in SUBSET rows /\ OneEach(rows)
  BY DEF WalkInv
<1> QED
  BY <1>2, <1>3, <1>4 DEF Agrees, OneEach

(* The page at hand has a cursor, which is the position of the walk.       *)
LEMMA LastRow ==
    ASSUME NEW S, NEW docs \in Seq(S), docs # <<>>
    PROVE  /\ Len(docs) \in Nat \ {0} /\ Last(docs) \in S /\ Head(docs) \in S
           /\ Last(docs) = docs[Len(docs)] /\ Head(docs) = docs[1]
           /\ Len(docs) \in DOMAIN docs /\ DOMAIN docs = 1 .. Len(docs)
<1>1. Len(docs) \in Nat /\ DOMAIN docs = 1 .. Len(docs)
  BY LenProperties
<1>2. Len(docs) # 0
  BY EmptySeq
<1>3. docs[Len(docs)] \in S /\ docs[1] \in S
  BY <1>1, <1>2, ElementOfSeq
<1>4. Head(docs) = docs[1]
  BY <1>1, <1>2
<1> QED
  BY <1>1, <1>2, <1>3, <1>4 DEF Last

LEMMA RequestSent ==
    ASSUME WalkInv, UNCHANGED <<query, rows, page, walk, left>>, page.kind # "none",
           req' \in Requests, req'.docs \in Seq(rows), req'.kind \in {"after", "before"}
    PROVE  WalkInv'
<1>1. req'.docs \in Seq(Proper) /\ Agrees(req'.docs)
  BY RowsOfListing
<1>2. Proper' = Proper
  BY DEF Proper
<1>3. Agrees(req.docs)' /\ Agrees(walk.pos)'
  BY <1>1 DEF Agrees, WalkInv
<1> QED
  BY <1>1, <1>2, <1>3 DEF WalkInv, PaginationTypeOK, OneEach

LEMMA ByNumberSent ==
    ASSUME WalkInv, UNCHANGED <<query, rows, page, walk, left>>, page.kind # "none",
           NEW kind \in {"after", "before"}, NEW n \in Nat \ {0}, req' = PageRequest(kind, n)
    PROVE  WalkInv'
<1>1. /\ req' = [kind |-> kind, number |-> n, more |-> req'.more, docs |-> req'.docs]
      /\ req'.more \in BOOLEAN /\ req'.docs \in Seq(rows)
  BY FetchedByNumber DEF Kinds
<1>2. req'.docs \in Seq(Rows)
  BY <1>1, RowsOfListing
<1>3. req' \in Requests /\ req'.kind \in {"after", "before"}
  BY <1>1, <1>2 DEF Requests, Kinds
<1> QED
  BY <1>1, <1>3, RequestSent

LEMMA ByCursorSent ==
    ASSUME WalkInv, UNCHANGED <<query, rows, page, walk, left>>, page.kind # "none",
           NEW kind \in {"after", "before"}, NEW c, req' = CursorRequest(kind, c)
    PROVE  WalkInv'
<1>1. /\ req' = [kind |-> kind, number |-> 0, more |-> req'.more, docs |-> req'.docs]
      /\ req'.more \in BOOLEAN /\ req'.docs \in Seq(rows)
  BY FetchedByCursor
<1>2. req'.docs \in Seq(Rows)
  BY <1>1, RowsOfListing
<1>3. req' \in Requests /\ req'.kind \in {"after", "before"}
  BY <1>1, <1>2 DEF Requests, Kinds
<1> QED
  BY <1>1, <1>3, RequestSent

LEMMA WalkFirst == WalkInv /\ FindFirst => WalkInv'
<1> SUFFICES ASSUME WalkInv, FindFirst PROVE WalkInv'
  OBVIOUS
<1>1. req' = PageRequest("first", 1) /\ page' = NoPage /\ walk' = NewWalk
      /\ UNCHANGED <<query, rows, left>>
  BY DEF FindFirst
<1>2. /\ req' = [kind |-> "first", number |-> 1, more |-> req'.more, docs |-> req'.docs]
      /\ req'.more \in BOOLEAN /\ req'.docs \in Seq(rows)
  BY <1>1, FetchedByNumber DEF Kinds
<1>3. req'.docs \in Seq(Rows) /\ req'.docs \in Seq(Proper)
  BY <1>2, RowsOfListing
<1>4. req' \in Requests
  BY <1>2, <1>3 DEF Requests, Kinds
<1>5. <<>> \in Seq(Rows) /\ <<>> \in Seq(Proper)
  BY EmptySeq
<1>6. page' \in Pages
  BY <1>1, <1>5 DEF NoPage, Pages, Kinds
<1>7. /\ walk' \in Walks /\ walk'.stable = rows /\ walk'.pos = <<>>
      /\ \A i \in Ids : walk'.shown[i] = 0
  BY <1>1, <1>5, Facts DEF NewWalk, Walks
<1>8. Proper' = Proper
  BY <1>1 DEF Proper
<1>9. \A k \in DOMAIN req'.docs : req'.docs[k] \in rows
  BY <1>2, LenProperties, ElementOfSeq
<1>10. Agrees(req.docs)' /\ Agrees(walk.pos)'
  BY <1>1, <1>7, <1>9, Facts DEF Agrees, OneEach
<1>11. page'.docs = <<>> /\ page'.kind = "none" /\ ~page'.next /\ ~page'.prev
  BY <1>1 DEF NoPage
<1>12. req'.kind = "first"
  BY <1>2
<1>13. PaginationTypeOK'
  BY <1>1, <1>4, <1>6, <1>7 DEF WalkInv, PaginationTypeOK
<1>14. rows' \subseteq Proper' /\ IsFiniteSet(rows') /\ OneEach(rows')
  BY <1>1, <1>8 DEF WalkInv, OneEach
<1> QED
  BY <1>1, <1>3, <1>5, <1>7, <1>8, <1>10, <1>11, <1>12, <1>13, <1>14 DEF WalkInv

(* While a page is at hand, the walk has shown a page.                     *)
LEMMA WalkGoesOn == WalkInv /\ (FindAfter \/ FindBefore) => WalkInv'
<1> SUFFICES ASSUME WalkInv, FindAfter \/ FindBefore PROVE WalkInv'
  OBVIOUS
<1>1. page \in Pages /\ query.cursor \in BOOLEAN
  BY Facts DEF WalkInv, PaginationTypeOK
<1>2. page.number \in Nat
  BY <1>1 DEF Pages
<1>3. CASE FindAfter
  <2>1. UNCHANGED <<query, rows, page, walk, left>> /\ page.kind # "none"
    BY <1>3 DEF FindAfter, WalkInv
  <2>2. \/ \E c : req' = CursorRequest("after", c)
        \/ \E n \in Nat \ {0} : req' = PageRequest("after", n)
    <3>1. page.number + 1 \in Nat \ {0}
      BY <1>2
    <3> QED
      BY <1>3, <3>1 DEF FindAfter
  <2> QED
    BY <2>1, <2>2, ByCursorSent, ByNumberSent
<1>4. CASE FindBefore
  <2>1. UNCHANGED <<query, rows, page, walk, left>> /\ page.kind # "none" /\ page.prev
    BY <1>4 DEF FindBefore, WalkInv
  <2>2. \/ \E c : req' = CursorRequest("before", c)
        \/ \E n \in Nat \ {0} : req' = PageRequest("before", n)
    <3>1. CASE query.cursor
      BY <1>4, <3>1 DEF FindBefore
    <3>2. CASE ~query.cursor
      <4>1. page.number - 1 \in Nat \ {0}
        BY <1>2, <2>1, <3>2 DEF WalkInv
      <4> QED
        BY <1>4, <3>2, <4>1 DEF FindBefore
    <3> QED
      BY <3>1, <3>2
  <2> QED
    BY <2>1, <2>2, ByCursorSent, ByNumberSent
<1> QED
  BY <1>3, <1>4

LEMMA FlagValues ==
    ASSUME WalkInv, req.kind \in {"first", "after", "before"}
    PROVE  /\ Flags[1] \in BOOLEAN /\ Flags[2] \in BOOLEAN
           /\ ~query.cursor => /\ Flags[1] = (req.number < total_pages)
                               /\ Flags[2] = (req.number > 1)
           /\ query.cursor =>
                 /\ req.kind = "first" => Flags[1] = (total_pages > 1) /\ Flags[2] = FALSE
                 /\ req.kind = "after" => Flags[1] = req.more /\ Flags[2] = TRUE
                 /\ req.kind = "before" => Flags[1] = TRUE /\ Flags[2] = req.more
<1>1. req.more \in BOOLEAN /\ query.cursor \in BOOLEAN
  BY Facts DEF WalkInv, PaginationTypeOK, Requests
<1>2. CASE ~query.cursor
  <2>1. Flags = <<req.number < total_pages, req.number > 1>>
    BY <1>2 DEF Flags
  <2> QED
    BY <1>2, <2>1
<1>3. CASE query.cursor /\ req.kind = "first"
  <2>1. Flags = <<total_pages > 1, FALSE>>
    BY <1>3 DEF Flags
  <2> QED
    BY <1>3, <2>1
<1>4. CASE query.cursor /\ req.kind = "after"
  <2>1. Flags = <<req.more, TRUE>>
    BY <1>4 DEF Flags
  <2> QED
    BY <1>1, <1>4, <2>1
<1>5. CASE query.cursor /\ req.kind = "before"
  <2>1. Flags = <<TRUE, req.more>>
    BY <1>5 DEF Flags
  <2> QED
    BY <1>1, <1>5, <2>1
<1> QED
  BY <1>1, <1>2, <1>3, <1>4, <1>5

(* An answer moves the position to the last row it shows.                  *)
LEMMA Answer ==
    ASSUME WalkInv, find_documents
    PROVE  /\ req' = NoRequest /\ UNCHANGED <<query, rows, left>>
           /\ page' = [kind |-> req.kind, docs |-> req.docs, number |-> req.number,
                       next |-> Flags[1], prev |-> Flags[2], from |-> page.docs]
           /\ walk' = [walk EXCEPT !.shown = Shown,
                                   !.forward = walk.forward /\ req.kind # "before",
                                   !.pos = IF req.docs = <<>> THEN walk.pos
                                           ELSE <<Last(req.docs)>>]
           /\ req.kind \in {"first", "after", "before"}
           /\ Flags[1] \in BOOLEAN /\ Flags[2] \in BOOLEAN
           /\ ~query.cursor /\ Flags[2] => req.number > 1
<1>1. req \in Requests
  BY DEF WalkInv, PaginationTypeOK
<1>2. req.kind \in {"first", "after", "before"} /\ req.more \in BOOLEAN
  BY <1>1 DEF find_documents, Requests, Kinds
<1>3. /\ Flags[1] \in BOOLEAN /\ Flags[2] \in BOOLEAN
      /\ ~query.cursor /\ Flags[2] => req.number > 1
  BY <1>2, FlagValues
<1> QED
  BY <1>2, <1>3 DEF find_documents

LEMMA ShownType ==
    ASSUME WalkInv
    PROVE  /\ Shown \in [Ids -> 0 .. 2]
           /\ \A i \in Ids : walk.shown[i] \in 0 .. 2
<1>1. walk.shown \in [Ids -> 0 .. 2]
  BY DEF WalkInv, PaginationTypeOK, Walks
<1> QED
  BY <1>1 DEF Shown

LEMMA WalkAnswer == WalkInv /\ find_documents => WalkInv'
<1> SUFFICES ASSUME WalkInv, find_documents PROVE WalkInv'
  OBVIOUS
<1> DEFINE pos == IF req.docs = <<>> THEN walk.pos ELSE <<Last(req.docs)>>
<1>1. /\ req' = NoRequest /\ UNCHANGED <<query, rows, left>>
      /\ page' = [kind |-> req.kind, docs |-> req.docs, number |-> req.number,
                  next |-> Flags[1], prev |-> Flags[2], from |-> page.docs]
      /\ walk' = [walk EXCEPT !.shown = Shown,
                              !.forward = walk.forward /\ req.kind # "before",
                              !.pos = pos]
      /\ req.kind \in {"first", "after", "before"}
      /\ Flags[1] \in BOOLEAN /\ Flags[2] \in BOOLEAN
      /\ ~query.cursor /\ Flags[2] => req.number > 1
  BY Answer
<1>2. req \in Requests /\ page \in Pages /\ walk \in Walks
  BY DEF WalkInv, PaginationTypeOK
<1>3. req.docs \in Seq(Proper) /\ walk.pos \in Seq(Proper) /\ Agrees(req.docs) /\ Agrees(walk.pos)
  BY DEF WalkInv
<1>4. pos \in Seq(Proper) /\ Agrees(pos)
  <2>1. CASE req.docs = <<>>
    BY <1>3, <2>1
  <2>2. CASE req.docs # <<>>
    <3>1. Last(req.docs) \in Proper /\ Len(req.docs) \in DOMAIN req.docs
          /\ Last(req.docs) = req.docs[Len(req.docs)]
      BY <1>3, <2>2, LastRow
    <3>2. pos \in Seq(Proper) /\ DOMAIN pos = {1} /\ pos[1] = Last(req.docs)
      BY <2>2, <3>1
    <3> QED
      BY <1>3, <3>1, <3>2 DEF Agrees
  <2> QED
    BY <2>1, <2>2
<1>5. pos \in Seq(Rows)
  BY <1>4, Facts, SeqMonotonic
<1> HIDE DEF pos
<1>6. /\ walk' \in Walks /\ walk'.stable = walk.stable /\ walk'.quiet = walk.quiet
      /\ walk'.pos = pos
  BY <1>1, <1>2, <1>5, ShownType DEF Walks
<1>7. page' \in Pages
  BY <1>1, <1>2 DEF Pages, Requests
<1>8. <<>> \in Seq(Rows) /\ <<>> \in Seq(Proper)
  BY EmptySeq
<1>9. req' \in Requests /\ req'.kind = "none" /\ req'.docs = <<>>
  BY <1>1, <1>8 DEF NoRequest, Requests, Kinds
<1>10. PaginationTypeOK'
  BY <1>1, <1>6, <1>7, <1>9 DEF WalkInv, PaginationTypeOK
<1>11. Proper' = Proper
  BY <1>1 DEF Proper
<1>12. Agrees(req.docs)' /\ Agrees(walk.pos)'
  BY <1>4, <1>6, <1>9 DEF Agrees
<1>13. page'.docs = req.docs /\ page'.kind # "none" /\ page'.number = req.number
       /\ page'.prev = Flags[2]
  BY <1>1
<1>14. page'.docs # <<>> => walk'.pos = <<Last(page'.docs)>>
  BY <1>6, <1>13 DEF pos
<1>15. rows' \subseteq Proper' /\ IsFiniteSet(rows') /\ OneEach(rows')
       /\ walk'.stable \subseteq rows' /\ (walk'.quiet => walk'.stable = rows')
  BY <1>1, <1>6, <1>11 DEF WalkInv, OneEach
<1> QED
  BY <1>1, <1>3, <1>4, <1>6, <1>8, <1>9, <1>10, <1>11, <1>12, <1>13, <1>14, <1>15 DEF WalkInv

(* What is written is a collection again: its rows can be met by the query *)
(* and each document is there once.                                        *)
Writable(new) == new \subseteq Proper /\ IsFiniteSet(new) /\ OneEach(new)

LEMMA Writes ==
    ASSUME WalkInv, Create \/ Delete \/ Update
    PROVE  \E new : Writable(new) /\ Write(new)
<1>1. rows \subseteq Proper /\ IsFiniteSet(rows) /\ OneEach(rows)
  BY DEF WalkInv
<1>2. CASE Create
  <2>1. PICK i \in Ids \ {r.id : r \in rows}, s \in Statuses, v \in Values :
           Write(rows \cup {[id |-> i, status |-> s, val |-> v]})
    BY <1>2 DEF Create
  <2> DEFINE x == [id |-> i, status |-> s, val |-> v]
  <2>0. s \in {0, 1} /\ v \in Nat \cup {Null} /\ (query.nulls \/ v # Null)
    BY PaginationAssumption, KeysetAssumption DEF Statuses, Values
  <2>2. x \in Proper /\ x.id = i
    BY <2>0 DEF Rows, Proper
  <2>3. Write(rows \cup {x})
    BY <2>1
  <2> HIDE DEF x
  <2>4. IsFiniteSet(rows \cup {x})
    BY <1>1, FS_AddElement
  <2>5. OneEach(rows \cup {x})
    BY <1>1, <2>2 DEF OneEach
  <2> QED
    BY <1>1, <2>2, <2>3, <2>4, <2>5 DEF Writable
<1>3. CASE Delete
  <2>1. PICK r \in rows : Write(rows \ {r})
    BY <1>3 DEF Delete
  <2>2. IsFiniteSet(rows \ {r}) /\ OneEach(rows \ {r}) /\ rows \ {r} \subseteq Proper
    BY <1>1, FS_RemoveElement DEF OneEach
  <2> QED
    BY <2>1, <2>2 DEF Writable
<1>4. CASE Update
  <2>1. PICK r \in rows, s \in Statuses, v \in Values :
           Write((rows \ {r}) \cup {[r EXCEPT !.status = s, !.val = v]})
    BY <1>4 DEF Update
  <2> DEFINE x == [r EXCEPT !.status = s, !.val = v]
  <2>2. r \in Rows
    BY Facts
  <2>3. s \in {0, 1} /\ v \in Nat \cup {Null} /\ (query.nulls \/ v # Null)
    BY PaginationAssumption, KeysetAssumption DEF Statuses, Values
  <2>4. x \in Proper /\ x.id = r.id
    BY <2>2, <2>3 DEF Rows, Proper
  <2>5. Write((rows \ {r}) \cup {x})
    BY <2>1
  <2> HIDE DEF x
  <2>6. IsFiniteSet((rows \ {r}) \cup {x})
    BY <1>1, FS_RemoveElement, FS_AddElement
  <2>7. OneEach((rows \ {r}) \cup {x})
    BY <1>1, <2>4 DEF OneEach
  <2> QED
    BY <1>1, <2>4, <2>5, <2>6, <2>7 DEF Writable
<1> QED
  BY <1>2, <1>3, <1>4

(* A write leaves the requests alone, and the walk but for what stays.     *)
LEMMA Wrote ==
    ASSUME WalkInv, NEW new, Writable(new), Write(new)
    PROVE  /\ rows' = new /\ UNCHANGED <<query, req, page>> /\ left' \in Nat
           /\ walk' \in Walks /\ walk'.stable = walk.stable \cap new /\ ~walk'.quiet
           /\ walk'.shown = walk.shown /\ walk'.pos = walk.pos /\ walk'.forward = walk.forward
           /\ walk'.raced = (walk.raced \/ (req.kind = "first" /\ Cardinality(new) < Total))
<1>1. walk \in Walks /\ left \in Nat
  BY DEF WalkInv, PaginationTypeOK
<1>2. /\ left > 0 /\ left' = left - 1 /\ rows' = new /\ UNCHANGED <<query, req, page>>
      /\ walk' = [walk EXCEPT !.stable = walk.stable \cap new, !.quiet = FALSE,
                              !.raced = walk.raced \/ (req.kind = "first"
                                                        /\ Cardinality(new) < Total)]
  BY DEF Write, Total
<1>3. walk.stable \cap new \subseteq Rows
  BY <1>1 DEF Walks
<1>4. walk.raced \/ (req.kind = "first" /\ Cardinality(new) < Total) \in BOOLEAN
  BY <1>1 DEF Walks
<1>5. walk' \in Walks
  BY <1>1, <1>2, <1>3, <1>4 DEF Walks
<1> QED
  BY <1>1, <1>2, <1>5 DEF Walks

LEMMA WalkWrite ==
    ASSUME WalkInv, NEW new, Writable(new), Write(new)
    PROVE  WalkInv'
<1>1. /\ rows' = new /\ UNCHANGED <<query, req, page>> /\ left' \in Nat
      /\ walk' \in Walks /\ walk'.stable = walk.stable \cap new /\ ~walk'.quiet
      /\ walk'.shown = walk.shown /\ walk'.pos = walk.pos
  BY Wrote
<1>2. Proper' = Proper
  BY <1>1 DEF Proper
<1>3. rows' \subseteq Proper' /\ IsFiniteSet(rows') /\ OneEach(rows')
  BY <1>1, <1>2 DEF Writable, OneEach
<1>4. rows' \subseteq Rows
  BY <1>3 DEF Proper
<1>5. PaginationTypeOK'
  BY <1>1, <1>4 DEF WalkInv, PaginationTypeOK
<1>6. Agrees(req.docs)' /\ Agrees(walk.pos)'
  BY <1>1 DEF Agrees, WalkInv
<1> QED
  BY <1>1, <1>2, <1>3, <1>5, <1>6 DEF WalkInv

LEMMA WalkInit == Init => WalkInv
<1> SUFFICES ASSUME Init PROVE WalkInv
  OBVIOUS
<1>1. query \in Queries /\ req = NoRequest /\ page = NoPage /\ walk = NewWalk /\ left = query.writes
  BY DEF Init
<1>2. query \in [list : Listings, nulls : BOOLEAN, cursor : BOOLEAN,
                 limit : Nat \ {0}, writes : Nat]
  BY <1>1, PaginationAssumption
<1>0. PICK D \in SUBSET Ids : \E status \in [D -> Statuses], val \in [D -> Values] :
         rows = {[id |-> i, status |-> status[i], val |-> val[i]] : i \in D}
  BY DEF Init
<1>3. PICK status \in [D -> Statuses], val \in [D -> Values] :
         rows = {[id |-> i, status |-> status[i], val |-> val[i]] : i \in D}
  BY <1>0
<1>4. rows \subseteq Proper
  <2> SUFFICES ASSUME NEW i \in D
               PROVE  [id |-> i, status |-> status[i], val |-> val[i]] \in Proper
    BY <1>3
  <2>1. status[i] \in {0, 1} /\ val[i] \in Values /\ i \in Ids
    BY DEF Statuses
  <2>2. val[i] \in Nat \cup {Null} /\ (query.nulls \/ val[i] # Null)
    BY <2>1, PaginationAssumption, KeysetAssumption DEF Values
  <2> QED
    BY <2>1, <2>2 DEF Proper, Rows
<1>5. IsFiniteSet(rows)
  <2> DEFINE f == [i \in D |-> [id |-> i, status |-> status[i], val |-> val[i]]]
  <2>1. f \in Surjection(D, rows)
    BY <1>3 DEF Surjection
  <2>2. IsFiniteSet(D)
    BY PaginationAssumption, FS_Subset
  <2> QED
    BY <2>1, <2>2, FS_Surjection
<1>6. OneEach(rows)
  BY <1>3 DEF OneEach
<1>7. <<>> \in Seq(Rows) /\ <<>> \in Seq(Proper)
  BY EmptySeq
<1>8. req \in Requests /\ req.docs = <<>> /\ req.kind = "none"
  BY <1>1, <1>7 DEF NoRequest, Requests, Kinds
<1>9. page \in Pages /\ page.docs = <<>> /\ page.kind = "none" /\ ~page.next /\ ~page.prev
  BY <1>1, <1>7 DEF NoPage, Pages, Kinds
<1>10. rows \subseteq Rows
  BY <1>4 DEF Proper
<1>11. /\ walk \in Walks /\ walk.stable = rows /\ walk.pos = <<>>
       /\ \A i \in Ids : walk.shown[i] = 0
  BY <1>1, <1>7, <1>10 DEF NewWalk, Walks
<1>12. PaginationTypeOK
  BY <1>1, <1>2, <1>8, <1>9, <1>10, <1>11 DEF PaginationTypeOK
<1>13. Agrees(req.docs) /\ Agrees(walk.pos)
  BY <1>8, <1>11 DEF Agrees
<1> QED
  BY <1>4, <1>5, <1>6, <1>7, <1>8, <1>9, <1>11, <1>12, <1>13 DEF WalkInv

LEMMA WalkStep == WalkInv /\ [Next]_vars => WalkInv'
<1> SUFFICES ASSUME WalkInv, [Next]_vars PROVE WalkInv'
  OBVIOUS
<1>1. CASE UNCHANGED vars
  BY <1>1 DEF vars, WalkInv, PaginationTypeOK, Proper, OneEach, Agrees
<1>2. CASE Create \/ Delete \/ Update
  BY <1>2, Writes, WalkWrite
<1> QED
  BY <1>1, <1>2, WalkFirst, WalkGoesOn, WalkAnswer DEF Next

(* Every variable of a walk keeps its type; its pages show rows that were  *)
(* there, and the position is the last row shown (find_documents).         *)
THEOREM PaginationTypeCorrect == Spec => []PaginationTypeOK
<1>1. WalkInv => PaginationTypeOK
  BY DEF WalkInv
<1> QED
  BY <1>1, WalkInit, WalkStep, PTL DEF Spec

-----------------------------------------------------------------------------
\* Pages as windows, while nothing is written.

LEMMA Multiples ==
    ASSUME NEW m \in Nat, NEW n \in Nat, NEW l \in Nat
    PROVE  /\ m * l \in Nat /\ (m + 1) * l = m * l + l
           /\ m <= n => m * l <= n * l
<1>1. m * l \in Nat /\ (m + 1) * l = m * l + l
  OBVIOUS
<1>2. ASSUME m <= n PROVE m * l <= n * l
  <2>1. n - m \in Nat /\ n = m + (n - m)
    BY <1>2
  <2>2. (n - m) * l \in Nat
    BY <2>1
  <2>3. n * l = m * l + (n - m) * l
    BY <2>1
  <2> QED
    BY <1>1, <2>2, <2>3
<1> QED
  BY <1>1, <1>2

(* There is a page beyond the n-th iff the first n do not hold all rows.   *)
LEMMA Quotient ==
    ASSUME NEW t \in Nat, NEW l \in Nat \ {0}, NEW n \in Nat
    PROVE  n < (t + l - 1) \div l <=> n * l < t
<1> DEFINE q == (t + l - 1) \div l
<1>1. t + l - 1 \in Nat /\ l > 0
  OBVIOUS
<1>2. q \in Nat /\ l * q <= t + l - 1 /\ t + l - 1 < l * q + l
  BY <1>1
<1> HIDE DEF q
<1>3. q * l <= t + l - 1 /\ t + l - 1 < q * l + l /\ q * l \in Nat /\ n * l \in Nat
  BY <1>2
<1>4. CASE n < q
  <2>1. n + 1 \in Nat /\ n + 1 <= q
    BY <1>2, <1>4
  <2>2. (n + 1) * l <= q * l
    BY <1>2, <2>1, Multiples
  <2>3. (n + 1) * l = n * l + l
    BY Multiples
  <2> QED
    BY <1>3, <1>4, <2>2, <2>3 DEF q
<1>5. CASE ~(n < q)
  <2>1. q * l <= n * l
    BY <1>2, <1>5, Multiples
  <2> QED
    BY <1>3, <1>5, <2>1 DEF q
<1> QED
  BY <1>4, <1>5

LEMMA Listing ==
    ASSUME WalkInv
    PROVE  /\ \A k \in 1 .. Total : Ordered(rows)[k] \in rows
           /\ \A r \in rows : \E k \in 1 .. Total : Ordered(rows)[k] = r
           /\ \A j, k \in 1 .. Total : j < k <=> Lt(Ordered(rows)[j], Ordered(rows)[k])
  BY Facts, Sorted DEF Total

LEMMA Part ==
    ASSUME WalkInv, NEW a \in Nat, NEW b \in Nat, a <= b, b <= Total,
           NEW S, S = {Ordered(rows)[j] : j \in (a + 1) .. b}
    PROVE  /\ Ordered(S) \in Seq(rows) /\ Len(Ordered(S)) = b - a
           /\ From(Ordered(S), Ordered(rows), a)
<1>1. query.list \in Listings /\ rows \in SUBSET Rows /\ IsFiniteSet(rows) /\ OneEach(rows)
  BY Facts
<1>2. b <= Cardinality(rows)
  BY DEF Total
<1> QED
  BY <1>1, <1>2, PartSorted

(* Within its scope a cursor finds the rows after it, or before it.        *)
LEMMA Finds ==
    ASSUME WalkInv, NEW c \in Proper, NEW before \in BOOLEAN,
           Exact(query.list, query.nulls, before)
    PROVE  find(cursor_from_doc(query.list, c), before)
              = Ordered({r \in rows : IF before THEN Lt(r, c) ELSE Lt(c, r)})
<1> DEFINE d == cursor_from_doc(query.list, c)
<1>1. ASSUME NEW r \in rows
      PROVE  apply_cursor_keyset(query.list, d, before, r)
                <=> IF before THEN Lt(r, c) ELSE Lt(c, r)
  <2>1. r \in Rows /\ c \in Rows /\ (query.nulls \/ (c.val # Null /\ r.val # Null))
    BY Facts DEF WalkInv, Proper
  <2> QED
    BY <2>1, Facts, KeysetExact DEF Lt
<1>2. {r \in rows : apply_cursor_keyset(query.list, d, before, r)}
         = {r \in rows : IF before THEN Lt(r, c) ELSE Lt(c, r)}
  BY <1>1
<1> QED
  BY <1>2 DEF find

LEMMA RowsAfter ==
    ASSUME WalkInv, NEW b \in 1 .. Total
    PROVE  {r \in rows : Lt(Ordered(rows)[b], r)} = {Ordered(rows)[j] : j \in (b + 1) .. Total}
<1> DEFINE S == {r \in rows : Lt(Ordered(rows)[b], r)}
<1>1. Total \in Nat
  BY Facts
<1>2. \A r \in S : \E j \in (b + 1) .. Total : r = Ordered(rows)[j]
  <2> SUFFICES ASSUME NEW r \in rows, Lt(Ordered(rows)[b], r)
               PROVE  \E j \in (b + 1) .. Total : r = Ordered(rows)[j]
    OBVIOUS
  <2>1. PICK j \in 1 .. Total : Ordered(rows)[j] = r
    BY Listing
  <2>2. b < j
    BY <2>1, Listing
  <2> QED
    BY <1>1, <2>1, <2>2
<1>3. \A j \in (b + 1) .. Total : Ordered(rows)[j] \in S
  <2> SUFFICES ASSUME NEW j \in (b + 1) .. Total PROVE Ordered(rows)[j] \in S
    OBVIOUS
  <2>1. j \in 1 .. Total /\ b < j
    BY <1>1
  <2> QED
    BY <2>1, Listing
<1> QED
  BY <1>2, <1>3

LEMMA SortedAfter ==
    ASSUME WalkInv, NEW b \in 1 .. Total, NEW S, S = {r \in rows : Lt(Ordered(rows)[b], r)}
    PROVE  /\ Ordered(S) \in Seq(rows) /\ Len(Ordered(S)) = Total - b
           /\ From(Ordered(S), Ordered(rows), b)
<1>1. S = {Ordered(rows)[j] : j \in (b + 1) .. Total}
  BY RowsAfter
<1>2. b \in Nat /\ b <= Total /\ Total <= Total /\ Total \in Nat
  BY Facts
<1> QED
  BY <1>1, <1>2, Part

LEMMA FindsAfter ==
    ASSUME WalkInv, NEW b \in 1 .. Total, Exact(query.list, query.nulls, FALSE), NEW s,
           s = find(cursor_from_doc(query.list, Ordered(rows)[b]), FALSE)
    PROVE  s \in Seq(rows) /\ Len(s) = Total - b /\ From(s, Ordered(rows), b)
<1> DEFINE c == Ordered(rows)[b]
           S == {r \in rows : Lt(c, r)}
<1>1. c \in Proper
  BY Listing DEF WalkInv
<1>2. s = Ordered(S)
  BY <1>1, Finds
<1>3. S = {r \in rows : Lt(Ordered(rows)[b], r)}
  OBVIOUS
<1> HIDE DEF S
<1> QED
  BY <1>2, <1>3, SortedAfter

LEMMA FindsBefore ==
    ASSUME WalkInv, NEW a \in 0 .. (Total - 1), Exact(query.list, query.nulls, TRUE), NEW s,
           s = find(cursor_from_doc(query.list, Ordered(rows)[a + 1]), TRUE)
    PROVE  s \in Seq(rows) /\ Len(s) = a /\ From(s, Ordered(rows), 0)
<1> DEFINE c == Ordered(rows)[a + 1]
           S == {r \in rows : Lt(r, c)}
<1>0. Total \in Nat /\ a + 1 \in 1 .. Total
  BY Facts
<1>1. c \in rows /\ c \in Proper
  BY <1>0, Listing DEF WalkInv
<1>2. s = Ordered(S)
  BY <1>1, Finds
<1>3. S = {Ordered(rows)[j] : j \in (0 + 1) .. a}
  <2>1. \A r \in S : \E j \in (0 + 1) .. a : r = Ordered(rows)[j]
    <3> SUFFICES ASSUME NEW r \in rows, Lt(r, c)
                 PROVE  \E j \in (0 + 1) .. a : r = Ordered(rows)[j]
      OBVIOUS
    <3>1. PICK j \in 1 .. Total : Ordered(rows)[j] = r
      BY Listing
    <3>2. j < a + 1
      BY <1>0, <3>1, Listing
    <3> QED
      BY <1>0, <3>1, <3>2
  <2>2. \A j \in (0 + 1) .. a : Ordered(rows)[j] \in S
    <3> SUFFICES ASSUME NEW j \in (0 + 1) .. a PROVE Ordered(rows)[j] \in S
      OBVIOUS
    <3>1. j \in 1 .. Total /\ j < a + 1
      BY <1>0
    <3> QED
      BY <1>0, <3>1, Listing
  <2> QED
    BY <2>1, <2>2
<1> HIDE DEF S
<1>4. 0 \in Nat /\ a \in Nat /\ 0 <= a /\ a <= Total
  BY <1>0
<1> DEFINE z == 0
<1>5. z \in Nat /\ z <= a /\ S = {Ordered(rows)[j] : j \in (z + 1) .. a} /\ a - z = a
  BY <1>3, <1>4
<1>6. z = 0
  OBVIOUS
<1> HIDE DEF z
<1>7. Ordered(S) \in Seq(rows) /\ Len(Ordered(S)) = a - z /\ From(Ordered(S), Ordered(rows), z)
  BY <1>4, <1>5, Part
<1> QED
  BY <1>2, <1>5, <1>6, <1>7

(* The window of a page fits in the listing if the pages before it are     *)
(* full, or if it ends where a page began.                                 *)
LEMMA FitsFirst ==
    ASSUME NEW q, q.limit \in Nat \ {0}, NEW t \in Nat, NEW b, b = Least(q.limit, t)
    PROVE  /\ b \in 0 .. t /\ Fits(q, t, 0, b, 1)
           /\ FullAfter(q.limit, t, 0, b)
<1>1. b \in 0 .. t /\ (t > 0 => 0 < b) /\ FullAfter(q.limit, t, 0, b)
  BY DEF Least, FullAfter
<1>2. b < t => FullBefore(q.limit, 0, b)
  BY DEF Least, FullBefore
<1>3. 0 = (1 - 1) * q.limit
  OBVIOUS
<1> QED
  BY <1>1, <1>2, <1>3 DEF Fits

LEMMA FitsAfter ==
    ASSUME NEW q, q.limit \in Nat \ {0}, NEW t \in Nat, NEW a \in Nat, NEW b, NEW n,
           0 < a, a < t, NEW d, d = t - a, b = a + Least(q.limit, d),
           ~q.cursor => n > 0 /\ a = (n - 1) * q.limit
    PROVE  Fits(q, t, a, b, n)
<1>1. a < b /\ FullAfter(q.limit, t, a, b)
  BY DEF Least, FullAfter
<1>2. b < t => FullBefore(q.limit, a, b)
  BY DEF Least, FullBefore
<1> QED
  BY <1>1, <1>2 DEF Fits

LEMMA FitsBefore ==
    ASSUME NEW q, q.limit \in Nat \ {0}, NEW t \in Nat, NEW a, NEW b \in Nat, NEW n,
           0 < b, b < t, a = b - Least(q.limit, b),
           ~q.cursor => n > 0 /\ a = (n - 1) * q.limit /\ b = a + q.limit
    PROVE  /\ a \in 0 .. b /\ b \in 0 .. t /\ Fits(q, t, a, b, n)
           /\ FullBefore(q.limit, a, b) /\ (a > 0 <=> q.limit < b)
<1>1. a \in 0 .. b /\ a < b /\ FullBefore(q.limit, a, b) /\ (a > 0 <=> q.limit < b)
  BY DEF Least, FullBefore
<1>2. a > 0 => FullAfter(q.limit, t, a, b)
  BY DEF Least, FullAfter
<1>3. ~q.cursor => FullAfter(q.limit, t, a, b)
  BY DEF FullAfter
<1> QED
  BY <1>1, <1>2, <1>3 DEF Fits

(* The facts of a window that the requests after it need.                  *)
LEMMA PageFacts ==
    ASSUME WalkInv, NEW a \in 0 .. Total, NEW b \in 0 .. Total,
           PageWindow(query, Ordered(rows), page, a, b)
    PROVE  /\ a \in Nat /\ b \in Nat /\ a <= b /\ b <= Total
           /\ page.next = (b < Total) /\ page.prev = (a > 0)
           /\ page.docs \in Seq(Proper) /\ Len(page.docs) = b - a
           /\ From(page.docs, Ordered(rows), a)
           /\ Total > 0 => a < b
           /\ ~query.cursor =>
                 /\ page.number \in Nat \ {0} /\ a = (page.number - 1) * query.limit
                 /\ b < Total => b = page.number * query.limit
<1>1. Total \in Nat /\ Len(Ordered(rows)) = Total /\ query.limit \in Nat \ {0}
  BY Facts
<1>2. /\ Window(Ordered(rows), page.docs, a, b) /\ Fits(query, Total, a, b, page.number)
      /\ page.next = (b < Total) /\ page.prev = (a > 0)
  BY <1>1 DEF PageWindow
<1>3. a \in Nat /\ b \in Nat /\ a <= b /\ b <= Total
      /\ Len(page.docs) = b - a /\ From(page.docs, Ordered(rows), a)
  BY <1>1, <1>2 DEF Window
<1>4. page.docs \in Seq(Proper) /\ page.number \in Nat
  BY DEF WalkInv, PaginationTypeOK, Pages
<1>5. ASSUME ~query.cursor
      PROVE  /\ page.number \in Nat \ {0} /\ a = (page.number - 1) * query.limit
             /\ b < Total => b = page.number * query.limit
  <2>1. /\ page.number \in Nat \ {0} /\ a = (page.number - 1) * query.limit
        /\ FullAfter(query.limit, Total, a, b)
    BY <1>2, <1>4, <1>5 DEF Fits
  <2>2. page.number - 1 \in Nat /\ page.number - 1 + 1 = page.number
    BY <2>1
  <2>3. page.number * query.limit = a + query.limit
    BY <1>1, <2>1, <2>2, Multiples
  <2> QED
    BY <1>1, <1>3, <2>1, <2>3 DEF FullAfter
<1> QED
  BY <1>2, <1>3, <1>4, <1>5 DEF Fits

LEMMA WindowFirst == WalkInv /\ FindFirst => WindowInv'
<1> SUFFICES ASSUME WalkInv, FindFirst
             PROVE  /\ page'.kind = "none"
                    /\ \E a, b \in 0 .. Total' : ReqWindow(query', Ordered(rows)', page', req', a, b)
  BY DEF WindowInv
<1>1. req' = PageRequest("first", 1) /\ page'.kind = "none" /\ UNCHANGED <<query, rows>>
  BY DEF FindFirst, NoPage
<1>2. Ordered(rows)' = Ordered(rows) /\ Total' = Total
  BY <1>1 DEF Ordered, RowsBefore, Total
<1>3. /\ Total \in Nat /\ Len(Ordered(rows)) = Total /\ query.limit \in Nat \ {0}
      /\ Ordered(rows) \in Seq(rows) /\ Total = Cardinality(rows)
  BY Facts DEF Total
<1> DEFINE z == (1 - 1) * query.limit
           b == Least(query.limit, Total)
<1>4. z = 0 /\ z <= Total /\ Total - z = Total
  BY <1>3
<1>5. b \in 0 .. Total /\ Fits(query, Total, 0, b, 1) /\ FullAfter(query.limit, Total, 0, b)
  BY <1>3, FitsFirst
<1>6. b = Least(query.limit, Total - z) /\ "first" \in Kinds /\ 1 \in Nat \ {0}
  BY <1>4 DEF Kinds
<1> HIDE DEF z, b
<1>7. /\ req' = [kind |-> "first", number |-> 1, more |-> FALSE, docs |-> req'.docs]
      /\ Len(req'.docs) = b /\ From(req'.docs, Ordered(rows), z)
  BY <1>1, <1>3, <1>4, <1>6, PageFetch DEF z
<1>8. req'.kind = "first" /\ req'.number = 1
  BY <1>7
<1>9. Window(Ordered(rows), req'.docs, 0, b)
  BY <1>3, <1>4, <1>5, <1>7 DEF Window
<1>10. ReqWindow(query, Ordered(rows), page', req', 0, b)
  BY <1>3, <1>5, <1>8, <1>9 DEF ReqWindow
<1> QED
  BY <1>1, <1>2, <1>3, <1>5, <1>10

LEMMA WindowAfter == WalkInv /\ WindowInv /\ FindAfter => WindowInv'
<1> SUFFICES ASSUME WalkInv, WindowInv, FindAfter, Steady'
             PROVE  /\ \E a, b \in 0 .. Total' : PageWindow(query', Ordered(rows)', page', a, b)
                    /\ \E a, b \in 0 .. Total' : ReqWindow(query', Ordered(rows)', page', req', a, b)
  BY DEF WindowInv
<1>1. UNCHANGED <<query, rows, page, walk, left>> /\ page.next /\ (query.cursor => page.docs # <<>>)
  BY DEF FindAfter
<1>2. Ordered(rows)' = Ordered(rows) /\ Total' = Total
  BY <1>1 DEF Ordered, RowsBefore, Total
<1>3. Steady /\ page.kind # "none"
  BY <1>1 DEF Steady, Holds, WalkInv
<1>4. PICK c, a \in 0 .. Total : PageWindow(query, Ordered(rows), page, c, a)
  BY <1>3 DEF WindowInv
<1>5. /\ c \in Nat /\ a \in Nat /\ c < a /\ a < Total
      /\ page.docs \in Seq(Proper) /\ Len(page.docs) = a - c
      /\ From(page.docs, Ordered(rows), c)
      /\ ~query.cursor => page.number \in Nat \ {0} /\ a = page.number * query.limit
  <2>1. /\ c \in Nat /\ a \in Nat /\ c <= a /\ a <= Total
        /\ page.next = (a < Total)
        /\ page.docs \in Seq(Proper) /\ Len(page.docs) = a - c
        /\ From(page.docs, Ordered(rows), c)
        /\ Total > 0 => c < a
        /\ ~query.cursor =>
              page.number \in Nat \ {0} /\ (a < Total => a = page.number * query.limit)
    BY <1>4, PageFacts
  <2>2. a < Total
    BY <1>1, <2>1, Zenon
  <2>3. c < a
    BY <2>1, <2>2, Facts
  <2> QED
    BY <2>1, <2>2, <2>3
<1>6. /\ Total \in Nat /\ Len(Ordered(rows)) = Total /\ query.limit \in Nat \ {0}
      /\ Ordered(rows) \in Seq(rows) /\ Total = Cardinality(rows) /\ query.cursor \in BOOLEAN
  BY Facts DEF Total
<1> DEFINE m == Least(query.limit, Total - a)
           b == a + m
<1>7. /\ req'.kind = "after" /\ Len(req'.docs) = m /\ From(req'.docs, Ordered(rows), a)
      /\ query.cursor => req'.more = (query.limit < Total - a)
      /\ ~query.cursor => req'.number > 0 /\ a = (req'.number - 1) * query.limit
  <2>1. CASE query.cursor
    <3>1. Last(page.docs) = Ordered(rows)[a]
      <4>1. Last(page.docs) = page.docs[a - c] /\ a - c \in 1 .. Len(page.docs)
        BY <1>1, <1>5, <2>1, LastRow
      <4> QED
        BY <1>5, <4>1 DEF From
    <3> DEFINE s == find(cursor_from_doc(query.list, Ordered(rows)[a]), FALSE)
    <3>0. Exact(query.list, query.nulls, FALSE)
      BY <1>3, <2>1 DEF Steady, Holds
    <3>2. a \in 1 .. Total
      BY <1>5, <1>6
    <3>3. s \in Seq(rows) /\ Len(s) = Total - a /\ From(s, Ordered(rows), a)
      BY <3>0, <3>2, FindsAfter
    <3>4. req' = CursorRequest("after", cursor_from_doc(query.list, Ordered(rows)[a]))
      BY <2>1, <3>1 DEF FindAfter
    <3> DEFINE d == cursor_from_doc(query.list, Ordered(rows)[a])
    <3>5. req' = CursorRequest("after", d) /\ s = find(d, "after" = "before")
      BY <3>4
    <3> HIDE DEF s, d, m
    <3>6. /\ req'.kind = "after" /\ req'.more = (query.limit < Len(s))
          /\ m \in 0 .. Len(s) /\ Len(req'.docs) = m
          /\ \A k \in 1 .. m : req'.docs[k] = s[k]
      BY <1>6, <3>3, <3>5, CursorFetch DEF m
    <3>7. From(req'.docs, Ordered(rows), a)
      <4>1. \A k \in 1 .. m : k \in 1 .. Len(s)
        BY <1>5, <1>6, <3>3, <3>6
      <4> QED
        BY <3>3, <3>6, <4>1 DEF From
    <3> QED
      BY <2>1, <3>3, <3>6, <3>7
  <2>2. CASE ~query.cursor
    <3> DEFINE n == page.number + 1
    <3>1. req' = PageRequest("after", n)
      BY <2>2 DEF FindAfter
    <3>2. n \in Nat \ {0} /\ n - 1 = page.number
      BY <1>5, <2>2
    <3>3. a = (n - 1) * query.limit
      BY <1>5, <2>2, <3>2
    <3>4. a <= Cardinality(rows) /\ m = Least(query.limit, Cardinality(rows) - a)
      BY <1>5, <1>6
    <3>5. "after" \in Kinds
      BY DEF Kinds
    <3> HIDE DEF n, m
    <3>6. /\ req' = [kind |-> "after", number |-> n, more |-> FALSE, docs |-> req'.docs]
          /\ Len(req'.docs) = m /\ From(req'.docs, Ordered(rows), a)
      BY <1>6, <3>1, <3>2, <3>3, <3>4, <3>5, PageFetch
    <3>7. req'.kind = "after" /\ req'.number = n
      BY <3>6
    <3> QED
      BY <2>2, <3>2, <3>3, <3>6, <3>7
  <2> QED
    BY <1>6, <2>1, <2>2
<1>8. /\ b \in 0 .. Total /\ a \in 0 .. b /\ Fits(query, Total, a, b, req'.number)
      /\ FullAfter(query.limit, Total, a, b) /\ (b < Total <=> query.limit < Total - a)
  <2> DEFINE d == Total - a
             n == req'.number
  <2>1. 0 < a /\ a < Total /\ a \in Nat /\ Total \in Nat /\ b = a + Least(query.limit, d)
    BY <1>5, <1>6
  <2>2. ~query.cursor => n > 0 /\ a = (n - 1) * query.limit
    BY <1>7
  <2>3. d = Total - a
    OBVIOUS
  <2> HIDE DEF b, m, d, n
  <2>4. Fits(query, Total, a, b, n)
    BY <1>6, <2>1, <2>2, <2>3, FitsAfter
  <2>5. /\ b \in 0 .. Total /\ a \in 0 .. b
        /\ FullAfter(query.limit, Total, a, b) /\ (b < Total <=> query.limit < d)
    BY <1>6, <2>1, <2>3 DEF Least, FullAfter
  <2> QED
    BY <2>4, <2>5 DEF d, n
<1>9. b - a = m
  <2>1. m \in Nat
    BY <1>5, <1>6 DEF Least
  <2> HIDE DEF m
  <2> QED
    BY <1>5, <2>1
<1> HIDE DEF b, m
<1>10. Window(Ordered(rows), req'.docs, a, b)
  BY <1>6, <1>7, <1>8, <1>9 DEF Window
<1>11. c \in 0 .. a /\ a > 0 /\ (query.cursor => req'.more = (b < Total))
  BY <1>5, <1>7, <1>8
<1>12. ReqWindow(query, Ordered(rows), page, req', a, b)
  BY <1>4, <1>6, <1>7, <1>8, <1>10, <1>11 DEF ReqWindow
<1> QED
  BY <1>1, <1>2, <1>4, <1>8, <1>12

LEMMA WindowBefore == WalkInv /\ WindowInv /\ FindBefore => WindowInv'
<1> SUFFICES ASSUME WalkInv, WindowInv, FindBefore, Steady'
             PROVE  /\ \E a, b \in 0 .. Total' : PageWindow(query', Ordered(rows)', page', a, b)
                    /\ \E a, b \in 0 .. Total' : ReqWindow(query', Ordered(rows)', page', req', a, b)
  BY DEF WindowInv
<1>1. UNCHANGED <<query, rows, page, walk, left>> /\ page.prev /\ (query.cursor => page.docs # <<>>)
  BY DEF FindBefore
<1>2. Ordered(rows)' = Ordered(rows) /\ Total' = Total
  BY <1>1 DEF Ordered, RowsBefore, Total
<1>3. Steady /\ page.kind # "none"
  BY <1>1 DEF Steady, Holds, WalkInv
<1>4. PICK b, c \in 0 .. Total : PageWindow(query, Ordered(rows), page, b, c)
  BY <1>3 DEF WindowInv
<1>5. /\ b \in Nat /\ c \in Nat /\ 0 < b /\ b < c /\ c <= Total
      /\ page.docs \in Seq(Proper) /\ Len(page.docs) = c - b
      /\ From(page.docs, Ordered(rows), b)
      /\ ~query.cursor => page.number \in Nat \ {0} /\ b = (page.number - 1) * query.limit
  <2>1. /\ b \in Nat /\ c \in Nat /\ b <= c /\ c <= Total
        /\ page.prev = (b > 0)
        /\ page.docs \in Seq(Proper) /\ Len(page.docs) = c - b
        /\ From(page.docs, Ordered(rows), b)
        /\ Total > 0 => b < c
        /\ ~query.cursor => page.number \in Nat \ {0} /\ b = (page.number - 1) * query.limit
    BY <1>4, PageFacts
  <2>2. b > 0
    BY <1>1, <2>1, Zenon
  <2>3. 0 < b /\ b < c
    BY <2>1, <2>2, Facts
  <2> QED
    BY <2>1, <2>3
<1>6. /\ Total \in Nat /\ Len(Ordered(rows)) = Total /\ query.limit \in Nat \ {0}
      /\ Ordered(rows) \in Seq(rows) /\ Total = Cardinality(rows) /\ query.cursor \in BOOLEAN
  BY Facts DEF Total
<1> DEFINE m == Least(query.limit, b)
           a == b - m
<1>7. /\ req'.kind = "before" /\ Len(req'.docs) = m /\ From(req'.docs, Ordered(rows), a)
      /\ query.cursor => req'.more = (query.limit < b)
      /\ ~query.cursor => /\ req'.number > 0 /\ a = (req'.number - 1) * query.limit
                          /\ b = a + query.limit
  <2>1. CASE query.cursor
    <3>1. Head(page.docs) = Ordered(rows)[b + 1]
      <4>1. Head(page.docs) = page.docs[1] /\ 1 \in 1 .. Len(page.docs)
        BY <1>1, <1>5, <2>1, LastRow
      <4> QED
        BY <1>5, <4>1 DEF From
    <3> DEFINE s == find(cursor_from_doc(query.list, Ordered(rows)[b + 1]), TRUE)
    <3>0. Exact(query.list, query.nulls, TRUE)
      BY <1>3, <2>1 DEF Steady, Holds
    <3>2. b \in 0 .. (Total - 1)
      BY <1>5, <1>6
    <3>3. s \in Seq(rows) /\ Len(s) = b /\ From(s, Ordered(rows), 0)
      BY <3>0, <3>2, FindsBefore
    <3> DEFINE d == cursor_from_doc(query.list, Ordered(rows)[b + 1])
    <3>4. req' = CursorRequest("before", d) /\ s = find(d, "before" = "before")
      BY <2>1, <3>1 DEF FindBefore
    <3>5. m = Least(query.limit, Len(s))
      BY <3>3
    <3>6. m \in Nat /\ m <= b
      BY <1>5, <1>6 DEF Least
    <3> HIDE DEF s, d, m
    <3>7. /\ req'.kind = "before" /\ req'.more = (query.limit < Len(s))
          /\ Len(req'.docs) = m /\ Ends(req'.docs, s)
      BY <1>6, <3>3, <3>4, <3>5, CursorFetch
    <3>8. ASSUME NEW k \in 1 .. m PROVE req'.docs[k] = Ordered(rows)[b - m + k]
      <4>1. req'.docs[k] = s[b - m + k]
        BY <3>3, <3>7 DEF Ends, From
      <4>2. b - m + k \in 1 .. b /\ 0 + (b - m + k) = b - m + k
        BY <1>5, <3>6
      <4>3. s[b - m + k] = Ordered(rows)[0 + (b - m + k)]
        BY <3>3, <4>2 DEF From
      <4> QED
        BY <4>1, <4>2, <4>3
    <3> QED
      BY <2>1, <3>3, <3>7, <3>8 DEF From
  <2>2. CASE ~query.cursor
    <3> DEFINE n == page.number - 1
    <3>1. req' = PageRequest("before", n)
      BY <2>2 DEF FindBefore
    <3>2. n \in Nat \ {0} /\ b = n * query.limit
      <4>1. n \in Nat /\ b = n * query.limit
        BY <1>5, <2>2
      <4>2. n = 0 => n * query.limit = 0
        BY <1>6
      <4> QED
        BY <1>5, <4>1, <4>2
    <3> HIDE DEF n
    <3> DEFINE e == (n - 1) * query.limit
    <3>3. n - 1 \in Nat /\ n - 1 + 1 = n
      BY <3>2
    <3>4. e \in Nat /\ b = e + query.limit
      BY <1>6, <3>2, <3>3, Multiples
    <3>5. "before" \in Kinds
      BY DEF Kinds
    <3>6. /\ m = query.limit /\ e = a /\ e <= Cardinality(rows)
          /\ m = Least(query.limit, Cardinality(rows) - e)
      <4> HIDE DEF e
      <4> QED
        BY <1>5, <1>6, <3>4 DEF Least
    <3>7. e = (n - 1) * query.limit
      OBVIOUS
    <3> HIDE DEF e, m, a
    <3>8. /\ req' = [kind |-> "before", number |-> n, more |-> FALSE, docs |-> req'.docs]
          /\ Len(req'.docs) = m /\ From(req'.docs, Ordered(rows), e)
      BY <1>6, <3>1, <3>2, <3>5, <3>6, <3>7, PageFetch
    <3>9. req'.kind = "before" /\ req'.number = n
      BY <3>8
    <3>10. req'.number > 0 /\ a = (req'.number - 1) * query.limit /\ b = a + query.limit
      BY <3>2, <3>4, <3>6, <3>7, <3>9
    <3> QED
      BY <2>2, <3>6, <3>8, <3>9, <3>10
  <2> QED
    BY <1>6, <2>1, <2>2
<1>8. b < Total
  BY <1>5, <1>6
<1>9. /\ a \in 0 .. b /\ b \in 0 .. Total /\ Fits(query, Total, a, b, req'.number)
      /\ FullBefore(query.limit, a, b) /\ (a > 0 <=> query.limit < b)
  BY <1>5, <1>6, <1>7, <1>8, FitsBefore
<1>10. b - a = m /\ a \in 0 .. Total
  BY <1>5, <1>6, <1>9 DEF Least
<1> HIDE DEF a, m
<1>11. Window(Ordered(rows), req'.docs, a, b)
  BY <1>6, <1>7, <1>9, <1>10 DEF Window
<1>12. c \in b .. Total /\ (query.cursor => req'.more = (a > 0))
  BY <1>5, <1>6, <1>7, <1>9
<1>13. ReqWindow(query, Ordered(rows), page, req', a, b)
  BY <1>4, <1>6, <1>7, <1>8, <1>9, <1>11, <1>12 DEF ReqWindow
<1> QED
  BY <1>1, <1>2, <1>4, <1>9, <1>10, <1>13

(* The flags of an answer say where its window ends.                       *)
LEMMA WindowFlags ==
    ASSUME WalkInv, req.kind \in {"first", "after", "before"},
           NEW a \in 0 .. Total, NEW b \in 0 .. Total,
           ReqWindow(query, Ordered(rows), page, req, a, b)
    PROVE  Flags[1] = (b < Total) /\ Flags[2] = (a > 0)
<1>1. /\ Total \in Nat /\ Len(Ordered(rows)) = Total /\ query.limit \in Nat \ {0}
      /\ query.cursor \in BOOLEAN /\ a \in Nat /\ b \in Nat
  BY Facts
<1>2. \A n \in Nat : n < total_pages <=> n * query.limit < Total
  BY <1>1, Quotient DEF total_pages, Total
<1>3. Fits(query, Total, a, b, req.number)
  BY <1>1 DEF ReqWindow
<1>4. CASE ~query.cursor
  <2> DEFINE n == req.number
  <2>1. n \in Nat
    BY DEF WalkInv, PaginationTypeOK, Requests
  <2>2. n > 0 /\ a = (n - 1) * query.limit /\ FullAfter(query.limit, Total, a, b)
    BY <1>3, <1>4 DEF Fits
  <2>3. Flags[1] = (n < total_pages) /\ Flags[2] = (n > 1)
    BY <1>4, FlagValues
  <2> HIDE DEF n
  <2>4. n - 1 \in Nat /\ n - 1 + 1 = n
    BY <2>1, <2>2
  <2>5. n * query.limit = a + query.limit
    BY <1>1, <2>2, <2>4, Multiples
  <2>6. n < total_pages <=> b < Total
    <3>1. n < total_pages <=> n * query.limit < Total
      BY <1>2, <2>1
    <3> QED
      BY <1>1, <2>2, <2>5, <3>1 DEF FullAfter
  <2>7. n > 1 <=> a > 0
    <3>1. CASE n = 1
      BY <1>1, <2>2, <3>1
    <3>2. CASE n > 1
      <4>1. 1 \in Nat /\ n - 1 \in Nat /\ 1 <= n - 1
        BY <2>1, <3>2
      <4>2. 1 * query.limit <= (n - 1) * query.limit
        BY <1>1, <4>1, Multiples
      <4> QED
        BY <1>1, <2>2, <3>2, <4>2
    <3> QED
      BY <2>1, <2>2, <3>1, <3>2
  <2> QED
    BY <2>3, <2>6, <2>7
<1>5. CASE query.cursor /\ req.kind = "first"
  <2>1. Flags[1] = (total_pages > 1) /\ Flags[2] = FALSE
    BY <1>5, FlagValues
  <2>2. a = 0 /\ FullAfter(query.limit, Total, a, b)
    BY <1>1, <1>5 DEF ReqWindow
  <2>3. 1 < total_pages <=> 1 * query.limit < Total
    BY <1>2
  <2>4. 1 < total_pages <=> b < Total
    BY <1>1, <2>2, <2>3 DEF FullAfter
  <2>5. total_pages > 1 <=> 1 < total_pages
    OBVIOUS
  <2>6. (a > 0) = FALSE
    BY <2>2
  <2>7. Flags[1] = (b < Total)
    BY <2>1, <2>4, <2>5
  <2>8. Flags[2] = (a > 0)
    BY <2>1, <2>6, Zenon
  <2> QED
    BY <2>7, <2>8
<1>6. CASE query.cursor /\ req.kind = "after"
  <2>1. Flags[1] = req.more /\ Flags[2] = TRUE
    BY <1>6, FlagValues
  <2>2. a > 0 /\ req.more = (b < Total)
    BY <1>1, <1>6 DEF ReqWindow
  <2> QED
    BY <2>1, <2>2
<1>7. CASE query.cursor /\ req.kind = "before"
  <2>1. Flags[1] = TRUE /\ Flags[2] = req.more
    BY <1>7, FlagValues
  <2>2. b < Total /\ req.more = (a > 0)
    BY <1>1, <1>7 DEF ReqWindow
  <2> QED
    BY <2>1, <2>2
<1> QED
  BY <1>1, <1>4, <1>5, <1>6, <1>7

LEMMA WindowAnswer == WalkInv /\ WindowInv /\ find_documents => WindowInv'
<1> SUFFICES ASSUME WalkInv, WindowInv, find_documents, Steady'
             PROVE  /\ req'.kind = "none"
                    /\ \E a, b \in 0 .. Total' : PageWindow(query', Ordered(rows)', page', a, b)
  BY DEF WindowInv
<1>1. /\ req' = NoRequest /\ UNCHANGED <<query, rows>> /\ walk'.quiet = walk.quiet
      /\ page' = [kind |-> req.kind, docs |-> req.docs, number |-> req.number,
                  next |-> Flags[1], prev |-> Flags[2], from |-> page.docs]
      /\ req.kind \in {"first", "after", "before"}
  <2>1. walk \in Walks
    BY DEF WalkInv, PaginationTypeOK
  <2> QED
    BY <2>1, Answer DEF Walks
<1>2. Ordered(rows)' = Ordered(rows) /\ Total' = Total
  BY <1>1 DEF Ordered, RowsBefore, Total
<1>3. Steady
  BY <1>1 DEF Steady, Holds
<1>4. PICK a, b \in 0 .. Total : ReqWindow(query, Ordered(rows), page, req, a, b)
  BY <1>1, <1>3 DEF WindowInv
<1>5. Flags[1] = (b < Total) /\ Flags[2] = (a > 0)
  BY <1>1, <1>4, WindowFlags
<1>6. /\ Total \in Nat /\ Len(Ordered(rows)) = Total /\ a \in Nat /\ b \in Nat
  BY Facts
<1>7. /\ page'.kind = req.kind /\ page'.docs = req.docs /\ page'.number = req.number
      /\ page'.next = (b < Total) /\ page'.prev = (a > 0) /\ page'.from = page.docs
  BY <1>1, <1>5
<1>8. /\ Window(Ordered(rows), req.docs, a, b) /\ Fits(query, Total, a, b, req.number)
      /\ a <= b
  BY <1>4, <1>6 DEF ReqWindow, Window
<1>9. ASSUME req.kind = "after"
      PROVE  \E c \in 0 .. a : Window(Ordered(rows), page.docs, c, a)
                               /\ FullBefore(query.limit, c, a)
  <2>1. a > 0 /\ \E c \in 0 .. a : PageWindow(query, Ordered(rows), page, c, a)
    BY <1>4, <1>9 DEF ReqWindow
  <2>2. PICK c \in 0 .. a : PageWindow(query, Ordered(rows), page, c, a)
    BY <2>1
  <2>3. Window(Ordered(rows), page.docs, c, a) /\ Fits(query, Total, c, a, page.number)
    BY <1>6, <2>2 DEF PageWindow
  <2>4. a < Total
    BY <1>6, <1>8, <2>1 DEF Fits
  <2> QED
    BY <2>3, <2>4 DEF Fits
<1>10. ASSUME req.kind = "before"
       PROVE  \E c \in b .. Total : Window(Ordered(rows), page.docs, b, c)
                                    /\ FullAfter(query.limit, Total, b, c)
  <2>1. b < Total /\ \E c \in b .. Total : PageWindow(query, Ordered(rows), page, b, c)
    BY <1>4, <1>6, <1>10 DEF ReqWindow
  <2>2. PICK c \in b .. Total : PageWindow(query, Ordered(rows), page, b, c)
    BY <2>1
  <2>3. Window(Ordered(rows), page.docs, b, c) /\ Fits(query, Total, b, c, page.number)
    BY <1>6, <2>2 DEF PageWindow
  <2>4. b > 0
    BY <1>6, <1>8, <2>1 DEF Fits
  <2> QED
    BY <2>3, <2>4 DEF Fits
<1>11. PageWindow(query, Ordered(rows), page', a, b)
  BY <1>6, <1>7, <1>8, <1>9, <1>10 DEF PageWindow
<1> QED
  BY <1>1, <1>2, <1>11 DEF NoRequest

LEMMA WindowStep == WalkInv /\ WindowInv /\ [Next]_vars => WindowInv'
<1> SUFFICES ASSUME WalkInv, WindowInv, [Next]_vars PROVE WindowInv'
  OBVIOUS
<1>1. CASE UNCHANGED vars
  <2>1. Ordered(rows)' = Ordered(rows) /\ Total' = Total
    BY <1>1 DEF vars, Ordered, RowsBefore, Total
  <2>2. Steady' => Steady
    BY <1>1 DEF vars, Steady, Holds
  <2> QED
    BY <1>1, <2>1, <2>2 DEF vars, WindowInv
<1>2. CASE Create \/ Delete \/ Update
  <2>1. ~walk'.quiet
    BY <1>2, Writes, Wrote
  <2> QED
    BY <2>1 DEF WindowInv, Steady
<1> QED
  BY <1>1, <1>2, WindowFirst, WindowAfter, WindowBefore, WindowAnswer DEF Next

LEMMA WindowHolds == Spec => [](WalkInv /\ WindowInv)
<1>1. Init => WindowInv
  BY DEF Init, NoRequest, NoPage, WindowInv
<1> QED
  BY <1>1, WalkInit, WalkStep, WindowStep, PTL DEF Spec

(* While nothing is written, has_next_page and has_prev_page say whether   *)
(* there are documents after and before those of the page, in either mode, *)
(* for any collection and limit (PaginationResultBuilder).                 *)
THEOREM FlagsTrueHolds == Spec => []FlagsTrue
<1>1. WalkInv /\ WindowInv => FlagsTrue
  <2> SUFFICES ASSUME WalkInv, WindowInv, Answered, Steady, page.docs # <<>>
               PROVE  /\ page.next <=> \E r \in rows : ~UpTo(r, Last(page.docs))
                      /\ page.prev <=> \E r \in rows : apply_order_by(query.list, r, Head(page.docs))
    BY DEF FlagsTrue, Steady
  <2> DEFINE s == Ordered(rows)
  <2>1. PICK a, b \in 0 .. Total : PageWindow(query, s, page, a, b)
    BY DEF WindowInv, Answered
  <2>2. /\ a \in Nat /\ b \in Nat /\ b <= Total
        /\ page.next = (b < Total) /\ page.prev = (a > 0)
        /\ page.docs \in Seq(Proper) /\ Len(page.docs) = b - a /\ From(page.docs, s, a)
    BY <2>1, PageFacts
  <2>3. Total \in Nat /\ rows \in SUBSET Rows /\ query.list \in Listings
    BY Facts
  <2>4. /\ Len(page.docs) \in Nat \ {0} /\ Last(page.docs) = page.docs[Len(page.docs)]
        /\ Head(page.docs) = page.docs[1]
    BY <2>2, LastRow
  <2>5. a < b /\ b \in 1 .. Total /\ a + 1 \in 1 .. Total
    BY <2>2, <2>3, <2>4
  <2>6. Last(page.docs) = s[b] /\ Head(page.docs) = s[a + 1]
    <3>1. a + Len(page.docs) = b /\ 1 \in 1 .. Len(page.docs)
          /\ Len(page.docs) \in 1 .. Len(page.docs)
      BY <2>2, <2>4
    <3> QED
      BY <2>2, <2>4, <3>1 DEF From
  <2> HIDE DEF s
  <2>7. /\ \A k \in 1 .. Total : s[k] \in rows
        /\ \A r \in rows : \E k \in 1 .. Total : s[k] = r
        /\ \A j, k \in 1 .. Total : j < k <=> Lt(s[j], s[k])
    BY Listing DEF s
  <2>8. (b < Total) <=> \E r \in rows : ~UpTo(r, s[b])
    <3>1. ASSUME b < Total PROVE \E r \in rows : ~UpTo(r, s[b])
      <4>1. b + 1 \in 1 .. Total /\ b < b + 1 /\ ~(b + 1 < b)
        BY <2>3, <2>5, <3>1
      <4>2. s[b + 1] \in rows /\ Lt(s[b], s[b + 1]) /\ ~Lt(s[b + 1], s[b])
        BY <2>5, <2>7, <4>1
      <4>3. s[b + 1] # s[b]
        BY <4>2
      <4> QED
        BY <4>2, <4>3 DEF UpTo, Lt
    <3>2. ASSUME NEW r \in rows, ~UpTo(r, s[b]) PROVE b < Total
      <4>1. PICK k \in 1 .. Total : s[k] = r
        BY <2>7
      <4>2. k # b /\ ~(k < b)
        BY <2>5, <2>7, <3>2, <4>1 DEF UpTo, Lt
      <4> QED
        BY <2>3, <2>5, <4>2
    <3> QED
      BY <3>1, <3>2
  <2>9. (a > 0) <=> \E r \in rows : Lt(r, s[a + 1])
    <3>1. ASSUME a > 0 PROVE \E r \in rows : Lt(r, s[a + 1])
      <4>1. a \in 1 .. Total /\ a < a + 1
        BY <2>2, <2>3, <2>5, <3>1
      <4> QED
        BY <2>5, <2>7, <4>1
    <3>2. ASSUME NEW r \in rows, Lt(r, s[a + 1]) PROVE a > 0
      <4>1. PICK k \in 1 .. Total : s[k] = r
        BY <2>7
      <4>2. k < a + 1
        BY <2>5, <2>7, <3>2, <4>1
      <4> QED
        BY <2>2, <2>3, <4>2
    <3> QED
      BY <3>1, <3>2
  <2>10. page.next <=> \E r \in rows : ~UpTo(r, Last(page.docs))
    BY <2>2, <2>6, <2>8
  <2>11. page.prev <=> \E r \in rows : Lt(r, Head(page.docs))
    BY <2>2, <2>6, <2>9
  <2> QED
    BY <2>10, <2>11 DEF Lt
<1> QED
  BY <1>1, WindowHolds, PTL

(* Two windows with the same bounds are the same page.                     *)
LEMMA SamePage ==
    ASSUME NEW S, NEW t \in Seq(S), NEW u \in Seq(S), NEW s, NEW a, NEW b,
           Window(s, t, a, b), Window(s, u, a, b)
    PROVE  t = u
<1>1. Len(t) = Len(u) /\ \A k \in 1 .. Len(t) : t[k] = u[k]
  BY DEF Window, From
<1> QED
  BY <1>1, SeqEqual

(* While nothing is written, to go on and back again, or back and on,      *)
(* shows the same page, in either mode (CursorRequest, PageRequest).       *)
THEOREM SymmetricHolds == Spec => Symmetric
<1>1. ASSUME WalkInv, WindowInv, [Next]_vars, Answered', req.kind # "none",
             {req.kind, page.kind} = {"after", "before"},
             walk.quiet, Holds(FALSE), Holds(TRUE)
      PROVE  page'.docs = page.from
  <2>1. find_documents
    <3>1. req'.kind = "none"
      BY <1>1 DEF Answered
    <3>2. CASE UNCHANGED vars
      BY <1>1, <3>1, <3>2 DEF vars
    <3>3. CASE Create \/ Delete \/ Update
      <4>1. UNCHANGED req
        BY <1>1, <3>3, Writes, Wrote
      <4> QED
        BY <1>1, <3>1, <4>1
    <3> QED
      BY <1>1, <3>2, <3>3 DEF Next, FindFirst, FindAfter, FindBefore
  <2>2. page'.docs = req.docs
    BY <2>1 DEF find_documents
  <2>3. req.docs \in Seq(Rows) /\ page.from \in Seq(Rows)
    BY <1>1 DEF WalkInv, PaginationTypeOK, Requests, Pages
  <2> DEFINE s == Ordered(rows)
  <2>4. PICK a, b \in 0 .. Total : ReqWindow(query, s, page, req, a, b)
    BY <1>1 DEF WindowInv, Steady
  <2>5. Window(s, req.docs, a, b)
    BY <2>4 DEF ReqWindow
  <2>6. CASE req.kind = "after" /\ page.kind = "before"
    <3>1. FullAfter(query.limit, Len(s), a, b) /\ \E c \in 0 .. a : PageWindow(query, s, page, c, a)
      BY <2>4, <2>6 DEF ReqWindow
    <3>2. \E c \in a .. Len(s) : Window(s, page.from, a, c) /\ FullAfter(query.limit, Len(s), a, c)
      BY <2>6, <3>1 DEF PageWindow
    <3>3. Window(s, page.from, a, b)
      BY <3>1, <3>2 DEF FullAfter
    <3> QED
      BY <2>2, <2>3, <2>5, <3>3, SamePage
  <2>7. CASE req.kind = "before" /\ page.kind = "after"
    <3>1. FullBefore(query.limit, a, b) /\ \E c \in b .. Len(s) : PageWindow(query, s, page, b, c)
      BY <2>4, <2>7 DEF ReqWindow
    <3>2. \E c \in 0 .. b : Window(s, page.from, c, b) /\ FullBefore(query.limit, c, b)
      BY <2>7, <3>1 DEF PageWindow
    <3>3. Window(s, page.from, a, b)
      BY <3>1, <3>2 DEF FullBefore
    <3> QED
      BY <2>2, <2>3, <2>5, <3>3, SamePage
  <2> QED
    BY <1>1, <2>6, <2>7
<1>2. WalkInv /\ WindowInv /\ [Next]_vars =>
         [/\ Answered' /\ req.kind # "none"
          /\ {req.kind, page.kind} = {"after", "before"}
          /\ walk.quiet /\ Holds(FALSE) /\ Holds(TRUE)
          => page'.docs = page.from]_vars
  BY <1>1
<1> QED
  BY <1>2, WindowHolds, PTL DEF Spec, Symmetric

-----------------------------------------------------------------------------
\* The walk forwards, whatever is written.

(* The first m of some rows in order are those up to the m-th.             *)
LEMMA Prefix ==
    ASSUME query.list \in Listings, NEW S \in SUBSET Rows, IsFiniteSet(S), OneEach(S),
           NEW docs \in Seq(S), NEW m \in 0 .. Cardinality(S), Len(docs) = m,
           \A k \in 1 .. m : docs[k] = Ordered(S)[k]
    PROVE  /\ \A r \in S : In(r, docs) <=> docs # <<>> /\ UpTo(r, Last(docs))
           /\ docs # <<>> => Last(docs) \in S
           /\ m = Cardinality(S) => \A r \in S : In(r, docs)
<1> DEFINE s == Ordered(S)
           n == Cardinality(S)
<1>1. /\ n \in Nat
      /\ \A r \in S : \E k \in 1 .. n : s[k] = r
      /\ \A j, k \in 1 .. n : j < k <=> Lt(s[j], s[k])
  BY Sorted
<1> HIDE DEF s
<1>2. DOMAIN docs = 1 .. m /\ (docs # <<>> <=> m > 0)
  BY LenProperties, EmptySeq
<1>3. docs # <<>> => Last(docs) = s[m] /\ m \in 1 .. n
  BY <1>1, <1>2, LastRow DEF s
<1>4. docs # <<>> => Last(docs) \in S
  BY LastRow
<1>5. ASSUME NEW k \in 1 .. n PROVE In(s[k], docs) <=> k <= m
  <2>1. k <= m => In(s[k], docs)
    BY <1>1, <1>2 DEF In, s
  <2>2. ASSUME In(s[k], docs) PROVE k <= m
    <3>1. PICK j \in 1 .. m : s[j] = s[k]
      BY <1>2, <2>2 DEF In, s
    <3>2. j \in 1 .. n /\ (j < k <=> Lt(s[j], s[k])) /\ (k < k <=> Lt(s[k], s[k]))
      BY <1>1
    <3> QED
      BY <1>1, <3>1, <3>2
  <2> QED
    BY <2>1, <2>2
<1>6. ASSUME docs # <<>>, NEW k \in 1 .. n PROVE UpTo(s[k], Last(docs)) <=> k <= m
  <2>1. Last(docs) = s[m] /\ m \in 1 .. n
    BY <1>3, <1>6
  <2>2. (k < m <=> Lt(s[k], s[m])) /\ (m < k <=> Lt(s[m], s[k])) /\ ~(k < k) /\ ~Lt(s[k], s[k])
    BY <1>1, <2>1
  <2>3. CASE k = m
    BY <1>1, <2>1, <2>3 DEF UpTo
  <2>4. CASE k # m
    <3>1. s[k] # s[m]
      BY <1>1, <2>1, <2>2, <2>4
    <3> QED
      BY <1>1, <2>1, <2>2, <2>4, <3>1 DEF UpTo, Lt
  <2> QED
    BY <2>3, <2>4
<1>7. \A r \in S : In(r, docs) <=> docs # <<>> /\ UpTo(r, Last(docs))
  <2> SUFFICES ASSUME NEW r \in S
               PROVE  In(r, docs) <=> docs # <<>> /\ UpTo(r, Last(docs))
    OBVIOUS
  <2>1. PICK k \in 1 .. n : s[k] = r
    BY <1>1
  <2>2. CASE docs # <<>>
    BY <1>5, <1>6, <2>1, <2>2
  <2>3. CASE docs = <<>>
    BY <1>2, <2>3 DEF In
  <2> QED
    BY <2>2, <2>3
<1>8. m = n => \A r \in S : In(r, docs)
  BY <1>1, <1>5
<1> QED
  BY <1>4, <1>7, <1>8

(* A request whose page holds the first rows beyond the position.          *)
LEMMA Sent ==
    ASSUME WalkInv, UNCHANGED <<query, rows>>, walk'.stable \subseteq rows,
           NEW S, S = {r \in rows : Ahead(r)'},
           NEW m \in 0 .. Cardinality(S), req'.docs \in Seq(rows), Len(req'.docs) = m,
           \A k \in 1 .. m : req'.docs[k] = Ordered(S)[k],
           NoMore' => m = Cardinality(S)
    PROVE  Contiguous'
<1>1. query.list \in Listings /\ S \in SUBSET Rows /\ IsFiniteSet(S) /\ OneEach(S)
  BY Facts, FS_Subset DEF OneEach
<1>2. req'.docs \in Seq(S)
  <2>1. Cardinality(S) \in Nat /\ \A k \in 1 .. Cardinality(S) : Ordered(S)[k] \in S
    BY <1>1, Sorted
  <2>2. \A k \in 1 .. Len(req'.docs) : req'.docs[k] \in S
    BY <2>1
  <2> QED
    BY <2>2
<1>3. /\ \A r \in S : In(r, req'.docs) <=> req'.docs # <<>> /\ UpTo(r, Last(req'.docs))
      /\ req'.docs # <<>> => Last(req'.docs) \in S
      /\ m = Cardinality(S) => \A r \in S : In(r, req'.docs)
  BY <1>1, <1>2, Prefix
<1>4. \A r : In(r, req'.docs) => r \in S
  BY <1>2, LenProperties, ElementOfSeq DEF In
<1>5. \A r \in walk'.stable : In(r, req'.docs) <=>
         req'.docs # <<>> /\ Ahead(r)' /\ UpTo(r, Last(req'.docs))
  BY <1>3, <1>4
<1>6. \A r \in walk'.stable : UpTo(r, Last(req.docs))' <=> UpTo(r, Last(req'.docs))
  BY DEF UpTo
<1>7. \A r \in walk'.stable : In(r, req.docs)' <=> In(r, req'.docs)
  BY DEF In
<1>8. req'.docs # <<>> => Ahead(Last(req.docs))'
  BY <1>3
<1>9. NoMore' => \A r \in walk'.stable : Ahead(r)' => In(r, req'.docs)
  BY <1>3
<1> QED
  BY <1>5, <1>6, <1>7, <1>8, <1>9 DEF Contiguous

LEMMA CoverFirst == WalkInv /\ FindFirst => CoverInv'
<1> SUFFICES ASSUME WalkInv, FindFirst
             PROVE  /\ \A r \in walk'.stable : walk'.shown[r.id] = IF Covered(r)' THEN 1 ELSE 0
                    /\ page'.kind = "none"
                    /\ Contiguous'
  BY DEF CoverInv
<1>1. /\ req' = PageRequest("first", 1) /\ page'.kind = "none" /\ UNCHANGED <<query, rows>>
      /\ walk'.stable = rows /\ walk'.pos = <<>> /\ walk'.shown = [i \in Ids |-> 0]
  BY DEF FindFirst, NoPage, NewWalk
<1>2. \A r \in walk'.stable : walk'.shown[r.id] = IF Covered(r)' THEN 1 ELSE 0
  <2>1. \A r \in rows : r.id \in Ids
    BY Facts DEF Rows
  <2>2. \A r \in rows : ~Covered(r)'
    BY <1>1 DEF Covered
  <2> QED
    BY <1>1, <2>1, <2>2
<1>3. rows = {r \in rows : Ahead(r)'}
  BY <1>1 DEF Ahead
<1>4. /\ Total \in Nat /\ Len(Ordered(rows)) = Total /\ query.limit \in Nat \ {0}
      /\ Ordered(rows) \in Seq(rows) /\ Total = Cardinality(rows)
  BY Facts DEF Total
<1> DEFINE z == (1 - 1) * query.limit
           m == Least(query.limit, Total)
<1>5. z = 0 /\ z <= Total /\ Total - z = Total /\ m \in 0 .. Total /\ (Total <= query.limit => m = Total)
  BY <1>4 DEF Least
<1>6. m = Least(query.limit, Total - z) /\ "first" \in Kinds /\ 1 \in Nat \ {0}
  BY <1>5 DEF Kinds
<1> HIDE DEF z, m
<1>7. /\ req' = [kind |-> "first", number |-> 1, more |-> FALSE, docs |-> req'.docs]
      /\ Len(req'.docs) = m /\ From(req'.docs, Ordered(rows), z) /\ req'.docs \in Seq(rows)
  BY <1>1, <1>4, <1>5, <1>6, PageFetch DEF z
<1>8. req'.kind = "first"
  BY <1>7
<1>9. \A k \in 1 .. m : req'.docs[k] = Ordered(rows)[k]
  BY <1>4, <1>5, <1>7 DEF From
<1>10. NoMore' => m = Cardinality(rows)
  <2>1. NoMore' => Cardinality(rows) <= query.limit
    BY <1>1, <1>8 DEF NoMore
  <2> QED
    BY <1>4, <1>5, <2>1
<1>11. Contiguous'
  BY <1>1, <1>3, <1>4, <1>5, <1>7, <1>9, <1>10, Sent
<1> QED
  BY <1>1, <1>2, <1>11

(* On a page that has rows, the rows ahead are those after its last one.   *)
LEMMA AheadOfPage ==
    ASSUME WalkInv, page.docs # <<>>
    PROVE  /\ Last(page.docs) \in Proper
           /\ \A r : Ahead(r) <=> Lt(Last(page.docs), r)
<1>1. page.docs \in Seq(Proper) /\ walk.pos = <<Last(page.docs)>>
  BY DEF WalkInv
<1>2. Last(page.docs) \in Proper
  BY <1>1, LastRow
<1>3. DOMAIN walk.pos = {1} /\ walk.pos[1] = Last(page.docs)
  BY <1>1
<1> QED
  BY <1>2, <1>3 DEF Ahead

LEMMA CoverAfterCursor ==
    ASSUME WalkInv, FindAfter, query.cursor, Exact(query.list, query.nulls, FALSE)
    PROVE  Contiguous' /\ req'.kind = "after"
<1> DEFINE c == Last(page.docs)
           d == cursor_from_doc(query.list, c)
           S == {r \in rows : Lt(c, r)}
           s == find(d, FALSE)
           m == Least(query.limit, Len(s))
<1>1. /\ UNCHANGED <<query, rows, page, walk>> /\ page.docs # <<>>
      /\ req' = CursorRequest("after", d)
  BY DEF FindAfter
<1>2. c \in Proper /\ \A r : Ahead(r) <=> Lt(c, r)
  BY <1>1, AheadOfPage
<1>3. s = Ordered(S)
  BY <1>2, Finds
<1>4. S = {r \in rows : Ahead(r)'}
  <2>1. \A r : Ahead(r)' <=> Ahead(r)
    BY <1>1 DEF Ahead, Lt
  <2> QED
    BY <1>2, <2>1
<1>5. S \in SUBSET rows
  OBVIOUS
<1>6. s = find(d, "after" = "before") /\ query.limit \in Nat \ {0}
  BY Facts
<1> HIDE DEF c, d, S, s
<1>7. S \in SUBSET Rows /\ IsFiniteSet(S) /\ OneEach(S) /\ query.list \in Listings
  BY <1>5, Facts, FS_Subset DEF OneEach
<1>8. s \in Seq(S) /\ Len(s) = Cardinality(S) /\ Cardinality(S) \in Nat
  BY <1>3, <1>7, Sorted
<1>9. s \in Seq(rows)
  BY <1>5, <1>8, SeqMonotonic
<1>10. Len(s) <= query.limit => m = Len(s)
  BY <1>6, <1>8 DEF Least
<1> HIDE DEF m
<1>11. /\ req'.kind = "after" /\ req'.more = (query.limit < Len(s))
       /\ m \in 0 .. Len(s) /\ req'.docs \in Seq(rows) /\ Len(req'.docs) = m
       /\ \A k \in 1 .. m : req'.docs[k] = s[k]
  BY <1>1, <1>6, <1>9, CursorFetch DEF m
<1>12. NoMore' => m = Cardinality(S)
  <2>1. NoMore' => ~req'.more
    BY <1>1, <1>11 DEF NoMore
  <2>2. ~(query.limit < Len(s)) => m = Cardinality(S)
    BY <1>6, <1>8, <1>10
  <2> QED
    BY <1>11, <2>1, <2>2
<1>13. walk'.stable \subseteq rows
  BY <1>1 DEF WalkInv
<1> QED
  BY <1>1, <1>3, <1>4, <1>8, <1>11, <1>12, <1>13, Sent

LEMMA CoverAfterNumber ==
    ASSUME WalkInv, WindowInv, FindAfter, ~query.cursor, walk.quiet
    PROVE  Contiguous' /\ req'.kind = "after"
<1> DEFINE n == page.number + 1
<1>1. /\ UNCHANGED <<query, rows, page, walk>> /\ page.next
      /\ req' = PageRequest("after", n)
  BY DEF FindAfter
<1>2. Steady /\ page.kind # "none"
  BY <1>1 DEF Steady, Holds, WalkInv
<1>3. PICK c, a \in 0 .. Total : PageWindow(query, Ordered(rows), page, c, a)
  BY <1>2 DEF WindowInv
<1>4. /\ Total \in Nat /\ Len(Ordered(rows)) = Total /\ query.limit \in Nat \ {0}
      /\ Ordered(rows) \in Seq(rows) /\ Total = Cardinality(rows)
  BY Facts DEF Total
<1>5. /\ c \in Nat /\ a \in Nat /\ c <= a /\ a <= Total
      /\ page.next = (a < Total)
      /\ page.docs \in Seq(Proper) /\ Len(page.docs) = a - c
      /\ From(page.docs, Ordered(rows), c)
      /\ Total > 0 => c < a
      /\ page.number \in Nat \ {0} /\ (a < Total => a = page.number * query.limit)
  BY <1>3, PageFacts
<1>6. a < Total
  BY <1>1, <1>5, Zenon
<1>7. c < a /\ a \in 1 .. Total /\ n \in Nat \ {0} /\ n - 1 = page.number
  BY <1>4, <1>5, <1>6
<1>8. a = (n - 1) * query.limit /\ n * query.limit = a + query.limit
  <2>1. a = page.number * query.limit /\ page.number \in Nat
    BY <1>5, <1>6
  <2>2. (page.number + 1) * query.limit = page.number * query.limit + query.limit
    BY <1>4, <2>1, Multiples
  <2> QED
    BY <1>7, <2>1, <2>2
<1> HIDE DEF n
<1>9. page.docs # <<>> /\ Last(page.docs) = Ordered(rows)[a]
  <2>1. page.docs # <<>>
    BY <1>5, <1>7, EmptySeq
  <2>2. Last(page.docs) = page.docs[a - c] /\ a - c \in 1 .. Len(page.docs)
    BY <1>5, <1>7, <2>1, LastRow
  <2> QED
    BY <1>5, <2>1, <2>2 DEF From
<1> DEFINE S == {r \in rows : Lt(Ordered(rows)[a], r)}
           m == Least(query.limit, Total - a)
<1>10. S = {r \in rows : Ahead(r)'}
  <2>1. \A r : Ahead(r)' <=> Ahead(r)
    BY <1>1 DEF Ahead, Lt
  <2>2. \A r : Ahead(r) <=> Lt(Ordered(rows)[a], r)
    BY <1>9, AheadOfPage
  <2> QED
    BY <2>1, <2>2
<1>11. S \in SUBSET rows /\ S = {r \in rows : Lt(Ordered(rows)[a], r)}
  OBVIOUS
<1>12. m \in 0 .. (Total - a) /\ (Total - a <= query.limit => m = Total - a)
  BY <1>4, <1>5 DEF Least
<1>13. m = Least(query.limit, Cardinality(rows) - a) /\ a <= Cardinality(rows) /\ "after" \in Kinds
  BY <1>4, <1>5 DEF Kinds
<1> HIDE DEF S, m
<1>14. Len(Ordered(S)) = Total - a /\ From(Ordered(S), Ordered(rows), a)
  BY <1>7, <1>11, SortedAfter
<1>15. Cardinality(S) = Total - a
  <2>1. S \in SUBSET Rows /\ IsFiniteSet(S) /\ OneEach(S) /\ query.list \in Listings
    BY <1>11, Facts, FS_Subset DEF OneEach
  <2> QED
    BY <1>14, <2>1, Sorted
<1>16. /\ req' = [kind |-> "after", number |-> n, more |-> FALSE, docs |-> req'.docs]
       /\ req'.docs \in Seq(rows) /\ Len(req'.docs) = m /\ From(req'.docs, Ordered(rows), a)
  BY <1>1, <1>4, <1>7, <1>8, <1>13, PageFetch
<1>17. req'.kind = "after" /\ req'.number = n
  BY <1>16
<1>18. \A k \in 1 .. m : req'.docs[k] = Ordered(S)[k]
  <2>1. \A k \in 1 .. m : k \in 1 .. (Total - a)
    BY <1>4, <1>5, <1>12
  <2> QED
    BY <1>14, <1>16, <2>1 DEF From
<1>19. NoMore' => m = Cardinality(S)
  <2>1. NoMore' => Total <= n * query.limit
    BY <1>1, <1>4, <1>17 DEF NoMore
  <2> QED
    BY <1>4, <1>5, <1>8, <1>12, <1>15, <2>1
<1>20. walk'.stable \subseteq rows /\ m \in 0 .. Cardinality(S)
  BY <1>1, <1>12, <1>15 DEF WalkInv
<1> QED
  BY <1>1, <1>10, <1>16, <1>17, <1>18, <1>19, <1>20, Sent

LEMMA CoverGoesOn == WalkInv /\ WindowInv /\ CoverInv /\ (FindAfter \/ FindBefore) => CoverInv'
<1> SUFFICES ASSUME WalkInv, WindowInv, CoverInv, FindAfter \/ FindBefore,
                    walk'.forward, Holds(FALSE)'
             PROVE  /\ \A r \in walk'.stable : walk'.shown[r.id] = IF Covered(r)' THEN 1 ELSE 0
                    /\ page'.kind # "none" /\ ~page'.next /\ ~walk'.raced =>
                          \A r \in walk'.stable : Covered(r)'
                    /\ req'.kind \in {"first", "after"} => Contiguous'
  BY DEF CoverInv
<1>1. UNCHANGED <<query, rows, page, walk>>
  BY DEF FindAfter, FindBefore
<1>2. walk.forward /\ Holds(FALSE)
  BY <1>1 DEF Holds
<1>3. \A r : Covered(r)' <=> Covered(r)
  BY <1>1 DEF Covered, UpTo
<1>4. CASE FindAfter
  <2>1. Contiguous'
    <3>1. CASE query.cursor
      BY <1>2, <1>4, <3>1, CoverAfterCursor DEF Holds
    <3>2. CASE ~query.cursor
      BY <1>2, <1>4, <3>2, CoverAfterNumber DEF Holds
    <3> QED
      BY <3>1, <3>2
  <2> QED
    BY <1>1, <1>2, <1>3, <2>1 DEF CoverInv
<1>5. CASE FindBefore
  <2>1. req'.kind = "before"
    BY <1>5 DEF FindBefore, CursorRequest, PageRequest
  <2> QED
    BY <1>1, <1>2, <1>3, <2>1 DEF CoverInv
<1> QED
  BY <1>4, <1>5

(* A row that stays is behind the position, or ahead of it.                *)
LEMMA EitherWay ==
    ASSUME WalkInv, NEW r \in walk.stable
    PROVE  Covered(r) <=> ~Ahead(r)
<1>1. r \in Rows /\ query.list \in Listings /\ walk.pos \in Seq(Rows)
  BY Facts DEF WalkInv, PaginationTypeOK, Walks
<1>2. ASSUME NEW k \in DOMAIN walk.pos
      PROVE  UpTo(r, walk.pos[k]) <=> ~Lt(walk.pos[k], r)
  <2>1. walk.pos[k] \in Rows /\ (walk.pos[k].id = r.id => walk.pos[k] = r)
    BY <1>1, LenProperties, ElementOfSeq DEF WalkInv, Agrees
  <2> QED
    BY <1>1, <2>1, Orders DEF UpTo, Lt
<1> QED
  BY <1>2 DEF Covered, Ahead

(* An answer that says there is no next page ends the walk.                *)
LEMMA LastPage ==
    ASSUME WalkInv, WindowInv, Holds(FALSE), req.kind \in {"first", "after"},
           ~Flags[1], ~walk.raced
    PROVE  NoMore
<1>1. /\ Total \in Nat /\ Len(Ordered(rows)) = Total /\ query.limit \in Nat \ {0}
      /\ query.cursor \in BOOLEAN /\ Total = Cardinality(rows)
  BY Facts DEF Total
<1>2. \A n \in Nat : n < total_pages <=> n * query.limit < Total
  BY <1>1, Quotient DEF total_pages, Total
<1>3. CASE query.cursor /\ req.kind = "first"
  <2>1. ~(total_pages > 1)
    BY <1>3, FlagValues
  <2>2. 1 < total_pages <=> 1 * query.limit < Total
    BY <1>2
  <2>3. Total <= query.limit
    BY <1>1, <2>1, <2>2
  <2> QED
    BY <1>1, <1>3, <2>3 DEF NoMore
<1>4. CASE query.cursor /\ req.kind = "after"
  <2>1. ~req.more
    BY <1>4, FlagValues
  <2> QED
    BY <1>4, <2>1 DEF NoMore
<1>5. CASE ~query.cursor /\ req.kind = "first"
  <2>1. Steady
    BY <1>5 DEF Steady, Holds
  <2>2. PICK a, b \in 0 .. Total : ReqWindow(query, Ordered(rows), page, req, a, b)
    BY <1>5, <2>1 DEF WindowInv
  <2>3. Flags[1] = (b < Total)
    BY <2>2, WindowFlags
  <2>4. ~(b < Total)
    BY <2>3, Zenon
  <2>5. a = 0 /\ FullAfter(query.limit, Total, a, b)
    BY <1>1, <1>5, <2>2 DEF ReqWindow
  <2>6. Total <= query.limit
    BY <1>1, <2>4, <2>5 DEF FullAfter
  <2> QED
    BY <1>1, <1>5, <2>6 DEF NoMore
<1>6. CASE ~query.cursor /\ req.kind = "after"
  <2>1. req.number \in Nat
    BY DEF WalkInv, PaginationTypeOK, Requests
  <2>2. ~(req.number < total_pages)
    BY <1>6, FlagValues
  <2>3. req.number * query.limit \in Nat
    BY <1>1, <2>1
  <2>4. Total <= req.number * query.limit
    BY <1>1, <1>2, <2>1, <2>2, <2>3
  <2> QED
    BY <1>1, <1>6, <2>4 DEF NoMore
<1> QED
  BY <1>1, <1>3, <1>4, <1>5, <1>6

LEMMA CoverAnswer == WalkInv /\ WindowInv /\ CoverInv /\ find_documents => CoverInv'
<1> SUFFICES ASSUME WalkInv, WindowInv, CoverInv, find_documents,
                    walk'.forward, Holds(FALSE)'
             PROVE  /\ \A r \in walk'.stable : walk'.shown[r.id] = IF Covered(r)' THEN 1 ELSE 0
                    /\ ~page'.next /\ ~walk'.raced => \A r \in walk'.stable : Covered(r)'
                    /\ req'.kind = "none"
  BY DEF CoverInv
<1> DEFINE pos == IF req.docs = <<>> THEN walk.pos ELSE <<Last(req.docs)>>
<1>1. walk \in Walks /\ req.docs \in Seq(Proper) /\ Agrees(req.docs) /\ walk.pos \in Seq(Rows)
  BY DEF WalkInv, PaginationTypeOK, Walks
<1>2. /\ req'.kind = "none" /\ UNCHANGED <<query, rows>> /\ page'.next = Flags[1]
      /\ walk'.stable = walk.stable /\ walk'.quiet = walk.quiet /\ walk'.raced = walk.raced
      /\ walk'.shown = Shown /\ walk'.pos = pos
      /\ walk.forward /\ req.kind \in {"first", "after"}
  <2>1. /\ req' = NoRequest /\ UNCHANGED <<query, rows>>
        /\ page' = [kind |-> req.kind, docs |-> req.docs, number |-> req.number,
                    next |-> Flags[1], prev |-> Flags[2], from |-> page.docs]
        /\ walk' = [walk EXCEPT !.shown = Shown,
                                !.forward = walk.forward /\ req.kind # "before",
                                !.pos = pos]
        /\ req.kind \in {"first", "after", "before"}
    BY Answer
  <2> HIDE DEF pos
  <2>2. /\ walk'.stable = walk.stable /\ walk'.quiet = walk.quiet /\ walk'.raced = walk.raced
        /\ walk'.shown = Shown /\ walk'.pos = pos
        /\ walk'.forward = (walk.forward /\ req.kind # "before")
    BY <1>1, <2>1 DEF Walks
  <2>3. walk.forward /\ req.kind # "before"
    BY <2>2
  <2> QED
    BY <2>1, <2>2, <2>3 DEF NoRequest
<1>3. Holds(FALSE)
  BY <1>2 DEF Holds
<1>4. /\ \A r \in walk.stable : walk.shown[r.id] = IF Covered(r) THEN 1 ELSE 0
      /\ Contiguous
  BY <1>2, <1>3 DEF CoverInv
<1>5. query.list \in Listings /\ walk.stable \in SUBSET Rows
  BY Facts
<1>6. ASSUME NEW r \in walk.stable
      PROVE  /\ Shown[r.id] = IF Covered(r) \/ In(r, req.docs) THEN 1 ELSE 0
             /\ Covered(r)' <=> Covered(r) \/ In(r, req.docs)
  <2>1. r \in Rows /\ r.id \in Ids /\ (Covered(r) <=> ~Ahead(r))
    BY <1>5, EitherWay DEF Rows
  <2>2. In(r, req.docs) <=> \E k \in DOMAIN req.docs : req.docs[k].id = r.id
    BY <1>1 DEF In, Agrees
  <2>3. In(r, req.docs) <=> req.docs # <<>> /\ Ahead(r) /\ UpTo(r, Last(req.docs))
    BY <1>4 DEF Contiguous
  <2>4. Shown[r.id] = IF Covered(r) \/ In(r, req.docs) THEN 1 ELSE 0
    <3>1. Shown[r.id] = LET n == walk.shown[r.id] IN IF n < 2 /\ In(r, req.docs) THEN n + 1 ELSE n
      BY <2>1, <2>2 DEF Shown
    <3>2. walk.shown[r.id] = IF Covered(r) THEN 1 ELSE 0
      BY <1>4
    <3> QED
      BY <2>1, <2>3, <3>1, <3>2
  <2>5. Covered(r)' <=> \E k \in DOMAIN pos : UpTo(r, pos[k])
    BY <1>2 DEF Covered, UpTo
  <2>6. CASE req.docs = <<>>
    BY <2>3, <2>4, <2>5, <2>6 DEF Covered
  <2>7. CASE req.docs # <<>>
    <3>1. Last(req.docs) \in Rows
      BY <1>1, <2>7, LastRow DEF Proper
    <3>2. Covered(r)' <=> UpTo(r, Last(req.docs))
      <4>1. DOMAIN pos = {1} /\ pos[1] = Last(req.docs)
        BY <2>7
      <4> QED
        BY <2>5, <4>1
    <3>3. Covered(r) => UpTo(r, Last(req.docs))
      <4> SUFFICES ASSUME NEW k \in DOMAIN walk.pos, UpTo(r, walk.pos[k])
                   PROVE  Lt(r, Last(req.docs))
        BY DEF Covered, UpTo, Lt
      <4>1. Lt(walk.pos[k], Last(req.docs))
        BY <1>4, <2>7 DEF Contiguous, Ahead
      <4>2. walk.pos[k] \in Rows
        BY <1>1, LenProperties, ElementOfSeq
      <4> QED
        BY <1>5, <2>1, <3>1, <4>1, <4>2, Orders DEF UpTo, Lt
    <3> QED
      BY <2>1, <2>3, <2>4, <2>7, <3>2, <3>3
  <2> QED
    BY <2>4, <2>6, <2>7
<1>7. \A r \in walk'.stable : walk'.shown[r.id] = IF Covered(r)' THEN 1 ELSE 0
  BY <1>2, <1>6
<1>8. ASSUME ~page'.next, ~walk'.raced, NEW r \in walk'.stable PROVE Covered(r)'
  <2>1. NoMore
    BY <1>2, <1>3, <1>8, LastPage
  <2>2. Ahead(r) => In(r, req.docs)
    BY <1>2, <1>4, <2>1 DEF Contiguous
  <2> QED
    BY <1>2, <1>6, <2>2, EitherWay
<1> QED
  BY <1>2, <1>7, <1>8

LEMMA CoverWrite ==
    ASSUME WalkInv, CoverInv, NEW new, Writable(new), Write(new)
    PROVE  CoverInv'
<1> SUFFICES ASSUME walk'.forward, Holds(FALSE)'
             PROVE  /\ \A r \in walk'.stable : walk'.shown[r.id] = IF Covered(r)' THEN 1 ELSE 0
                    /\ page'.kind # "none" /\ ~page'.next /\ ~walk'.raced =>
                          \A r \in walk'.stable : Covered(r)'
                    /\ req'.kind \in {"first", "after"} => Contiguous'
  BY DEF CoverInv
<1>1. /\ rows' = new /\ UNCHANGED <<query, req, page>>
      /\ walk'.stable = walk.stable \cap new /\ ~walk'.quiet
      /\ walk'.shown = walk.shown /\ walk'.pos = walk.pos /\ walk'.forward = walk.forward
      /\ walk'.raced = (walk.raced \/ (req.kind = "first" /\ Cardinality(new) < Total))
  BY Wrote
<1>2. query.cursor /\ walk.forward /\ Holds(FALSE)
  BY <1>1 DEF Holds
<1>3. \A r : (Covered(r)' <=> Covered(r)) /\ (Ahead(r)' <=> Ahead(r))
  BY <1>1 DEF Covered, Ahead, UpTo, Lt
<1>4. ~walk'.raced => ~walk.raced
  BY <1>1
<1>5. NoMore' => NoMore
  <2>1. CASE req.kind = "first"
    <3>1. NoMore' => ~walk'.raced /\ Cardinality(new) <= query.limit
      BY <1>1, <2>1 DEF NoMore
    <3>2. ~walk'.raced => ~walk.raced /\ ~(Cardinality(new) < Total)
      BY <1>1, <2>1
    <3>3. Cardinality(new) \in Nat /\ Total \in Nat /\ query.limit \in Nat
      BY Facts, FS_CardinalityType DEF Writable
    <3>4. NoMore' => ~walk.raced /\ Total <= query.limit
      BY <3>1, <3>2, <3>3
    <3> QED
      BY <2>1, <3>4 DEF NoMore, Total
  <2>2. CASE req.kind # "first"
    BY <1>1, <1>2, <2>2 DEF NoMore
  <2> QED
    BY <2>1, <2>2
<1>6. ASSUME req'.kind \in {"first", "after"} PROVE Contiguous'
  <2>1. Contiguous
    BY <1>1, <1>2, <1>6 DEF CoverInv
  <2>2. \A r : (In(r, req.docs)' <=> In(r, req.docs))
               /\ (UpTo(r, Last(req.docs))' <=> UpTo(r, Last(req.docs)))
    BY <1>1 DEF In, UpTo
  <2>3. Ahead(Last(req.docs))' <=> Ahead(Last(req.docs))
    BY <1>1 DEF Ahead, Lt
  <2> QED
    BY <1>1, <1>3, <1>5, <2>1, <2>2, <2>3 DEF Contiguous
<1> QED
  BY <1>1, <1>2, <1>3, <1>4, <1>6 DEF CoverInv

LEMMA CoverStep == WalkInv /\ WindowInv /\ CoverInv /\ [Next]_vars => CoverInv'
<1> SUFFICES ASSUME WalkInv, WindowInv, CoverInv, [Next]_vars PROVE CoverInv'
  OBVIOUS
<1>1. CASE UNCHANGED vars
  <2>1. UNCHANGED <<query, rows, req, page, walk>>
    BY <1>1 DEF vars
  <2>2. \A r : (Covered(r)' <=> Covered(r)) /\ (Ahead(r)' <=> Ahead(r))
    BY <2>1 DEF Covered, Ahead, UpTo, Lt
  <2>3. Contiguous => Contiguous'
    <3>1. \A r : (In(r, req.docs)' <=> In(r, req.docs))
                 /\ (UpTo(r, Last(req.docs))' <=> UpTo(r, Last(req.docs)))
      BY <2>1 DEF In, UpTo
    <3>2. (Ahead(Last(req.docs))' <=> Ahead(Last(req.docs))) /\ (NoMore' <=> NoMore)
      BY <2>1 DEF Ahead, Lt, NoMore
    <3> QED
      BY <2>1, <2>2, <3>1, <3>2 DEF Contiguous
  <2>4. Holds(FALSE)' => Holds(FALSE)
    BY <2>1 DEF Holds
  <2> QED
    BY <2>1, <2>2, <2>3, <2>4 DEF CoverInv
<1>2. CASE Create \/ Delete \/ Update
  BY <1>2, Writes, CoverWrite
<1> QED
  BY <1>1, <1>2, CoverFirst, CoverGoesOn, CoverAnswer DEF Next

LEMMA CoverHolds == Spec => [](WalkInv /\ WindowInv /\ CoverInv)
<1>1. Init => CoverInv
  <2> SUFFICES ASSUME Init PROVE CoverInv
    OBVIOUS
  <2>1. /\ req.kind = "none" /\ page.kind = "none" /\ walk.pos = <<>> /\ walk.stable = rows
        /\ walk.shown = [i \in Ids |-> 0]
    BY DEF Init, NoRequest, NoPage, NewWalk
  <2>2. \A r \in rows : r.id \in Ids
    BY WalkInit, Facts DEF Rows
  <2>3. \A r \in walk.stable : walk.shown[r.id] = 0 /\ ~Covered(r)
    BY <2>1, <2>2 DEF Covered
  <2> QED
    BY <2>1, <2>3 DEF CoverInv
<1> QED
  BY <1>1, WalkInit, WalkStep, WindowHolds, CoverStep, PTL DEF Spec

(* However documents come, go and change between the requests of a walk    *)
(* forwards, those that stay as they are are shown in order, each once:    *)
(* all of them up to the last row shown, and none beyond it, for any       *)
(* collection, limit and number of writes (apply_cursor_keyset,            *)
(* apply_order_by).                                                        *)
THEOREM WalkCoversHolds == Spec => []WalkCovers
<1>1. CoverInv => WalkCovers
  BY DEF CoverInv, WalkCovers, Covered
<1> QED
  BY <1>1, CoverHolds, PTL

(* When an answer says that there is no next page, the walk has shown every*)
(* document that was there all the time, unless one was deleted between    *)
(* the two statements of the first page (build_pagination).                *)
THEOREM WalkCompleteHolds == Spec => []WalkComplete
<1>1. CoverInv => WalkComplete
  BY DEF CoverInv, WalkComplete, Answered
<1> QED
  BY <1>1, CoverHolds, PTL

=============================================================================
