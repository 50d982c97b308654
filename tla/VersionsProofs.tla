--------------------------- MODULE VersionsProofs ---------------------------
(***************************************************************************)
(* Proofs about Versions: the _latest flag, what editors see, the          *)
(* published content on record and the cap of the log, for any number of   *)
(* saves and any settings of max_versions.                                 *)
(*                                                                         *)
(* They are about SQLite, and about Postgres with an unlimited log: there  *)
(* transactions overlap statement by statement, and what keeps the log in  *)
(* order is the unique index on the version number.                        *)
(***************************************************************************)
EXTENDS Versions, FiniteSetTheorems, FunctionTheorems, WellFoundedInduction, TLAPS

-----------------------------------------------------------------------------
\* The inductive invariants.

Supported == deploy.pg => deploy.max_versions = 0

Live(x) == x.pc \notin {"none", "done", "failed"}

(* The statements before the INSERT, those of create_version up to it, and *)
(* those after it.                                                         *)
Before  == {"read", "hooks", "main", "max", "clear", "clearing", "insert"}
Numbers == {"clear", "clearing", "insert"}
After   == {"prune", "pruning", "commit"}

(* Visible, of the transaction x of the save t.                            *)
Own(t, x) ==
    [id |-> t, _version |-> x.next,
     _status |-> IF x.kind \in {"draft", "unpublish"} THEN "draft" ELSE "published",
     _latest |-> TRUE, snapshot |-> x.doc]

Copied(r, x) == IF r.id \in x.cleared THEN [r EXCEPT !._latest = FALSE] ELSE r

View(t, x) ==
    {Copied(r, x) : r \in {y \in rows : y.id \notin x.pruned}}
        \cup (IF x.inserted /\ t \notin x.pruned THEN {Own(t, x)} ELSE {})

(* What a transaction has done so far.                                     *)
Shape(x) ==
    /\ x.pc \in Before => ~x.inserted /\ x.pruned = {}
    /\ x.pc \in Before \ {"insert"} => x.cleared = {}
    /\ x.pc \in {"prune", "pruning"} => x.pruned = {}
    /\ Live(x) /\ x.kind = "delete" =>
          /\ x.pc \in {"main", "commit"} /\ ~x.inserted
          /\ x.pc = "commit" => x.locks /\ Ids(rows) \subseteq x.pruned
    /\ x.pc \in After /\ x.kind # "delete" => x.inserted /\ main # Gone
    /\ x.pc \in After \cup Numbers /\ x.kind # "delete" => x.next # 0
    /\ \/ x.pc \in After \cup Numbers \cup {"max"} /\ x.kind # "delete"
       \/ x.pc = "main" /\ x.kind \in {"unpublish", "restore"}
       => x.doc \in Contents
    /\ x.pc = "hooks" => x.kind = "unpublish" /\ x.doc \in Contents
    /\ /\ Live(x) /\ x.pc \notin {"read", "hooks"} /\ x.kind = "unpublish"
       /\ ~deploy.pg /\ ~deploy.global /\ main # Gone
       => x.doc = main.content

Deleting(x) == x.kind = "delete" /\ x.pc = "commit"
Inserted(x) == Live(x) /\ x.inserted

(* A transaction that others may overlap: any on Postgres, and one that    *)
(* runs its hooks.                                                         *)
Aside(x) == deploy.pg \/ x.pc = "hooks"

(* On SQLite transactions run one at a time, but for hooks; on Postgres a  *)
(* DELETE waits for the transaction that has inserted a version.           *)
Apart ==
    \A t, u \in Saves : t # u /\ Live(tx[t]) /\ Live(tx[u]) =>
        /\ Aside(tx[t]) \/ Aside(tx[u])
        /\ Inserted(tx[t]) => ~Deleting(tx[u])

BaseInv ==
    /\ VersionsTypeOK /\ IsFiniteSet(rows) /\ Apart
    /\ main = Gone => rows = {}
    /\ \A t \in Saves : Shape(tx[t])

(* A row is known by its id and by its number, and its save has committed. *)
RowsInv ==
    /\ \A r, x \in rows : r.id = x.id \/ r._version = x._version => r = x
    /\ \A r \in rows : r.id = Created \/ (r.id \in Saves /\ tx[r.id].pc = "done")

Top(r) ==
    /\ r \in rows /\ r._latest
    /\ \A x \in rows \ {r} : ~x._latest /\ x._version < r._version

(* The latest row is what the save that committed last has recorded.       *)
TopInv ==
    main # Gone => \E r \in rows :
        /\ Top(r) /\ r.snapshot = last
        /\ r._status = "published" => main.content = last

(* The newest published version is what the main row holds.                *)
NewestPublished(r) ==
    /\ r \in rows /\ r._status = "published"
    /\ \A x \in rows : x._status = "published" => x._version <= r._version

PublishedInv ==
    \A r \in rows :
        main.status = "published" /\ NewestPublished(r) => r.snapshot = main.content

(* A transaction that may still insert its number has found the row that   *)
(* is still the latest; the number of any other is taken.                  *)
Number(x) ==
    \A r \in rows : main # Gone /\ Top(r) =>
        /\ x.pc \in Numbers =>
              \/ \E y \in rows : y._version = x.next
              \/ /\ x.next = r._version + 1
                 /\ x.pc = "clearing" => x.targets = {r.id}
                 /\ x.pc = "insert" => x.cleared = {r.id}
        /\ Inserted(x) => x.next = r._version + 1 /\ x.cleared = {r.id}

(* What is pruned is older than what is kept.                              *)
PruneOK(t, x) ==
    /\ x.pc = "pruning" =>
          deploy.max_versions > 0 /\ x.kind # "restore" /\ x.targets = Ids(Surplus(View(t, x)))
    /\ x.pc = "commit" /\ x.kind # "delete" =>
          /\ t \notin x.pruned
          /\ IF deploy.max_versions > 0 /\ x.kind # "restore"
             THEN Cardinality(View(t, x)) <= deploy.max_versions
             ELSE x.pruned = {}
          /\ \A r, y \in rows : r.id \in x.pruned /\ y._version < r._version =>
                y.id \in x.pruned

OneInserted == \A t, u \in Saves : Inserted(tx[t]) /\ Inserted(tx[u]) => t = u

OrderInv ==
    /\ RowsInv /\ TopInv /\ PublishedInv /\ OneInserted
    /\ \A t \in Saves : Number(tx[t]) /\ PruneOK(t, tx[t])
    /\ LogWithinCap /\ UnpublishKeepsContent

VersionsInv == BaseInv /\ (Supported => OrderInv)

-----------------------------------------------------------------------------
\* Numbers.

(* A set of natural numbers that is not empty has a least element.         *)
LEMMA LeastNumber ==
    ASSUME NEW N \in SUBSET Nat, N # {}
    PROVE  \E m \in N : \A k \in N : m <= k
<1> DEFINE R == OpToRel(<, Nat)
<1>1. IsWellFoundedOn(R, Nat)
  BY NatLessThanWellFounded
<1>2. \E x \in N : \A y \in N : ~ (<<y, x>> \in R)
  <2> HIDE DEF R
  <2> QED BY <1>1, WFMin
<1>3. \A x, y \in Nat : <<y, x>> \in R <=> y < x
  BY DEF OpToRel
<1> HIDE DEF R
<1>4. PICK m \in N : \A y \in N : ~ (<<y, m>> \in R)
  BY <1>2
<1>5. ASSUME NEW k \in N PROVE m <= k
  <2>1. k \in Nat /\ m \in Nat
    OBVIOUS
  <2>2. ~(k < m)
    BY <1>3, <1>4, <2>1
  <2> QED BY <2>1, <2>2
<1> QED
  BY <1>5

(* A set of natural numbers that is finite and not empty has a greatest.   *)
LEMMA GreatestNumber ==
    ASSUME NEW N \in SUBSET Nat, N # {}, IsFiniteSet(N)
    PROVE  \E m \in N : \A k \in N : k <= m
<1>1. PICK n \in Nat : ExistsBijection(1 .. n, N)
  BY FS_Bijection, FS_CardinalityType
<1>2. PICK f \in [1 .. n -> N] : \A k \in N : \E i \in 1 .. n : f[i] = k
  BY <1>1 DEF ExistsBijection, Bijection, Surjection
<1> DEFINE Bounded(i) == \E b \in Nat : \A j \in 1 .. i : f[j] <= b
<1>3. ASSUME NEW i \in 1 .. n, Bounded(i - 1) PROVE Bounded(i)
  <2>1. PICK b \in Nat : \A j \in 1 .. (i - 1) : f[j] <= b
    BY <1>3
  <2>2. f[i] \in Nat
    BY <1>3
  <2>3. PICK c \in Nat : b <= c /\ f[i] <= c
    BY <2>2
  <2>4. ASSUME NEW j \in 1 .. i PROVE f[j] <= c
    <3>1. j = i \/ j \in 1 .. (i - 1)
      BY <1>3, <2>4
    <3>2. j \in 1 .. n
      BY <1>3, <2>4
    <3>3. f[j] \in Nat
      BY <1>2, <3>2
    <3> QED
      BY <2>1, <2>3, <3>1, <3>3
  <2> QED
    BY <2>4
<1>4. Bounded(n)
  <2> SUFFICES ASSUME ~Bounded(n) PROVE FALSE
    OBVIOUS
  <2> DEFINE B == {i \in 0 .. n : ~Bounded(i)}
  <2>1. B \in SUBSET Nat /\ B # {}
    <3> HIDE DEF Bounded
    <3>1. n \in 0 .. n /\ 0 .. n \subseteq Nat
      OBVIOUS
    <3> QED
      BY <3>1
  <2>2. PICK m \in B : \A k \in B : m <= k
    <3> HIDE DEF B
    <3> QED BY <2>1, LeastNumber
  <2>3. m \in 0 .. n /\ ~Bounded(m)
    OBVIOUS
  <2>4. Bounded(0)
    <3>1. \A j \in 1 .. 0 : f[j] <= 0
      OBVIOUS
    <3> QED BY <3>1
  <2>5. m \in 1 .. n
    BY <2>3, <2>4
  <2>6. Bounded(m - 1)
    <3> HIDE DEF Bounded
    <3>1. m - 1 \in 0 .. n /\ ~(m <= m - 1)
      BY <2>5
    <3> QED
      BY <2>2, <3>1
  <2> HIDE DEF Bounded
  <2> QED
    BY <1>3, <2>3, <2>5, <2>6
<1>5. PICK b \in Nat : \A j \in 1 .. n : f[j] <= b
  BY <1>4
<1>6. \A k \in N : k <= b
  BY <1>2, <1>5
<1> DEFINE D == {d \in Nat : \E k \in N : d = b - k}
<1>7. D \in SUBSET Nat /\ D # {}
  <2>1. PICK k : k \in N
    OBVIOUS
  <2>2. k <= b /\ k \in Nat
    BY <1>6, <2>1
  <2>3. b - k \in D
    BY <2>1, <2>2
  <2> QED
    BY <2>3
<1>8. PICK d \in D : \A e \in D : d <= e
  <2> HIDE DEF D
  <2> QED BY <1>7, LeastNumber
<1>9. PICK m \in N : d = b - m
  BY <1>8
<1>10. ASSUME NEW k \in N PROVE k <= m
  <2>1. b - k \in D
    BY <1>6
  <2> QED
    BY <1>6, <1>8, <1>9, <2>1
<1> QED
  BY <1>10

LEMMA NewestFacts ==
    ASSUME NEW R \in SUBSET VersionRow, IsFiniteSet(R)
    PROVE  /\ Newest(R) \in Nat /\ \A r \in R : r._version <= Newest(R)
           /\ R # {} => \E r \in R : r._version = Newest(R)
<1> DEFINE N == Versions(R) \cup {0}
<1>1. N \in SUBSET Nat /\ N # {} /\ 0 \in N
  BY DEF Versions, VersionRow
<1>2. IsFiniteSet(N)
  <2>1. IsFiniteSet(Versions(R))
    <3> DEFINE f == [r \in R |-> r._version]
    <3>1. f \in Surjection(R, Versions(R))
      BY DEF Surjection, Versions
    <3> HIDE DEF f
    <3> QED
      BY <3>1, FS_Surjection
  <2> QED
    BY <2>1, FS_AddElement
<1>3. \E m \in N : \A k \in N : k <= m
  <2> HIDE DEF N
  <2> QED BY <1>1, <1>2, GreatestNumber
<1>4. Newest(R) \in N /\ \A k \in N : k <= Newest(R)
  <2>1. \E m \in N : \A k \in N : m >= k
    BY <1>1, <1>3
  <2> HIDE DEF N
  <2>2. Max(N) \in N /\ \A k \in N : Max(N) >= k
    BY <2>1 DEF Max
  <2> USE DEF N
  <2> QED
    BY <1>1, <2>2 DEF Newest
<1>5. ASSUME R # {} PROVE \E r \in R : r._version = Newest(R)
  <2>1. PICK r \in R : r._version \in Nat \ {0}
    BY <1>5 DEF VersionRow
  <2>2. r._version \in N
    BY DEF Versions
  <2>3. Newest(R) # 0
    BY <1>1, <1>4, <2>1, <2>2
  <2> QED
    BY <1>4, <2>3 DEF Versions
<1> QED
  BY <1>1, <1>4, <1>5 DEF Versions

-----------------------------------------------------------------------------
\* Pruning.

LEMMA NewerFacts ==
    ASSUME NEW R \in SUBSET VersionRow, IsFiniteSet(R), NEW r \in R
    PROVE  LET newer == {x \in R : x._version > r._version}
           IN  IsFiniteSet(newer) /\ Cardinality(newer) \in Nat
  BY FS_Subset, FS_CardinalityType

(* Of the rows beyond the newest ones, the older ones are too.             *)
LEMMA SurplusIsOlder ==
    ASSUME NEW R \in SUBSET VersionRow, IsFiniteSet(R), deploy.max_versions \in Nat,
           NEW x \in Surplus(R), NEW y \in R, y._version < x._version
    PROVE  y \in Surplus(R)
<1> DEFINE newer(r) == {v \in R : v._version > r._version}
<1>1. x \in R /\ x._version \in Nat /\ y._version \in Nat /\ \A v \in R : v._version \in Nat
  BY DEF Surplus, VersionRow
<1>2. newer(x) \subseteq newer(y)
  BY <1>1
<1>3. IsFiniteSet(newer(y)) /\ Cardinality(newer(y)) \in Nat /\ Cardinality(newer(x)) \in Nat
  BY <1>1, NewerFacts
<1>4. Cardinality(newer(x)) <= Cardinality(newer(y))
  BY <1>2, <1>3, FS_Subset
<1>5. Cardinality(newer(x)) >= deploy.max_versions
  BY DEF Surplus
<1>6. Cardinality(newer(y)) >= deploy.max_versions
  BY <1>3, <1>4, <1>5
<1> QED
  BY <1>6 DEF Surplus

(* The newest row is kept.                                                 *)
LEMMA NewestIsKept ==
    ASSUME NEW R \in SUBSET VersionRow, deploy.max_versions \in Nat, deploy.max_versions > 0,
           NEW y \in R, \A x \in R : x._version <= y._version
    PROVE  y \notin Surplus(R)
<1>1. \A x \in R : x._version \in Nat
  BY DEF VersionRow
<1>2. {x \in R : x._version > y._version} = {}
  BY <1>1
<1>3. Cardinality({x \in R : x._version > y._version}) = 0
  BY <1>2, FS_EmptySet
<1> QED
  BY <1>3 DEF Surplus

(* What is kept is at most max_versions rows.                              *)
LEMMA KeptWithinCap ==
    ASSUME NEW R \in SUBSET VersionRow, IsFiniteSet(R),
           \A r, x \in R : r._version = x._version => r = x,
           deploy.max_versions \in Nat, deploy.max_versions > 0
    PROVE  Cardinality(R \ Surplus(R)) <= deploy.max_versions
<1> DEFINE K == R \ Surplus(R)
<1>1. IsFiniteSet(K) /\ Cardinality(K) \in Nat /\ K \subseteq R
  BY FS_Subset, FS_CardinalityType
<1>2. CASE K = {}
  BY <1>2, FS_EmptySet
<1>3. CASE K # {}
  <2>1. \A r \in R : r._version \in Nat
    BY DEF VersionRow
  <2>2. Versions(K) \in SUBSET Nat /\ Versions(K) # {}
    BY <1>3, <2>1 DEF Versions
  <2>3. PICK m \in Versions(K) : \A k \in Versions(K) : m <= k
    BY <2>2, LeastNumber
  <2>4. PICK r \in K : r._version = m
    BY <2>3 DEF Versions
  <2> DEFINE newer == {x \in R : x._version > r._version}
  <2>5. IsFiniteSet(newer) /\ Cardinality(newer) \in Nat
    BY <2>4, NewerFacts
  <2>6. K \ {r} \subseteq newer
    <3>1. ASSUME NEW x \in K \ {r} PROVE x._version > r._version
      <4>1. x._version \in Versions(K) /\ x \in R /\ r \in R
        BY DEF Versions
      <4>2. x._version # r._version /\ r._version <= x._version
        BY <2>3, <2>4, <3>1, <4>1
      <4> QED
        BY <2>1, <4>1, <4>2
    <3> QED
      BY <3>1
  <2>7. Cardinality(K \ {r}) = Cardinality(K) - 1
    BY <1>1, <2>4, FS_RemoveElement
  <2>8. Cardinality(K \ {r}) <= Cardinality(newer)
    BY <2>5, <2>6, FS_Subset
  <2>9. ~(Cardinality(newer) >= deploy.max_versions)
    BY <2>4 DEF Surplus
  <2> HIDE DEF newer, K
  <2>10. Cardinality(K) <= deploy.max_versions
    BY <1>1, <2>5, <2>7, <2>8, <2>9
  <2> QED
    BY <2>10 DEF K
<1> QED
  BY <1>2, <1>3

-----------------------------------------------------------------------------
\* What a transaction sees.

LEMMA VisibleView ==
    ASSUME NEW t \in Saves
    PROVE  Visible(t) = View(t, tx[t]) /\ OwnRow(t) = Own(t, tx[t])
  BY DEF Visible, View, Cleared, Copied, OwnRow, Own, Status

LEMMA CopiedFacts ==
    ASSUME NEW r \in VersionRow, NEW x \in Tx
    PROVE  LET y == Copied(r, x)
           IN  /\ y \in VersionRow /\ y.id = r.id /\ y._version = r._version
               /\ y._status = r._status /\ y.snapshot = r.snapshot
               /\ y._latest => r._latest /\ r.id \notin x.cleared
               /\ r._latest /\ r.id \notin x.cleared => y._latest
<1>1. CASE r.id \in x.cleared
  BY <1>1 DEF Copied, VersionRow
<1>2. CASE r.id \notin x.cleared
  BY <1>2 DEF Copied
<1> QED
  BY <1>1, <1>2

LEMMA OwnFacts ==
    ASSUME NEW t \in Saves, NEW x \in Tx
    PROVE  LET y == Own(t, x)
           IN  /\ y.id = t /\ y._version = x.next /\ y._latest /\ y.snapshot = x.doc
               /\ y._status = "published" => x.kind \notin {"draft", "unpublish"}
               /\ y._status # "published" => x.kind \in {"draft", "unpublish"}
               /\ x.doc \in Contents /\ x.next # 0 => y \in VersionRow
  BY DEF Own, VersionRow, Tx, Contents

LEMMA ViewFacts ==
    ASSUME NEW t \in Saves, NEW x \in Tx
    PROVE  /\ \A y \in View(t, x) :
                 \/ y = Own(t, x) /\ x.inserted /\ t \notin x.pruned
                 \/ \E r \in rows : r.id \notin x.pruned /\ y = Copied(r, x)
           /\ \A r \in rows : r.id \notin x.pruned => Copied(r, x) \in View(t, x)
           /\ x.inserted /\ t \notin x.pruned => Own(t, x) \in View(t, x)
  BY Zenon DEF View

LEMMA ViewType ==
    ASSUME VersionsTypeOK, IsFiniteSet(rows), NEW t \in Saves, NEW x \in Tx,
           x.inserted => x.doc \in Contents /\ x.next # 0
    PROVE  /\ View(t, x) \subseteq VersionRow /\ IsFiniteSet(View(t, x))
           /\ Cardinality(View(t, x)) <= Cardinality(rows) + 1
<1>1. rows \subseteq VersionRow
  BY DEF VersionsTypeOK
<1>2. ASSUME NEW y \in View(t, x) PROVE y \in VersionRow
  BY <1>1, ViewFacts, CopiedFacts, OwnFacts
<1> DEFINE K == {y \in rows : y.id \notin x.pruned}
           f == [r \in K |-> Copied(r, x)]
           C == {Copied(r, x) : r \in K}
<1>3. IsFiniteSet(K) /\ Cardinality(K) <= Cardinality(rows)
  BY FS_Subset
<1>4. f \in Surjection(K, C)
  BY DEF Surjection
<1>5. IsFiniteSet(C) /\ Cardinality(C) <= Cardinality(K)
  <2> HIDE DEF f, C, K
  <2> QED BY <1>3, <1>4, FS_Surjection
<1>6. View(t, x) = C \/ View(t, x) = C \cup {Own(t, x)}
  BY DEF View
<1> HIDE DEF C, K, f
<1>7. /\ Cardinality(C) \in Nat /\ Cardinality(K) \in Nat /\ Cardinality(rows) \in Nat
  BY <1>3, <1>5, FS_CardinalityType
<1>8. /\ IsFiniteSet(C \cup {Own(t, x)})
      /\ \/ Cardinality(C \cup {Own(t, x)}) = Cardinality(C)
         \/ Cardinality(C \cup {Own(t, x)}) = Cardinality(C) + 1
  BY <1>5, FS_AddElement
<1>9. IsFiniteSet(View(t, x)) /\ Cardinality(View(t, x)) <= Cardinality(rows) + 1
  <2>1. CASE View(t, x) = C
    BY <1>3, <1>5, <1>7, <2>1
  <2>2. CASE View(t, x) = C \cup {Own(t, x)}
    BY <1>3, <1>5, <1>7, <1>8, <2>2
  <2> QED BY <1>6, <2>1, <2>2
<1> QED
  BY <1>2, <1>9

(* Before a transaction has written to the log it sees the committed rows. *)
LEMMA ViewBefore ==
    ASSUME NEW t \in Saves, NEW x \in Tx, ~x.inserted, x.pruned = {}, x.cleared = {}
    PROVE  View(t, x) = rows
  BY DEF View, Copied

-----------------------------------------------------------------------------
\* A statement: the transaction of save t goes on as new, the tables stay.

Moves(t, new) ==
    /\ new \in Tx /\ tx' = [tx EXCEPT ![t] = new] /\ UNCHANGED Tables
    /\ tx[t].pc # "done" /\ Shape(new)
    /\ Live(new) => \A u \in Saves \ {t} : Live(tx[u]) =>
          /\ Aside(new) \/ Aside(tx[u])
          /\ Inserted(new) => ~Deleting(tx[u])
          /\ Deleting(new) => ~Inserted(tx[u])

Orders(t, new) ==
    /\ Number(new) /\ PruneOK(t, new)
    /\ Inserted(new) => \A u \in Saves \ {t} : ~Inserted(tx[u])

LEMMA MoveBase ==
    ASSUME BaseInv, NEW t \in Saves, NEW new, Moves(t, new)
    PROVE  BaseInv'
<1>0. /\ tx \in [Saves -> Tx] /\ tx' = [tx EXCEPT ![t] = new] /\ new \in Tx
      /\ UNCHANGED <<deploy, main, rows, last, restored>>
  BY DEF BaseInv, VersionsTypeOK, Moves, Tables
<1>1. tx' \in [Saves -> Tx] /\ tx'[t] = new /\ \A u \in Saves : u # t => tx'[u] = tx[u]
  BY <1>0
<1>2. VersionsTypeOK' /\ IsFiniteSet(rows')
  BY <1>0, <1>1 DEF BaseInv, VersionsTypeOK
<1>3. \A u \in Saves : Shape(tx'[u])
  BY <1>1 DEF BaseInv, Moves
<1>4. \A u \in Saves : Shape(tx[u])'
  BY <1>0, <1>3 DEF Shape, Live, Ids
<1>5. ASSUME NEW u \in Saves, NEW v \in Saves, u # v, Live(tx'[u]), Live(tx'[v])
      PROVE  (Aside(tx'[u]) \/ Aside(tx'[v])) /\ (Inserted(tx'[u]) => ~Deleting(tx'[v]))
  <2>1. CASE u = t
    BY <1>1, <1>5, <2>1 DEF Moves
  <2>2. CASE v = t
    BY <1>1, <1>5, <2>2 DEF Moves
  <2>3. CASE u # t /\ v # t
    BY <1>1, <1>5, <2>3 DEF BaseInv, Apart
  <2> QED
    BY <2>1, <2>2, <2>3
<1>6. Apart'
  BY <1>0, <1>5 DEF Apart, Aside, Live, Inserted, Deleting
<1> QED
  BY <1>0, <1>2, <1>4, <1>6 DEF BaseInv

LEMMA MoveOrder ==
    ASSUME BaseInv, OrderInv, NEW t \in Saves, NEW new, Moves(t, new), Orders(t, new)
    PROVE  OrderInv'
<1>0. /\ tx \in [Saves -> Tx] /\ tx' = [tx EXCEPT ![t] = new] /\ new \in Tx
      /\ UNCHANGED <<deploy, main, rows, last, restored>> /\ tx[t].pc # "done"
  BY DEF BaseInv, VersionsTypeOK, Moves, Tables
<1>1. tx'[t] = new /\ \A u \in Saves : u # t => tx'[u] = tx[u]
  BY <1>0
<1>2. RowsInv'
  <2>1. ASSUME NEW r \in rows PROVE r.id = Created \/ (r.id \in Saves /\ tx'[r.id].pc = "done")
    BY <1>0, <1>1 DEF OrderInv, RowsInv
  <2> QED
    BY <1>0, <2>1 DEF OrderInv, RowsInv
<1>3. TopInv' /\ PublishedInv' /\ LogWithinCap'
  BY <1>0 DEF OrderInv, TopInv, Top, PublishedInv, NewestPublished, LogWithinCap
<1>4. UnpublishKeepsContent'
  <2>1. ASSUME NEW r \in rows, r.id \in Saves PROVE tx'[r.id] = tx[r.id]
    <3>1. r.id # Created
      BY <2>1, VersionsAssumption
    <3>2. tx[r.id].pc = "done"
      BY <2>1, <3>1 DEF OrderInv, RowsInv
    <3> QED
      BY <1>0, <1>1, <2>1, <3>2
  <2> QED
    BY <1>0, <2>1 DEF OrderInv, UnpublishKeepsContent
<1>5. OneInserted'
  <2>1. ASSUME NEW u \in Saves, NEW v \in Saves, Inserted(tx'[u]), Inserted(tx'[v])
        PROVE  u = v
    BY <1>1, <2>1 DEF OrderInv, OneInserted, Orders
  <2> QED
    BY <2>1 DEF OneInserted, Inserted, Live
<1>6. \A u \in Saves : Number(tx'[u]) /\ PruneOK(u, tx'[u])
  BY <1>1 DEF OrderInv, Orders
<1>7. \A u \in Saves : Number(tx[u])'
  BY <1>0, <1>6 DEF Number, Top, Inserted, Live
<1>8. \A u \in Saves : PruneOK(u, tx[u])'
  <2>1. \A u \in Saves : View(u, tx[u])' = View(u, tx'[u])
    BY <1>0 DEF View, Copied, Own
  <2>2. \A u \in Saves : Surplus(View(u, tx[u]))' = Surplus(View(u, tx'[u]))
    BY <1>0, <2>1 DEF Surplus
  <2>3. \A u \in Saves : Ids(Surplus(View(u, tx[u])))' = Ids(Surplus(View(u, tx'[u])))
    BY <2>2 DEF Ids
  <2> QED
    BY <1>0, <1>6, <2>1, <2>3 DEF PruneOK
<1> QED
  BY <1>2, <1>3, <1>4, <1>5, <1>7, <1>8 DEF OrderInv

LEMMA TxFacts ==
    ASSUME BaseInv, NEW t \in Saves
    PROVE  /\ tx \in [Saves -> Tx] /\ tx[t] \in Tx /\ Shape(tx[t])
           /\ deploy \in [pg : BOOLEAN, max_versions : Nat, global : BOOLEAN]
           /\ main \in MainRow /\ rows \in SUBSET VersionRow /\ IsFiniteSet(rows)
           /\ Open(t) <=> Live(tx[t])
  BY VersionsAssumption DEF BaseInv, VersionsTypeOK, Open, Live

(* A transaction that ends without a commit.                               *)
LEMMA FailMoves ==
    ASSUME BaseInv, NEW t \in Saves, Fail(t), UNCHANGED Tables, tx[t].pc # "done"
    PROVE  \E new : Moves(t, new) /\ Orders(t, new)
<1>1. PICK new : new = [tx[t] EXCEPT !.pc = "failed"]
  OBVIOUS
<1>2. new \in Tx /\ new.pc = "failed"
  BY <1>1, TxFacts DEF Tx, Pcs
<1>3. Shape(new) /\ ~Live(new)
  BY <1>2 DEF Shape, Live, Before, After, Numbers
<1>4. Number(new) /\ PruneOK(t, new) /\ ~Inserted(new)
  BY <1>2, <1>3 DEF Number, PruneOK, Inserted, Numbers
<1> QED
  BY <1>1, <1>2, <1>3, <1>4 DEF Moves, Orders, Fail, Step

(* The statements of a transaction that has not inserted its version, and  *)
(* does not yet.                                                           *)
LEMMA EarlyMoves ==
    ASSUME BaseInv, NEW t \in Saves, NEW new \in Tx, Step(t, new), UNCHANGED Tables,
           tx[t].pc # "done",
           \/ Live(tx[t]) /\ tx[t].pc # "hooks"
           \/ Aside(new)
           \/ \A u \in Saves \ {t} : Live(tx[u]) => Aside(tx[u]),
           new.pc \in Before, Shape(new)
    PROVE  Moves(t, new) /\ (Number(new) => Orders(t, new))
<1>1. ~Inserted(new) /\ ~Deleting(new) /\ PruneOK(t, new)
  BY DEF Shape, Inserted, Deleting, PruneOK, Before
<1>2. ASSUME NEW u \in Saves \ {t}, Live(tx[u]) PROVE Aside(new) \/ Aside(tx[u])
  BY <1>2 DEF BaseInv, Apart, Aside
<1> QED
  BY <1>1, <1>2 DEF Moves, Orders, Step

Goes(t) == \E new : Moves(t, new) /\ (OrderInv => Orders(t, new))

LEMMA BeginGoes ==
    ASSUME BaseInv, NEW t \in Saves,
           \/ BeginUpdate(t) \/ BeginDraft(t) \/ BeginUnpublish(t)
           \/ BeginRestore(t) \/ BeginDelete(t)
    PROVE  Goes(t)
<1>1. PICK kind \in Kinds, pc \in {"read", "main"} :
         /\ transaction_immediate(t, kind, pc)
         /\ pc = "main" <=> kind \in {"publish", "delete"}
  BY DEF BeginUpdate, BeginDraft, BeginUnpublish, BeginRestore, BeginDelete, Kinds
<1>2. PICK new : new = [NoTx EXCEPT !.pc = pc, !.kind = kind]
  OBVIOUS
<1>3. /\ new \in Tx /\ new.pc = pc /\ new.kind = kind /\ ~new.inserted
      /\ new.pruned = {} /\ new.cleared = {}
  BY <1>1, <1>2 DEF NoTx, Tx, Pcs
<1>4. Shape(new)
  BY <1>1, <1>3 DEF Shape, Live, Before, After, Numbers
<1>5. Number(new)
  BY <1>1, <1>3 DEF Number, Numbers, Inserted
<1>6. /\ tx[t].pc # "done" /\ Step(t, new) /\ UNCHANGED Tables
      /\ \A u \in Saves \ {t} : Live(tx[u]) => Aside(tx[u])
  BY <1>1, <1>2, TxFacts DEF transaction_immediate, InHooks, Aside
<1> QED
  BY <1>1, <1>3, <1>4, <1>5, <1>6, EarlyMoves DEF Goes, Before

LEMMA ReadGoes ==
    ASSUME BaseInv, NEW t \in Saves,
           \/ persist_draft_version(t) \/ unpublish_document_in_conn(t)
           \/ persist_unpublish(t) \/ unpublish_global_document(t) \/ find_version_by_id(t)
    PROVE  Goes(t)
<1> DEFINE x == tx[t]
<1>0. /\ x \in Tx /\ Shape(x) /\ x.pc \in {"read", "hooks"} /\ Live(x)
      /\ x.kind \in {"draft", "unpublish", "restore"}
      /\ UNCHANGED Tables /\ main \in MainRow /\ rows \in SUBSET VersionRow
  BY TxFacts DEF persist_draft_version, unpublish_document_in_conn, persist_unpublish,
                 unpublish_global_document, find_version_by_id, InHooks, Shape, Live
<1>1. CASE Fail(t)
  BY <1>0, <1>1, FailMoves DEF Goes
<1>2. ASSUME NEW doc \in Contents, NEW pc \in {"max", "main", "hooks"},
             Step(t, [x EXCEPT !.pc = pc, !.doc = doc]),
             pc = "hooks" => x.kind = "unpublish",
             x.kind = "unpublish" /\ pc # "hooks" => deploy.global \/ doc = main.content,
             x.pc # "hooks" \/ \A u \in Saves \ {t} : Live(tx[u]) => Aside(tx[u])
      PROVE  Goes(t)
  <2>1. PICK new : new = [x EXCEPT !.pc = pc, !.doc = doc]
    OBVIOUS
  <2>2. /\ new \in Tx /\ new.pc = pc /\ new.kind = x.kind /\ new.doc = doc
        /\ new.inserted = x.inserted /\ new.pruned = x.pruned /\ new.cleared = x.cleared
    BY <1>0, <2>1 DEF Tx, Pcs
  <2>3. ~x.inserted /\ x.pruned = {} /\ x.cleared = {}
    BY <1>0 DEF Shape, Before
  <2>4. Shape(new)
    BY <1>0, <1>2, <2>2, <2>3 DEF Shape, Live, Before, After, Numbers
  <2>5. Number(new)
    BY <1>2, <2>2, <2>3 DEF Number, Numbers, Inserted
  <2>6. Live(x) /\ Step(t, new) /\ new.pc \in Before
    BY <1>0, <1>2, <2>1, <2>2 DEF Live, Before
  <2> QED
    BY <1>0, <1>2, <2>2, <2>4, <2>5, <2>6, EarlyMoves DEF Goes
<1>3. t \in Contents /\ \A r \in rows : r.snapshot \in Contents
  BY <1>0 DEF Contents, VersionRow
<1>4. main # Gone => main.content \in Contents
  BY <1>0 DEF MainRow
<1>5. CASE persist_draft_version(t)
  BY <1>1, <1>2, <1>3, <1>5 DEF persist_draft_version
<1>6. CASE unpublish_document_in_conn(t)
  BY <1>1, <1>2, <1>4, <1>6 DEF unpublish_document_in_conn
<1>7. ASSUME Alone(t) PROVE \A u \in Saves \ {t} : Live(tx[u]) => Aside(tx[u])
  BY <1>7, TxFacts DEF Alone, Aside
<1>8. CASE persist_unpublish(t)
  BY <1>1, <1>2, <1>4, <1>7, <1>8 DEF persist_unpublish
<1>9. CASE unpublish_global_document(t)
  <2>1. x.doc \in Contents
    BY <1>0, <1>9 DEF Shape, unpublish_global_document, InHooks
  <2>2. [x EXCEPT !.pc = "main"] = [x EXCEPT !.pc = "main", !.doc = x.doc]
    BY <1>0 DEF Tx
  <2>3. Step(t, [x EXCEPT !.pc = "main", !.doc = x.doc])
    BY <1>9, <2>2 DEF unpublish_global_document
  <2> QED
    BY <1>2, <1>7, <1>9, <2>1, <2>3 DEF unpublish_global_document
<1>10. CASE find_version_by_id(t)
  BY <1>1, <1>2, <1>3, <1>10 DEF find_version_by_id
<1> QED
  BY <1>5, <1>6, <1>8, <1>9, <1>10

LEMMA MainGoes ==
    ASSUME BaseInv, NEW t \in Saves,
           \/ persist_update(t) \/ persist_global_update(t) \/ unpublish_with_snapshot(t)
           \/ restore_version(t) \/ restore_global_version(t)
    PROVE  Goes(t)
<1> DEFINE x == tx[t]
<1>0. x \in Tx /\ Shape(x)
  BY TxFacts
<1>1. PICK kind \in {"publish", "unpublish", "restore"}, doc \in {t, x.doc} :
         /\ WriteMain(t, kind, doc)
         /\ IF kind = "publish" THEN doc = t ELSE doc = x.doc
  BY DEF persist_update, persist_global_update, unpublish_with_snapshot, restore_version,
         restore_global_version
<1>2. x.pc = "main" /\ x.kind = kind /\ UNCHANGED Tables
  BY <1>1 DEF WriteMain
<1>3. CASE main = Gone
  BY <1>0, <1>1, <1>2, <1>3, FailMoves DEF Goes, WriteMain
<1>4. CASE main # Gone
  <2>1. PICK new : new = [x EXCEPT !.pc = "max", !.locks = TRUE, !.doc = doc]
    OBVIOUS
  <2>2. doc \in Contents
    BY <1>0, <1>1, <1>2 DEF Shape, Contents
  <2>3. /\ new \in Tx /\ new.pc = "max" /\ new.kind = x.kind /\ new.doc = doc
        /\ new.inserted = x.inserted /\ new.pruned = x.pruned /\ new.cleared = x.cleared
    BY <1>0, <2>1, <2>2 DEF Tx, Pcs
  <2>4. ~x.inserted /\ x.pruned = {} /\ x.cleared = {}
    BY <1>0, <1>2 DEF Shape, Before
  <2>5. x.kind = "unpublish" /\ ~deploy.pg /\ ~deploy.global => doc = main.content
    BY <1>0, <1>1, <1>2, <1>4 DEF Shape, Live
  <2>6. Shape(new)
    BY <1>1, <1>2, <2>2, <2>3, <2>4, <2>5 DEF Shape, Live, Before, After, Numbers
  <2>7. Number(new)
    BY <2>3, <2>4 DEF Number, Numbers, Inserted
  <2>8. Live(x) /\ Step(t, new) /\ new.pc \in Before
    BY <1>1, <1>2, <1>4, <2>1, <2>3 DEF Live, Before, WriteMain
  <2> QED
    BY <1>2, <2>3, <2>6, <2>7, <2>8, EarlyMoves DEF Goes
<1> QED
  BY <1>3, <1>4

LEMMA DeleteGoes ==
    ASSUME BaseInv, NEW t \in Saves, DeleteMain(t)
    PROVE  Goes(t)
<1> DEFINE x == tx[t]
<1>0. /\ x \in Tx /\ Shape(x) /\ x.pc = "main" /\ x.kind = "delete" /\ UNCHANGED Tables
      /\ rows \in SUBSET VersionRow
  BY TxFacts DEF DeleteMain
<1>1. CASE main = Gone
  BY <1>0, <1>1, FailMoves DEF Goes, DeleteMain
<1>2. CASE main # Gone
  <2>1. PICK new : new = [x EXCEPT !.pc = "commit", !.locks = TRUE, !.pruned = Ids(rows)]
    OBVIOUS
  <2>2. Ids(rows) \subseteq Contents
    BY <1>0 DEF Ids, VersionRow
  <2>3. /\ new \in Tx /\ new.pc = "commit" /\ new.kind = x.kind /\ new.locks
        /\ new.inserted = x.inserted /\ new.pruned = Ids(rows)
    BY <1>0, <2>1, <2>2 DEF Tx, Pcs
  <2>4. ~x.inserted /\ Live(x)
    BY <1>0 DEF Shape, Before, Live
  <2>5. Shape(new)
    BY <1>0, <2>3, <2>4 DEF Shape, Live, Before, After, Numbers
  <2>6. ~Inserted(new) /\ Number(new) /\ PruneOK(t, new)
    BY <1>0, <2>3, <2>4 DEF Number, Numbers, Inserted, PruneOK
  <2>7. Step(t, new)
    BY <1>2, <2>1 DEF DeleteMain
  <2>8. ASSUME NEW u \in Saves \ {t}, Live(tx[u]) PROVE Aside(tx[u]) /\ ~Inserted(tx[u])
    <3>1. ~tx[u].inserted
      BY <2>8, TxFacts DEF DeleteMain, ParentFree
    <3> QED
      BY <1>0, <2>4, <2>8, <3>1 DEF BaseInv, Apart, Aside, Inserted
  <2> QED
    BY <1>0, <2>3, <2>5, <2>6, <2>7, <2>8 DEF Goes, Moves, Orders, Step
<1> QED
  BY <1>1, <1>2

-----------------------------------------------------------------------------
\* The statements of create_version and of prune_versions.

LEMMA TopFacts ==
    ASSUME BaseInv, NEW r \in rows, Top(r)
    PROVE  Newest(rows) = r._version /\ Ids({x \in rows : x._latest}) = {r.id}
<1>1. rows \in SUBSET VersionRow /\ IsFiniteSet(rows) /\ \A x \in rows : x._version \in Nat
  BY DEF BaseInv, VersionsTypeOK, VersionRow
<1>2. \A x \in rows : x._version <= r._version
  BY <1>1 DEF Top
<1>3. PICK y \in rows : y._version = Newest(rows)
  BY <1>1, NewestFacts
<1>4. Newest(rows) = r._version
  BY <1>1, <1>2, <1>3, NewestFacts
<1>5. {x \in rows : x._latest} = {r}
  BY DEF Top
<1> QED
  BY <1>4, <1>5 DEF Ids

LEMMA SelectGoes ==
    ASSUME BaseInv, NEW t \in Saves, SelectMax(t)
    PROVE  Goes(t)
<1> DEFINE x == tx[t]
<1>0. /\ x \in Tx /\ Shape(x) /\ x.pc = "max" /\ UNCHANGED Tables
      /\ rows \in SUBSET VersionRow /\ IsFiniteSet(rows)
  BY TxFacts DEF SelectMax
<1>1. ~x.inserted /\ x.pruned = {} /\ x.cleared = {} /\ x.kind # "delete" /\ x.doc \in Contents
  BY <1>0 DEF Shape, Before, Live
<1>2. Visible(t) = rows
  BY <1>0, <1>1, VisibleView, ViewBefore
<1>3. PICK n : n = Newest(rows) + 1
  OBVIOUS
<1>4. n \in Nat /\ n # 0
  BY <1>0, <1>3, NewestFacts
<1>5. PICK new : new = [x EXCEPT !.pc = "clear", !.next = n]
  OBVIOUS
<1>6. /\ new \in Tx /\ new.pc = "clear" /\ new.kind = x.kind /\ new.doc = x.doc /\ new.next = n
      /\ new.inserted = x.inserted /\ new.pruned = x.pruned /\ new.cleared = x.cleared
  BY <1>0, <1>4, <1>5 DEF Tx, Pcs
<1>7. Shape(new)
  BY <1>0, <1>1, <1>4, <1>6 DEF Shape, Live, Before, After, Numbers
<1>8. Number(new)
  BY <1>1, <1>3, <1>6, TopFacts DEF Number, Inserted
<1>9. Live(x) /\ Step(t, new) /\ new.pc \in Before
  BY <1>0, <1>2, <1>3, <1>5, <1>6 DEF Live, Before, SelectMax
<1> QED
  BY <1>0, <1>6, <1>7, <1>8, <1>9, EarlyMoves DEF Goes

LEMMA LatestGoes ==
    ASSUME BaseInv, NEW t \in Saves, MatchLatest(t) \/ ClearLatest(t)
    PROVE  Goes(t)
<1> DEFINE x == tx[t]
<1>0. /\ x \in Tx /\ Shape(x) /\ x.pc \in {"clear", "clearing"} /\ UNCHANGED Tables
      /\ rows \in SUBSET VersionRow /\ Live(x)
  BY TxFacts DEF MatchLatest, ClearLatest, Live
<1>1. /\ ~x.inserted /\ x.pruned = {} /\ x.cleared = {} /\ x.kind # "delete"
      /\ x.doc \in Contents /\ x.next # 0
  BY <1>0 DEF Shape, Before, Live, Numbers
<1>2. PICK ids : ids = Ids({r \in rows : r._latest})
  OBVIOUS
<1>3. ids \in SUBSET Contents /\ \A r \in rows : Top(r) => ids = {r.id}
  BY <1>0, <1>2, TopFacts DEF Ids, VersionRow
<1>4. ASSUME NEW new \in Tx, Step(t, new), new.pc \in {"clearing", "insert"},
             new.kind = x.kind, new.doc = x.doc, new.next = x.next,
             new.inserted = x.inserted, new.pruned = x.pruned,
             new.pc = "clearing" => new.cleared = {}, OrderInv => Number(new)
      PROVE  Goes(t)
  <2>1. Shape(new)
    BY <1>0, <1>1, <1>4 DEF Shape, Live, Before, After, Numbers
  <2>2. x.pc # "done" /\ new.pc \in Before
    BY <1>0, <1>4 DEF Before
  <2> QED
    BY <1>0, <1>4, <2>1, <2>2, EarlyMoves DEF Goes
<1>5. CASE MatchLatest(t)
  <2>1. Visible(t) = rows /\ x.pc = "clear"
    BY <1>0, <1>1, <1>5, VisibleView, ViewBefore DEF MatchLatest
  <2>2. PICK new : new = [x EXCEPT !.pc = "clearing", !.targets = ids]
    OBVIOUS
  <2>3. /\ new \in Tx /\ new.pc = "clearing" /\ new.kind = x.kind /\ new.doc = x.doc
        /\ new.next = x.next /\ new.inserted = x.inserted /\ new.pruned = x.pruned
        /\ new.cleared = x.cleared /\ new.targets = ids
    BY <1>0, <1>3, <2>2 DEF Tx, Pcs
  <2>4. Step(t, new)
    BY <1>2, <1>5, <2>1, <2>2 DEF MatchLatest
  <2>5. ASSUME OrderInv PROVE Number(new)
    <3>1. Number(x)
      BY <2>5 DEF OrderInv
    <3> QED
      BY <1>1, <1>3, <2>1, <2>3, <3>1 DEF Number, Numbers, Inserted
  <2> QED
    BY <1>1, <1>4, <2>3, <2>4, <2>5
<1>6. CASE ClearLatest(t)
  <2>1. PICK new : new = [x EXCEPT !.pc = "insert", !.targets = {}, !.cleared = x.targets \cap ids]
    OBVIOUS
  <2>2. /\ new \in Tx /\ new.pc = "insert" /\ new.kind = x.kind /\ new.doc = x.doc
        /\ new.next = x.next /\ new.inserted = x.inserted /\ new.pruned = x.pruned
        /\ new.cleared = x.targets \cap ids
    BY <1>0, <1>3, <2>1 DEF Tx, Pcs
  <2>3. Step(t, new) /\ x.pc = "clearing"
    BY <1>2, <1>6, <2>1 DEF ClearLatest
  <2>4. ASSUME OrderInv PROVE Number(new)
    <3>1. Number(x)
      BY <2>4 DEF OrderInv
    <3> QED
      BY <1>1, <1>3, <2>2, <2>3, <3>1 DEF Number, Numbers, Inserted
  <2> QED
    BY <1>4, <2>2, <2>3, <2>4
<1> QED
  BY <1>5, <1>6

(* The number is free, so it is the next one, and so is nobody else's.     *)
LEMMA InsertGoes ==
    ASSUME BaseInv, NEW t \in Saves, InsertVersion(t)
    PROVE  Goes(t)
<1> DEFINE x == tx[t]
<1>0. /\ x \in Tx /\ Shape(x) /\ x.pc = "insert" /\ UNCHANGED Tables /\ Live(x)
  BY TxFacts DEF InsertVersion, Live
<1>1. CASE Fail(t)
  BY <1>0, <1>1, FailMoves DEF Goes
<1>2. CASE ~Fail(t)
  <2>1. Taken(t) = {} /\ main # Gone /\ InsertFree(t)
    BY <1>2 DEF InsertVersion
  <2>2. PICK new : new = [x EXCEPT !.pc = "prune", !.inserted = TRUE]
    OBVIOUS
  <2>3. /\ new \in Tx /\ new.pc = "prune" /\ new.kind = x.kind /\ new.doc = x.doc
        /\ new.next = x.next /\ new.inserted /\ new.pruned = x.pruned /\ new.cleared = x.cleared
    BY <1>0, <2>2 DEF Tx, Pcs
  <2>4. Step(t, new)
    BY <2>1, <2>2 DEF InsertVersion
  <2>5. x.pruned = {} /\ x.kind # "delete" /\ x.doc \in Contents /\ x.next # 0
    BY <1>0 DEF Shape, Before, Numbers, Live
  <2>6. Shape(new)
    BY <1>0, <2>1, <2>3, <2>5 DEF Shape, Live, Before, After, Numbers
  <2>7. ASSUME NEW u \in Saves \ {t}, Live(tx[u])
        PROVE  Aside(tx[u]) /\ ~Deleting(tx[u])
    <3>1. Open(u)
      BY <2>7, TxFacts
    <3>2. Deleting(tx[u]) => tx[u].locks
      BY <2>7, TxFacts DEF Deleting, Shape
    <3> QED
      BY <1>0, <2>1, <2>7, <3>1, <3>2
         DEF BaseInv, Apart, Aside, InsertFree, DeleteWaiting, Deleting
  <2>8. Moves(t, new)
    BY <1>0, <2>3, <2>4, <2>5, <2>6, <2>7 DEF Moves, Deleting, Step
  <2>9. ASSUME OrderInv PROVE Orders(t, new)
    <3>1. Number(x) /\ ~ \E y \in rows : y._version = x.next
      BY <2>1, <2>9 DEF OrderInv, Taken
    <3>2. \A r \in rows : Top(r) => x.next = r._version + 1 /\ x.cleared = {r.id}
      BY <1>0, <2>1, <3>1 DEF Number, Numbers
    <3>3. Number(new)
      BY <2>3, <3>2 DEF Number, Numbers
    <3>4. PruneOK(t, new)
      BY <2>3 DEF PruneOK
    <3>5. ASSUME NEW u \in Saves \ {t}, Inserted(tx[u]) PROVE FALSE
      <4>1. PICK r \in rows : Top(r)
        BY <2>1, <2>9 DEF OrderInv, TopInv
      <4>2. tx[u].next = r._version + 1
        BY <2>1, <2>9, <3>5, <4>1 DEF OrderInv, Number
      <4>3. tx[u].next # x.next
        <5>1. Open(u) /\ tx[u].inserted
          BY <3>5, TxFacts DEF Inserted
        <5> QED
          BY <2>1, <5>1 DEF InsertFree
      <4> QED
        BY <3>2, <4>1, <4>2, <4>3
    <3> QED
      BY <3>3, <3>4, <3>5 DEF Orders
  <2> QED
    BY <2>8, <2>9 DEF Goes
<1> QED
  BY <1>1, <1>2

LEMMA PruneGoes ==
    ASSUME BaseInv, NEW t \in Saves, prune_versions(t)
    PROVE  Goes(t)
<1> DEFINE x == tx[t]
<1>0. /\ x \in Tx /\ Shape(x) /\ x.pc = "prune" /\ UNCHANGED Tables /\ Live(x)
      /\ rows \in SUBSET VersionRow /\ IsFiniteSet(rows) /\ deploy.max_versions \in Nat
  BY TxFacts DEF prune_versions, Live
<1>1. /\ x.pruned = {} /\ x.kind # "delete" /\ x.doc \in Contents /\ x.next # 0
      /\ x.inserted /\ main # Gone
  BY <1>0 DEF Shape, After, Live
<1>2. ASSUME NEW new \in Tx, Step(t, new), new.pc \in {"pruning", "commit"},
             new.kind = x.kind, new.doc = x.doc, new.next = x.next, new.inserted,
             new.pruned = {}, new.cleared = x.cleared, PruneOK(t, new)
      PROVE  Goes(t)
  <2>1. Shape(new)
    BY <1>0, <1>1, <1>2 DEF Shape, Live, Before, After, Numbers
  <2>2. Inserted(x) /\ ~Deleting(new)
    BY <1>0, <1>1, <1>2 DEF Inserted, Deleting
  <2>3. Moves(t, new)
    BY <1>0, <1>2, <2>1, <2>2 DEF Moves, BaseInv, Apart, Aside, Step
  <2>4. ASSUME OrderInv PROVE Orders(t, new)
    <3>1. Number(x)
      BY <2>4 DEF OrderInv
    <3>2. Number(new)
      BY <1>2, <2>2, <3>1 DEF Number, Numbers
    <3> QED
      BY <1>2, <2>2, <2>4, <3>2 DEF Orders, OrderInv, OneInserted
  <2> QED
    BY <2>3, <2>4 DEF Goes
<1>3. CASE Prunes(t)
  <2>1. PICK ids : ids = Ids(Surplus(View(t, x)))
    OBVIOUS
  <2>2. ids \in SUBSET Contents
    <3>1. View(t, x) \subseteq VersionRow
      BY <1>0, <1>1, ViewType DEF BaseInv
    <3> QED
      BY <2>1, <3>1 DEF Ids, Surplus, VersionRow
  <2>3. PICK new : new = [x EXCEPT !.pc = "pruning", !.targets = ids]
    OBVIOUS
  <2>4. /\ new \in Tx /\ new.pc = "pruning" /\ new.kind = x.kind /\ new.doc = x.doc
        /\ new.next = x.next /\ new.inserted = x.inserted /\ new.pruned = x.pruned
        /\ new.cleared = x.cleared /\ new.targets = ids
    BY <1>0, <2>2, <2>3 DEF Tx, Pcs
  <2>5. Step(t, new)
    BY <1>3, <2>1, <2>3, VisibleView DEF prune_versions
  <2>6. View(t, new) = View(t, x)
    BY <2>4 DEF View, Copied, Own
  <2>7. PruneOK(t, new)
    BY <1>3, <2>1, <2>4, <2>6 DEF PruneOK, Prunes
  <2> QED
    BY <1>1, <1>2, <2>4, <2>5, <2>7
<1>4. CASE ~Prunes(t)
  <2>1. PICK new : new = [x EXCEPT !.pc = "commit"]
    OBVIOUS
  <2>2. /\ new \in Tx /\ new.pc = "commit" /\ new.kind = x.kind /\ new.doc = x.doc
        /\ new.next = x.next /\ new.inserted = x.inserted /\ new.pruned = x.pruned
        /\ new.cleared = x.cleared
    BY <1>0, <2>1 DEF Tx, Pcs
  <2>3. Step(t, new)
    BY <1>4, <2>1 DEF prune_versions
  <2>4. PruneOK(t, new)
    BY <1>1, <1>4, <2>2 DEF PruneOK, Prunes
  <2> QED
    BY <1>1, <1>2, <2>2, <2>3, <2>4
<1> QED
  BY <1>3, <1>4

(* The rows a transaction that has inserted its version sees: its own is   *)
(* the newest, and each is known by its id and by its number.              *)
LEMMA ViewOrder ==
    ASSUME BaseInv, OrderInv, NEW t \in Saves, NEW x \in Tx, Number(x), Inserted(x), Shape(x),
           main # Gone, tx[t].pc # "done", x.doc \in Contents, x.next # 0
    PROVE  /\ \A y, z \in View(t, x) : y.id = z.id \/ y._version = z._version => y = z
           /\ \A y \in View(t, x) : y # Own(t, x) =>
                 y._version < x.next /\ ~y._latest /\ y.id # t
<1>0. /\ rows \in SUBSET VersionRow /\ RowsInv
      /\ \A r \in rows : r._version \in Nat /\ r._latest \in BOOLEAN
  BY DEF BaseInv, VersionsTypeOK, OrderInv, VersionRow
<1>1. PICK top \in rows : Top(top)
  BY DEF OrderInv, TopInv
<1>2. x.next = top._version + 1 /\ x.cleared = {top.id}
  BY <1>1 DEF Number
<1>3. ASSUME NEW r \in rows
      PROVE  LET y == Copied(r, x)
             IN  y._version < x.next /\ ~y._latest /\ y.id # t /\ y.id = r.id
                 /\ y._version = r._version
  <2>1. /\ Copied(r, x).id = r.id /\ Copied(r, x)._version = r._version
        /\ Copied(r, x)._latest => r._latest /\ r.id \notin x.cleared
    BY <1>0, <1>3, CopiedFacts
  <2>2. r.id # t
    BY <1>0, <1>3, VersionsAssumption DEF RowsInv
  <2>3. r._version <= top._version
    BY <1>0, <1>1, <1>3 DEF Top
  <2>4. r._latest => r = top
    BY <1>1, <1>3 DEF Top
  <2> QED
    BY <1>0, <1>2, <2>1, <2>2, <2>3, <2>4
<1>4. ASSUME NEW y \in View(t, x), y # Own(t, x)
      PROVE  \E r \in rows : y = Copied(r, x)
  BY <1>4, ViewFacts
<1>5. Own(t, x).id = t /\ Own(t, x)._version = x.next
  BY OwnFacts
<1>6. ASSUME NEW y \in View(t, x), NEW z \in View(t, x), y.id = z.id \/ y._version = z._version
      PROVE  y = z
  <2>1. CASE y # Own(t, x) /\ z # Own(t, x)
    <3>1. PICK r \in rows : y = Copied(r, x)
      BY <1>4, <2>1
    <3>2. PICK s \in rows : z = Copied(s, x)
      BY <1>4, <2>1
    <3>3. r = s
      BY <1>0, <1>3, <1>6, <3>1, <3>2 DEF RowsInv
    <3> QED
      BY <3>1, <3>2, <3>3
  <2>2. CASE y = Own(t, x) /\ z # Own(t, x)
    <3>1. PICK s \in rows : z = Copied(s, x)
      BY <1>4, <2>2
    <3>2. z.id # t /\ z._version < x.next /\ z._version \in Nat /\ x.next \in Nat
      BY <1>0, <1>3, <3>1 DEF Tx
    <3> QED
      BY <1>5, <1>6, <2>2, <3>2
  <2>3. CASE z = Own(t, x) /\ y # Own(t, x)
    <3>1. PICK s \in rows : y = Copied(s, x)
      BY <1>4, <2>3
    <3>2. y.id # t /\ y._version < x.next /\ y._version \in Nat /\ x.next \in Nat
      BY <1>0, <1>3, <3>1 DEF Tx
    <3> QED
      BY <1>5, <1>6, <2>3, <3>2
  <2> QED
    BY <2>1, <2>2, <2>3
<1> QED
  BY <1>3, <1>4, <1>6

LEMMA SurplusGoes ==
    ASSUME BaseInv, NEW t \in Saves, DeleteSurplus(t)
    PROVE  Goes(t)
<1> DEFINE x == tx[t]
           V == View(t, x)
<1>0. /\ x \in Tx /\ Shape(x) /\ x.pc = "pruning" /\ UNCHANGED Tables /\ Live(x)
      /\ rows \in SUBSET VersionRow /\ IsFiniteSet(rows) /\ deploy.max_versions \in Nat
  BY TxFacts DEF DeleteSurplus, Live
<1>1. /\ x.pruned = {} /\ x.kind # "delete" /\ x.doc \in Contents /\ x.next # 0
      /\ x.inserted /\ main # Gone /\ Inserted(x) /\ x.next \in Nat
  BY <1>0 DEF Shape, After, Live, Inserted, Tx
<1>2. V \subseteq VersionRow /\ IsFiniteSet(V)
  BY <1>0, <1>1, ViewType DEF BaseInv
<1>3. PICK P : P = x.targets \cap Ids(V)
  OBVIOUS
<1>4. P \in SUBSET Contents
  BY <1>2, <1>3 DEF Ids, VersionRow
<1>5. PICK new : new = [x EXCEPT !.pc = "commit", !.targets = {}, !.pruned = P]
  OBVIOUS
<1>6. /\ new \in Tx /\ new.pc = "commit" /\ new.kind = x.kind /\ new.doc = x.doc
      /\ new.next = x.next /\ new.inserted = x.inserted /\ new.pruned = P
      /\ new.cleared = x.cleared
  BY <1>0, <1>4, <1>5 DEF Tx, Pcs
<1>7. Shape(new) /\ Inserted(new) /\ ~Deleting(new)
  BY <1>0, <1>1, <1>6 DEF Shape, Live, Before, After, Numbers, Inserted, Deleting
<1>8. Step(t, new)
  BY <1>3, <1>5, VisibleView DEF DeleteSurplus
<1>9. Moves(t, new)
  BY <1>0, <1>1, <1>6, <1>7, <1>8 DEF Moves, BaseInv, Apart, Aside, Step
<1>10. ASSUME OrderInv PROVE Orders(t, new)
  <2>1. Number(x) /\ PruneOK(t, x) /\ OneInserted
    BY <1>10 DEF OrderInv
  <2>2. Number(new)
    BY <1>1, <1>6, <1>7, <2>1 DEF Number, Numbers
  <2>3. deploy.max_versions > 0 /\ x.kind # "restore" /\ x.targets = Ids(Surplus(V))
    BY <1>0, <2>1 DEF PruneOK
  <2>4. Surplus(V) \subseteq V /\ P = Ids(Surplus(V))
    BY <1>3, <2>3 DEF Ids, Surplus
  <2>5. /\ \A y, z \in V : y.id = z.id \/ y._version = z._version => y = z
        /\ \A y \in V : y # Own(t, x) => y._version < x.next /\ ~y._latest /\ y.id # t
    BY <1>0, <1>1, <1>10, <2>1, ViewOrder
  <2>6. Own(t, x) \in V /\ Own(t, x).id = t /\ Own(t, x)._version = x.next
    BY <1>0, <1>1, ViewFacts, OwnFacts
  <2>7. \A r \in rows : /\ Copied(r, x) \in V /\ Copied(r, x).id = r.id
                        /\ Copied(r, x)._version = r._version
    BY <1>0, <1>1, ViewFacts, CopiedFacts
  <2> HIDE DEF V
  <2>8. Own(t, x) \notin Surplus(V)
    <3>1. \A y \in V : y._version <= Own(t, x)._version
      <4>1. \A y \in V : y._version \in Nat
        BY <1>2 DEF VersionRow
      <4> QED
        BY <1>1, <2>5, <2>6, <4>1
    <3> QED
      BY <1>0, <1>2, <2>3, <2>6, <3>1, NewestIsKept
  <2>9. t \notin P
    BY <2>4, <2>5, <2>6, <2>8 DEF Ids
  <2>10. ASSUME NEW r \in rows, NEW y \in rows, r.id \in P, y._version < r._version
         PROVE  y.id \in P
    <3>1. PICK s \in Surplus(V) : s.id = r.id
      BY <2>4, <2>10 DEF Ids
    <3>2. s = Copied(r, x)
      BY <2>4, <2>5, <2>7, <3>1
    <3>3. Copied(y, x)._version < s._version
      BY <2>7, <2>10, <3>2
    <3>4. Copied(y, x) \in Surplus(V)
      BY <1>0, <1>2, <2>7, <3>3, SurplusIsOlder
    <3> QED
      BY <2>4, <2>7, <3>4 DEF Ids
  <2>11. View(t, new) \subseteq V \ Surplus(V)
    <3>1. ASSUME NEW y \in View(t, new) PROVE y \in V \ Surplus(V)
      <4>1. CASE y = Own(t, new)
        <5>1. Own(t, new) = Own(t, x)
          BY <1>6 DEF Own
        <5> QED
          BY <2>6, <2>8, <4>1, <5>1
      <4>2. CASE y # Own(t, new)
        <5>1. PICK r \in rows : r.id \notin P /\ y = Copied(r, new)
          BY <1>6, <3>1, <4>2, ViewFacts
        <5>2. y = Copied(r, x)
          BY <1>6, <5>1 DEF Copied
        <5> QED
          BY <2>4, <2>7, <5>1, <5>2 DEF Ids
      <4> QED
        BY <4>1, <4>2
    <3> QED
      BY <3>1
  <2>12. Cardinality(View(t, new)) <= deploy.max_versions
    <3>1. IsFiniteSet(V \ Surplus(V)) /\ Cardinality(V \ Surplus(V)) \in Nat
      BY <1>2, FS_Subset, FS_CardinalityType
    <3>2. Cardinality(V \ Surplus(V)) <= deploy.max_versions
      BY <1>0, <1>2, <2>3, <2>5, KeptWithinCap
    <3>3. IsFiniteSet(View(t, new)) /\ Cardinality(View(t, new)) <= Cardinality(V \ Surplus(V))
      BY <2>11, <3>1, FS_Subset
    <3>4. Cardinality(View(t, new)) \in Nat
      BY <3>3, FS_CardinalityType
    <3> QED
      BY <1>0, <3>1, <3>2, <3>3, <3>4
  <2>13. PruneOK(t, new)
    BY <1>6, <2>3, <2>9, <2>10, <2>12 DEF PruneOK
  <2> QED
    BY <1>1, <2>1, <2>2, <2>13 DEF Orders, OneInserted
<1> QED
  BY <1>9, <1>10 DEF Goes

-----------------------------------------------------------------------------
\* The commits.

LEMMA CommitFacts ==
    ASSUME BaseInv, NEW t \in Saves, Commit(t)
    PROVE  /\ tx' \in [Saves -> Tx] /\ tx'[t] = [tx[t] EXCEPT !.pc = "done"]
           /\ tx'[t].pc = "done" /\ tx'[t].kind = tx[t].kind
           /\ \A u \in Saves : u # t => tx'[u] = tx[u]
           /\ rows' = View(t, tx[t]) /\ deploy' = deploy /\ tx[t].pc = "commit" /\ Live(tx[t])
<1>1. tx[t] \in Tx /\ tx \in [Saves -> Tx]
  BY TxFacts
<1>2. PICK new : new = [tx[t] EXCEPT !.pc = "done"]
  OBVIOUS
<1>3. new \in Tx /\ new.pc = "done" /\ new.kind = tx[t].kind
  BY <1>1, <1>2 DEF Tx, Pcs
<1>4. tx' = [tx EXCEPT ![t] = new]
  BY <1>2 DEF Commit, Step
<1> QED
  BY <1>1, <1>2, <1>3, <1>4, VisibleView DEF Commit, Live

(* A delete takes the rows with it.                                        *)
LEMMA DeleteCommits ==
    ASSUME BaseInv, NEW t \in Saves, Commit(t), tx[t].kind = "delete"
    PROVE  BaseInv' /\ (Supported /\ OrderInv => OrderInv')
<1>0. /\ tx[t] \in Tx /\ Shape(tx[t]) /\ tx[t].pc = "commit" /\ Live(tx[t]) /\ Deleting(tx[t])
      /\ deploy \in [pg : BOOLEAN, max_versions : Nat, global : BOOLEAN]
  BY CommitFacts, TxFacts DEF Deleting
<1>1. /\ tx' \in [Saves -> Tx] /\ tx'[t].pc = "done" /\ tx'[t].kind = tx[t].kind
      /\ \A u \in Saves : u # t => tx'[u] = tx[u]
      /\ rows' = View(t, tx[t]) /\ deploy' = deploy
  BY CommitFacts
<1>2. main' = Gone /\ last' = last /\ restored' = 0
  BY DEF Commit
<1>3. rows' = {}
  <2>1. ~tx[t].inserted /\ Ids(rows) \subseteq tx[t].pruned
    BY <1>0 DEF Shape
  <2> QED
    BY <1>0, <1>1, <2>1, ViewFacts DEF Ids
<1>4. VersionsTypeOK' /\ IsFiniteSet(rows')
  BY <1>1, <1>2, <1>3, FS_EmptySet DEF BaseInv, VersionsTypeOK, MainRow
<1>5. ~Live(tx'[t]) /\ \A u \in Saves : Live(tx'[u]) => u # t /\ tx'[u] = tx[u] /\ Live(tx[u])
  BY <1>1 DEF Live
<1>6. \A u \in Saves : Live(tx'[u]) => ~Inserted(tx'[u]) /\ Aside(tx'[u])
  BY <1>0, <1>5 DEF BaseInv, Apart, Aside
<1>7. Apart'
  <2>1. ASSUME NEW u \in Saves, NEW v \in Saves, u # v, Live(tx'[u]), Live(tx'[v])
        PROVE  Aside(tx'[u]) /\ ~Inserted(tx'[u])
    BY <1>6, <2>1
  <2> QED
    BY <1>1, <2>1 DEF Apart, Aside, Live, Inserted, Deleting
<1>8. ASSUME NEW u \in Saves PROVE Shape(tx[u])'
  <2>1. CASE ~Live(tx'[u])
    BY <2>1 DEF Shape, Live, Before, After, Numbers
  <2>2. CASE Live(tx'[u])
    <3>1. Shape(tx[u]) /\ tx'[u] = tx[u] /\ ~Inserted(tx[u]) /\ Live(tx[u])
      BY <1>5, <1>6, <2>2, TxFacts
    <3>2. Ids(rows') = {}
      BY <1>3 DEF Ids
    <3>3. ~(tx[u].pc \in After /\ tx[u].kind # "delete")
      BY <3>1 DEF Shape, Inserted
    <3> QED
      BY <1>1, <1>2, <3>1, <3>2, <3>3 DEF Shape, Live, Ids
  <2> QED
    BY <2>1, <2>2
<1>9. BaseInv'
  BY <1>3, <1>4, <1>7, <1>8 DEF BaseInv
<1>10. ASSUME Supported, OrderInv PROVE OrderInv'
  <2>1. RowsInv' /\ TopInv' /\ PublishedInv' /\ UnpublishKeepsContent'
    BY <1>2, <1>3 DEF RowsInv, TopInv, PublishedInv, UnpublishKeepsContent
  <2>2. LogWithinCap'
    BY <1>0, <1>1, <1>2, <1>3, FS_EmptySet DEF LogWithinCap
  <2>3. OneInserted'
    <3>1. \A u \in Saves : ~Inserted(tx'[u])
      BY <1>6 DEF Inserted
    <3> QED
      BY <3>1 DEF OneInserted, Inserted, Live
  <2>4. \A u \in Saves : Number(tx[u])'
    BY <1>3 DEF Number
  <2>5. ASSUME NEW u \in Saves PROVE PruneOK(u, tx[u])'
    <3>1. CASE ~Live(tx'[u])
      BY <3>1 DEF PruneOK, Live
    <3>2. CASE Live(tx'[u])
      <4>1. tx'[u] = tx[u] /\ Aside(tx[u]) /\ ~Inserted(tx[u]) /\ Live(tx[u]) /\ Shape(tx[u])
        BY <1>5, <1>6, <3>2, TxFacts
      <4>2. tx[u].pc # "pruning"
        BY <1>10, <4>1 DEF Supported, Aside, OrderInv, PruneOK
      <4>3. ~(tx[u].pc = "commit" /\ tx[u].kind # "delete")
        BY <4>1 DEF Shape, Inserted, After
      <4> QED
        BY <4>1, <4>2, <4>3 DEF PruneOK
    <3> QED
      BY <3>1, <3>2
  <2> QED
    BY <2>1, <2>2, <2>3, <2>4, <2>5 DEF OrderInv
<1> QED
  BY <1>9, <1>10

(* Any other save leaves its own version on top of the log.                *)
LEMMA SaveFacts ==
    ASSUME BaseInv, NEW t \in Saves, Commit(t), tx[t].kind # "delete"
    PROVE  /\ tx[t] \in Tx /\ Shape(tx[t]) /\ Inserted(tx[t]) /\ main # Gone
           /\ tx[t].doc \in Contents /\ tx[t].next \in Nat \ {0}
           /\ last' = tx[t].doc /\ main' \in MainRow /\ main' # Gone
           /\ tx[t].kind = "draft" => main' = main
           /\ tx[t].kind = "unpublish" => main'.status = "draft" /\ main'.content = main.content
           /\ tx[t].kind \in {"publish", "restore"} =>
                 main'.status = "published" /\ main'.content = tx[t].doc
           /\ tx[t].kind \in {"publish", "draft", "unpublish", "restore"}
<1> DEFINE x == tx[t]
<1>0. x \in Tx /\ Shape(x) /\ x.pc = "commit" /\ Live(x) /\ main \in MainRow
  BY CommitFacts, TxFacts
<1>1. /\ x.inserted /\ main # Gone /\ x.doc \in Contents /\ x.next \in Nat \ {0}
      /\ x.kind \in {"publish", "draft", "unpublish", "restore"}
  BY <1>0 DEF Shape, After, Tx, Kinds
<1>2. x.doc # NoContent
  BY <1>1, VersionsAssumption DEF Contents
<1>3. CASE x.kind = "draft"
  BY <1>0, <1>1, <1>3 DEF Commit, Inserted
<1>4. CASE x.kind = "unpublish"
  <2>1. main' = [main EXCEPT !.status = "draft"] /\ last' = x.doc
    BY <1>4 DEF Commit
  <2>2. main \in [content : Contents, status : {"draft", "published"}]
    BY <1>0, <1>1 DEF MainRow
  <2>3. main' \in MainRow /\ main'.status = "draft" /\ main'.content = main.content
    BY <2>1, <2>2 DEF MainRow
  <2>4. main' # Gone
    BY <2>3 DEF Gone
  <2> QED
    BY <1>0, <1>1, <1>4, <2>1, <2>3, <2>4 DEF Inserted
<1>5. CASE x.kind \in {"publish", "restore"}
  <2>1. main' = [content |-> x.doc, status |-> "published"] /\ last' = x.doc
    BY <1>5 DEF Commit
  <2>2. main' \in MainRow /\ main'.status = "published" /\ main'.content = x.doc
    BY <1>1, <2>1 DEF MainRow
  <2>3. main' # Gone
    BY <2>2 DEF Gone
  <2> QED
    BY <1>0, <1>1, <1>5, <2>1, <2>2, <2>3 DEF Inserted
<1> QED
  BY <1>1, <1>3, <1>4, <1>5

LEMMA SaveBase ==
    ASSUME BaseInv, NEW t \in Saves, Commit(t), tx[t].kind # "delete"
    PROVE  BaseInv'
<1>1. /\ tx' \in [Saves -> Tx] /\ tx'[t].pc = "done" /\ tx[t].pc = "commit" /\ Live(tx[t])
      /\ \A u \in Saves : u # t => tx'[u] = tx[u]
      /\ rows' = View(t, tx[t]) /\ deploy' = deploy
  BY CommitFacts
<1>2. /\ tx[t] \in Tx /\ Inserted(tx[t]) /\ tx[t].doc \in Contents
      /\ tx[t].next # 0 /\ main' \in MainRow /\ main' # Gone /\ last' = tx[t].doc /\ main # Gone
  BY SaveFacts
<1>3. rows' \subseteq VersionRow /\ IsFiniteSet(rows')
  BY <1>1, <1>2, ViewType DEF BaseInv
<1>4. VersionsTypeOK'
  <2>1. restored' \in Nat
    BY DEF Commit, BaseInv, VersionsTypeOK
  <2> QED
    BY <1>1, <1>2, <1>3, <2>1 DEF BaseInv, VersionsTypeOK
<1>5. \A u \in Saves : Live(tx'[u]) => u # t /\ tx'[u] = tx[u] /\ Live(tx[u])
  BY <1>1 DEF Live
<1>6. \A u \in Saves : Live(tx'[u]) => ~Deleting(tx'[u]) /\ Aside(tx'[u])
  BY <1>1, <1>2, <1>5 DEF BaseInv, Apart, Aside
<1>7. Apart'
  <2>1. ASSUME NEW u \in Saves, NEW v \in Saves, u # v, Live(tx'[u]), Live(tx'[v])
        PROVE  Aside(tx'[u]) /\ ~Deleting(tx'[v])
    BY <1>6, <2>1
  <2> QED
    BY <1>1, <2>1 DEF Apart, Aside, Live, Inserted, Deleting
<1>8. ASSUME NEW u \in Saves PROVE Shape(tx[u])'
  <2>1. CASE ~Live(tx'[u])
    BY <2>1 DEF Shape, Live, Before, After, Numbers
  <2>2. CASE Live(tx'[u])
    <3>1. Shape(tx[u]) /\ tx'[u] = tx[u] /\ Aside(tx[u]) /\ ~Deleting(tx[u])
      BY <1>5, <1>6, <2>2, TxFacts
    <3> QED
      BY <1>1, <1>2, <3>1 DEF Shape, Aside, Live, Deleting
  <2> QED
    BY <2>1, <2>2
<1> QED
  BY <1>2, <1>3, <1>4, <1>7, <1>8 DEF BaseInv

LEMMA SaveOrder ==
    ASSUME BaseInv, OrderInv, Supported, NEW t \in Saves, Commit(t), tx[t].kind # "delete"
    PROVE  OrderInv'
<1> DEFINE x == tx[t]
<1> PICK own : own = Own(t, x)
  OBVIOUS
<1>0. /\ tx' \in [Saves -> Tx] /\ tx'[t].pc = "done" /\ tx'[t].kind = x.kind /\ x.pc = "commit"
      /\ \A u \in Saves : u # t => tx'[u] = tx[u]
      /\ rows' = View(t, x) /\ deploy' = deploy /\ Live(x)
      /\ deploy \in [pg : BOOLEAN, max_versions : Nat, global : BOOLEAN]
  BY CommitFacts, TxFacts
<1>1. /\ x \in Tx /\ Shape(x) /\ Inserted(x) /\ main # Gone /\ x.doc \in Contents
      /\ x.next \in Nat \ {0} /\ last' = x.doc /\ main' \in MainRow /\ main' # Gone
      /\ x.kind \in {"publish", "draft", "unpublish", "restore"}
      /\ x.kind = "draft" => main' = main
      /\ x.kind = "unpublish" => main'.status = "draft" /\ main'.content = main.content
      /\ x.kind \in {"publish", "restore"} =>
            main'.status = "published" /\ main'.content = x.doc
  BY SaveFacts
<1>2. /\ rows \in SUBSET VersionRow /\ RowsInv /\ Number(x) /\ PruneOK(t, x)
      /\ rows' \subseteq VersionRow
  BY <1>0, <1>1, ViewType DEF BaseInv, VersionsTypeOK, OrderInv
<1>3. t \notin x.pruned /\ x.inserted
  BY <1>0, <1>1, <1>2 DEF PruneOK, Inserted
<1>4. /\ own \in rows' /\ own.id = t /\ own._version = x.next /\ own._latest /\ own.snapshot = x.doc
      /\ own._status = "published" => x.kind \in {"publish", "restore"}
      /\ own._status # "published" => x.kind \in {"draft", "unpublish"}
  BY <1>0, <1>1, <1>3, ViewFacts, OwnFacts
<1>5. /\ \A y, z \in rows' : y.id = z.id \/ y._version = z._version => y = z
      /\ \A y \in rows' : y # own => y._version < x.next /\ ~y._latest /\ y.id # t
  BY <1>0, <1>1, <1>2, ViewOrder
<1>6. ASSUME NEW y \in rows', y # own
      PROVE  \E r \in rows : /\ r.id \notin x.pruned /\ y.id = r.id /\ y._version = r._version
                             /\ y._status = r._status /\ y.snapshot = r.snapshot
  <2>1. PICK r \in rows : r.id \notin x.pruned /\ y = Copied(r, x)
    BY <1>0, <1>1, <1>6, ViewFacts
  <2> QED
    BY <1>1, <1>2, <2>1, CopiedFacts
<1>7. ASSUME NEW r \in rows, r.id \notin x.pruned
      PROVE  \E y \in rows' : /\ y.id = r.id /\ y._version = r._version
                              /\ y._status = r._status /\ y.snapshot = r.snapshot
  <2>1. Copied(r, x) \in rows'
    BY <1>0, <1>1, <1>7, ViewFacts
  <2> QED
    BY <1>1, <1>2, <2>1, CopiedFacts
<1>8. \A y \in rows' : y._version \in Nat
  BY <1>2 DEF VersionRow
<1>9. RowsInv'
  <2>1. ASSUME NEW y \in rows' PROVE y.id = Created \/ (y.id \in Saves /\ tx'[y.id].pc = "done")
    <3>1. CASE y = own
      BY <1>0, <1>4, <3>1
    <3>2. CASE y # own
      <4>1. PICK r \in rows : y.id = r.id
        BY <1>6, <3>2
      <4>2. r.id = Created \/ (r.id \in Saves /\ tx[r.id].pc = "done")
        BY <1>2 DEF RowsInv
      <4> QED
        BY <1>0, <4>1, <4>2
    <3> QED
      BY <3>1, <3>2
  <2> QED
    BY <1>5, <2>1 DEF RowsInv
<1>10. Top(own)' /\ \A r \in rows' : Top(r)' => r = own
  BY <1>4, <1>5, <1>8 DEF Top
<1>11. TopInv'
  BY <1>1, <1>4, <1>10 DEF TopInv
<1>12. PublishedInv'
  <2>1. ASSUME NEW y \in rows', main'.status = "published", y._status = "published",
               \A z \in rows' : z._status = "published" => z._version <= y._version
        PROVE  y.snapshot = main'.content
    <3>1. CASE x.kind \in {"publish", "restore"}
      <4>1. own._version <= y._version
        BY <1>4, <2>1, <3>1
      <4>2. y = own
        BY <1>1, <1>4, <1>5, <1>8, <4>1
      <4> QED
        BY <1>1, <1>4, <3>1, <4>2
    <3>2. CASE x.kind = "draft"
      <4>1. y # own /\ main' = main
        BY <1>1, <1>4, <2>1, <3>2
      <4>2. PICK r \in rows : /\ r.id \notin x.pruned /\ y._version = r._version
                              /\ y._status = r._status /\ y.snapshot = r.snapshot
        BY <1>6, <4>1
      <4>3. ASSUME NEW s \in rows, s._status = "published" PROVE s._version <= r._version
        <5>1. s._version \in Nat /\ r._version \in Nat
          BY <1>2 DEF VersionRow
        <5>2. CASE s.id \in x.pruned
          <6>1. ~(r._version < s._version)
            BY <1>0, <1>2, <4>2, <5>2, <3>2 DEF PruneOK
          <6> QED
            BY <5>1, <6>1
        <5>3. CASE s.id \notin x.pruned
          <6>1. PICK z \in rows' : z._version = s._version /\ z._status = s._status
            BY <1>7, <5>3
          <6> QED
            BY <2>1, <4>2, <4>3, <6>1
        <5> QED
          BY <5>2, <5>3
      <4>4. NewestPublished(r)
        BY <2>1, <4>2, <4>3 DEF NewestPublished
      <4> QED
        BY <2>1, <4>1, <4>2, <4>4 DEF OrderInv, PublishedInv
    <3>3. CASE x.kind = "unpublish"
      BY <1>1, <2>1, <3>3
    <3> QED
      BY <1>1, <3>1, <3>2, <3>3
  <2> QED
    BY <2>1 DEF PublishedInv, NewestPublished
<1>13. UnpublishKeepsContent'
  <2>1. ASSUME NEW y \in rows', y._latest, ~deploy.pg, ~deploy.global, x.kind = "unpublish"
        PROVE  y = own /\ y.snapshot = main'.content
    <3>1. y = own
      BY <1>5, <2>1
    <3>2. x.doc = main.content
      BY <1>0, <1>1, <2>1 DEF Shape
    <3> QED
      BY <1>1, <1>4, <2>1, <3>1, <3>2
  <2>2. ASSUME NEW y \in rows', y._latest PROVE y.id = t
    BY <1>4, <1>5, <2>2
  <2> QED
    BY <1>0, <2>1, <2>2 DEF UnpublishKeepsContent
<1>14. LogWithinCap'
  <2> SUFFICES ASSUME deploy.max_versions > 0
               PROVE  Cardinality(rows') <= deploy.max_versions + restored'
    BY <1>0 DEF LogWithinCap
  <2>1. restored' = IF x.kind = "restore" THEN restored + 1 ELSE 0
    BY DEF Commit
  <2>2. /\ IsFiniteSet(rows') /\ Cardinality(rows') <= Cardinality(rows) + 1
        /\ IsFiniteSet(rows)
    BY <1>0, <1>1, ViewType DEF BaseInv
  <2>3. Cardinality(rows') \in Nat /\ Cardinality(rows) \in Nat /\ restored \in Nat
    BY <2>2, FS_CardinalityType DEF BaseInv, VersionsTypeOK
  <2>4. CASE x.kind = "restore"
    <3>1. Cardinality(rows) <= deploy.max_versions + restored
      BY DEF OrderInv, LogWithinCap
    <3> QED
      BY <1>0, <2>1, <2>2, <2>3, <2>4, <3>1
  <2>5. CASE x.kind # "restore"
    <3>1. Cardinality(rows') <= deploy.max_versions
      BY <1>0, <1>2, <2>5 DEF PruneOK
    <3> QED
      BY <1>0, <2>1, <2>3, <2>5, <3>1
  <2> QED
    BY <2>4, <2>5
\* The transactions that are still open have not inserted a version yet.
<1>15. ASSUME NEW u \in Saves, Live(tx'[u])
       PROVE  /\ u # t /\ tx'[u] = tx[u] /\ Live(tx[u]) /\ Aside(tx[u]) /\ ~Inserted(tx[u])
              /\ deploy.pg => x.pruned = {}
              /\ Shape(tx[u]) /\ Number(tx[u]) /\ PruneOK(u, tx[u])
  <2>1. u # t /\ tx'[u] = tx[u]
    BY <1>0, <1>15 DEF Live
  <2>2. Live(tx[u]) /\ Aside(tx[u])
    BY <1>0, <1>15, <2>1 DEF BaseInv, Apart, Aside
  <2>3. ~Inserted(tx[u])
    BY <1>1, <2>1 DEF OrderInv, OneInserted
  <2>4. deploy.pg => x.pruned = {}
    BY <1>0, <1>2 DEF PruneOK, Supported
  <2> QED
    BY <2>1, <2>2, <2>3, <2>4, TxFacts DEF OrderInv
<1>16. OneInserted'
  <2>1. \A u \in Saves : ~Inserted(tx'[u])
    BY <1>15 DEF Inserted
  <2> QED
    BY <2>1 DEF OneInserted, Inserted, Live
<1>17. ASSUME NEW u \in Saves PROVE Number(tx[u])' /\ PruneOK(u, tx[u])'
  <2>1. CASE ~Live(tx'[u])
    BY <2>1 DEF Number, PruneOK, Inserted, Live, Numbers
  <2>2. CASE Live(tx'[u]) /\ ~deploy.pg
    <3>1. tx'[u] = tx[u] /\ tx[u].pc = "hooks" /\ ~Inserted(tx[u])
      BY <1>15, <2>2 DEF Aside
    <3> QED
      BY <3>1 DEF Number, PruneOK, Numbers, Inserted, Live
  <2>3. CASE Live(tx'[u]) /\ deploy.pg
    <3>1. /\ tx'[u] = tx[u] /\ deploy.pg /\ ~Inserted(tx[u]) /\ Live(tx[u])
          /\ x.pruned = {} /\ Shape(tx[u]) /\ Number(tx[u]) /\ PruneOK(u, tx[u])
      BY <1>15, <2>3
    <3>2. tx[u].pc # "pruning" /\ ~(tx[u].pc = "commit" /\ tx[u].kind # "delete")
      BY <3>1 DEF PruneOK, Supported, Shape, After, Inserted
    <3>3. PruneOK(u, tx[u])'
      BY <3>1, <3>2 DEF PruneOK
    <3>4. tx[u].pc \in Numbers => \E y \in rows' : y._version = tx[u].next
      <4> SUFFICES ASSUME tx[u].pc \in Numbers PROVE \E y \in rows' : y._version = tx[u].next
        OBVIOUS
      <4>1. PICK top \in rows : Top(top)
        BY <1>1 DEF OrderInv, TopInv
      <4>2. x.next = top._version + 1
        BY <1>1, <1>2, <4>1 DEF Number
      <4>3. (\E r \in rows : r._version = tx[u].next) \/ tx[u].next = x.next
        BY <1>1, <3>1, <4>1, <4>2 DEF Number
      <4>4. ASSUME NEW r \in rows, r._version = tx[u].next
            PROVE  \E y \in rows' : y._version = tx[u].next
        BY <1>7, <3>1, <4>4
      <4> QED
        BY <1>4, <4>3, <4>4
    <3>5. Number(tx[u])'
      BY <3>1, <3>4 DEF Number, Inserted, Live
    <3> QED
      BY <3>3, <3>5
  <2> QED
    BY <1>0, <2>1, <2>2, <2>3
<1> QED
  BY <1>9, <1>11, <1>12, <1>13, <1>14, <1>16, <1>17 DEF OrderInv

-----------------------------------------------------------------------------
\* The theorems.

LEMMA VersionsInit == Init => VersionsInv
<1> SUFFICES ASSUME Init PROVE VersionsInv
  OBVIOUS
<1>1. PICK first : first = [id |-> Created, _version |-> 1, _status |-> "published",
                            _latest |-> TRUE, snapshot |-> Created]
  OBVIOUS
<1>2. /\ first \in VersionRow /\ first.id = Created /\ first.snapshot = Created
      /\ first._status = "published" /\ first._latest
  BY <1>1 DEF VersionRow, Contents
<1>3. rows = {first} /\ last = Created /\ restored = 0 /\ deploy \in Deployments
  BY <1>1 DEF Init
<1>4. main \in MainRow /\ main # Gone /\ main.content = Created
  BY VersionsAssumption DEF Init, MainRow, Gone, Contents
<1>5. NoTx \in Tx /\ NoTx.pc = "none" /\ \A t \in Saves : tx[t] = NoTx
  BY DEF Init, NoTx, Tx, Pcs, Kinds
<1>6. tx \in [Saves -> Tx]
  BY <1>5 DEF Init
<1>7. ~Live(NoTx)
  BY <1>5 DEF Live
<1>8. IsFiniteSet(rows) /\ Cardinality(rows) = 1
  BY <1>3, FS_Singleton
<1>9. BaseInv
  <2>1. VersionsTypeOK
    BY <1>2, <1>3, <1>4, <1>6 DEF VersionsTypeOK, Contents
  <2>2. Apart
    BY <1>5, <1>7 DEF Apart
  <2>3. Shape(NoTx)
    BY <1>5, <1>7 DEF Shape, Before, After, Numbers
  <2> QED
    BY <1>4, <1>5, <1>8, <2>1, <2>2, <2>3 DEF BaseInv
<1>10. OrderInv
  <2>1. RowsInv /\ TopInv /\ PublishedInv
    BY <1>2, <1>3, <1>4 DEF RowsInv, TopInv, Top, PublishedInv, NewestPublished
  <2>2. OneInserted
    BY <1>5, <1>7 DEF OneInserted, Inserted
  <2>3. \A t \in Saves : Number(tx[t]) /\ PruneOK(t, tx[t])
    BY <1>5, <1>7 DEF Number, Numbers, Inserted, PruneOK
  <2>4. LogWithinCap
    BY <1>3, <1>8, VersionsAssumption DEF LogWithinCap
  <2>5. UnpublishKeepsContent
    BY <1>2, <1>3, VersionsAssumption DEF UnpublishKeepsContent
  <2> QED
    BY <2>1, <2>2, <2>3, <2>4, <2>5 DEF OrderInv
<1> QED
  BY <1>9, <1>10 DEF VersionsInv

LEMMA VersionsStep == VersionsInv /\ [Next]_vars => VersionsInv'
<1> SUFFICES ASSUME VersionsInv, [Next]_vars PROVE VersionsInv'
  OBVIOUS
<1>0. BaseInv
  BY DEF VersionsInv
<1>1. deploy' = deploy
  BY DEF Next, Save, vars, Tables, Commit, Rollback, transaction_immediate, BeginUpdate,
         BeginDraft, BeginUnpublish, BeginRestore, BeginDelete, persist_draft_version,
         unpublish_document_in_conn, persist_unpublish, unpublish_global_document,
         find_version_by_id, WriteMain, persist_update,
         persist_global_update, unpublish_with_snapshot, restore_version,
         restore_global_version, DeleteMain, SelectMax, MatchLatest, ClearLatest,
         InsertVersion, prune_versions, DeleteSurplus
<1>2. Supported' <=> Supported
  BY <1>1 DEF Supported
<1>3. ASSUME NEW t \in Saves, Goes(t) PROVE VersionsInv'
  BY <1>0, <1>2, <1>3, MoveBase, MoveOrder DEF Goes, VersionsInv
<1>4. ASSUME NEW t \in Saves, Save(t) PROVE VersionsInv'
  <2>1. CASE Commit(t) /\ tx[t].kind = "delete"
    BY <1>0, <1>2, <2>1, DeleteCommits DEF VersionsInv
  <2>2. CASE Commit(t) /\ tx[t].kind # "delete"
    BY <1>0, <1>2, <2>2, SaveBase, SaveOrder DEF VersionsInv
  <2>3. CASE Rollback(t)
    <3>1. Fail(t) /\ UNCHANGED Tables /\ tx[t].pc # "done"
      BY <2>3 DEF Rollback, Open
    <3> QED
      BY <1>0, <1>3, <3>1, FailMoves DEF Goes
  <2>4. CASE \/ BeginUpdate(t) \/ BeginDraft(t) \/ BeginUnpublish(t)
             \/ BeginRestore(t) \/ BeginDelete(t)
    BY <1>0, <1>3, <2>4, BeginGoes
  <2>5. CASE \/ persist_draft_version(t) \/ unpublish_document_in_conn(t)
             \/ persist_unpublish(t) \/ unpublish_global_document(t) \/ find_version_by_id(t)
    BY <1>0, <1>3, <2>5, ReadGoes
  <2>6. CASE \/ persist_update(t) \/ persist_global_update(t) \/ unpublish_with_snapshot(t)
             \/ restore_version(t) \/ restore_global_version(t)
    BY <1>0, <1>3, <2>6, MainGoes
  <2>7. CASE DeleteMain(t)
    BY <1>0, <1>3, <2>7, DeleteGoes
  <2>8. CASE SelectMax(t)
    BY <1>0, <1>3, <2>8, SelectGoes
  <2>9. CASE MatchLatest(t) \/ ClearLatest(t)
    BY <1>0, <1>3, <2>9, LatestGoes
  <2>10. CASE InsertVersion(t)
    BY <1>0, <1>3, <2>10, InsertGoes
  <2>11. CASE prune_versions(t)
    BY <1>0, <1>3, <2>11, PruneGoes
  <2>12. CASE DeleteSurplus(t)
    BY <1>0, <1>3, <2>12, SurplusGoes
  <2> QED
    BY <1>4, <2>1, <2>2, <2>3, <2>4, <2>5, <2>6, <2>7, <2>8, <2>9, <2>10, <2>11, <2>12 DEF Save
<1>5. CASE UNCHANGED vars
  <2>1. BaseInv'
    BY <1>0, <1>5 DEF BaseInv, VersionsTypeOK, Apart, Aside, Shape, Live, Inserted, Deleting, Ids,
                      vars
  <2>2. ASSUME OrderInv PROVE OrderInv'
    <3>1. RowsInv' /\ TopInv' /\ PublishedInv' /\ OneInserted'
      BY <1>5, <2>2 DEF OrderInv, RowsInv, TopInv, Top, PublishedInv, NewestPublished,
                        OneInserted, Inserted, Live, vars
    <3>2. \A t \in Saves : Number(tx[t])'
      BY <1>5, <2>2 DEF OrderInv, Number, Top, Inserted, Live, vars
    <3>3. \A t \in Saves : View(t, tx[t])' = View(t, tx[t])
      BY <1>5 DEF View, Copied, Own, vars
    <3>4. \A t \in Saves : PruneOK(t, tx[t])'
      BY <1>5, <2>2, <3>3 DEF OrderInv, PruneOK, Surplus, Ids, vars
    <3>5. LogWithinCap' /\ UnpublishKeepsContent'
      BY <1>5, <2>2 DEF OrderInv, LogWithinCap, UnpublishKeepsContent, vars
    <3> QED
      BY <3>1, <3>2, <3>4, <3>5 DEF OrderInv
  <2> QED
    BY <1>2, <2>1, <2>2 DEF VersionsInv
<1> QED
  BY <1>4, <1>5 DEF Next

LEMMA VersionsInvariant == Spec => []VersionsInv
  BY VersionsInit, VersionsStep, PTL DEF Spec

(* Every reachable state of the main row, the version rows and the open    *)
(* transactions is well typed, on every backend and with every cap: no     *)
(* save records a version without content or number, and an unpublish      *)
(* finds the row it read still there when it commits.                      *)
THEOREM VersionsTypeCorrect == Spec => []VersionsTypeOK
<1>1. VersionsInv => VersionsTypeOK
  BY DEF VersionsInv, BaseInv
<1> QED
  BY <1>1, VersionsInvariant, PTL

(* On SQLite, and on Postgres with an unlimited log, one version has the   *)
(* _latest flag and it has the highest number, although create_version     *)
(* reads the number, clears the flag and inserts in three statements.      *)
THEOREM LatestIsHighestHolds == Spec => [](Supported => LatestIsHighest)
<1>1. VersionsInv => (Supported => LatestIsHighest)
  BY DEF VersionsInv, OrderInv, TopInv, Top, LatestIsHighest
<1> QED
  BY <1>1, VersionsInvariant, PTL

(* There an editor of a collection's document gets what the save that      *)
(* committed last has recorded.                                            *)
THEOREM EditorSeesLastSaveHolds == Spec => [](Supported => EditorSeesLastSave)
<1>1. VersionsInv => (Supported => EditorSeesLastSave)
  <2> SUFFICES ASSUME VersionsInv, Supported, ~deploy.global, main # Gone
               PROVE  find_by_id_full = last
    BY DEF EditorSeesLastSave
  <2>1. PICK r \in rows : /\ Top(r) /\ r.snapshot = last
                          /\ r._status = "published" => main.content = last
    BY DEF VersionsInv, OrderInv, TopInv
  <2>2. \A x \in rows : x._latest <=> x = r
    BY <2>1 DEF Top
  <2>3. r._status \in {"draft", "published"}
    BY DEF VersionsInv, BaseInv, VersionsTypeOK, VersionRow
  <2>4. (CHOOSE x \in rows : x._latest) = r
    BY <2>2
  <2>5. CASE r._status = "draft"
    BY <2>1, <2>2, <2>4, <2>5 DEF find_by_id_full
  <2>6. CASE r._status = "published"
    <3>1. ~ \E x \in rows : x._latest /\ x._status = "draft"
      BY <2>2, <2>6
    <3> QED
      BY <2>1, <2>6, <3>1 DEF find_by_id_full
  <2> QED
    BY <2>3, <2>5, <2>6
<1> QED
  BY <1>1, VersionsInvariant, PTL

(* There the newest published version that has not been pruned is what the *)
(* main row holds: pruning takes the oldest rows, and a draft save leaves  *)
(* the main row alone.                                                     *)
THEOREM PublishedOnRecordHolds == Spec => [](Supported => PublishedOnRecord)
<1>1. VersionsInv => (Supported => PublishedOnRecord)
  <2> DEFINE published == {r \in rows : r._status = "published"}
  <2> SUFFICES ASSUME VersionsInv, Supported, main.status = "published", published # {}
               PROVE  \E r \in published :
                         r._version = Newest(published) /\ r.snapshot = main.content
    BY DEF PublishedOnRecord
  <2>1. rows \in SUBSET VersionRow /\ IsFiniteSet(rows)
    BY DEF VersionsInv, BaseInv, VersionsTypeOK
  <2>2. published \in SUBSET VersionRow /\ IsFiniteSet(published)
    BY <2>1, FS_Subset
  <2>3. PICK r \in published : r._version = Newest(published)
    <3> HIDE DEF published
    <3> QED BY <2>2, NewestFacts
  <2>4. \A x \in published : x._version <= r._version
    <3> HIDE DEF published
    <3> QED BY <2>2, <2>3, NewestFacts
  <2>5. NewestPublished(r)
    BY <2>3, <2>4 DEF NewestPublished
  <2> QED
    BY <2>3, <2>5 DEF VersionsInv, OrderInv, PublishedInv
<1> QED
  BY <1>1, VersionsInvariant, PTL

(* On SQLite the log holds at most max_versions rows and one for every     *)
(* restore since the last save that prunes.                                *)
THEOREM LogWithinCapHolds == Spec => [](~deploy.pg => LogWithinCap)
<1>1. VersionsInv => (~deploy.pg => LogWithinCap)
  BY DEF VersionsInv, OrderInv, Supported
<1> QED
  BY <1>1, VersionsInvariant, PTL

(* On SQLite the draft that the unpublish of a collection's document has   *)
(* recorded is what the row holds that it took offline, whatever its       *)
(* BeforeChange hooks saved: it reads the document when they have          *)
(* returned, and from then on runs alone.                                  *)
THEOREM UnpublishKeepsContentHolds == Spec => []UnpublishKeepsContent
<1>1. VersionsInv => UnpublishKeepsContent
  BY DEF VersionsInv, OrderInv, Supported, UnpublishKeepsContent
<1> QED
  BY <1>1, VersionsInvariant, PTL

(* On every backend and with every cap a deleted document stays deleted:   *)
(* the foreign key and its locks keep a save that was under way from       *)
(* committing a version or the row after it.                               *)
THEOREM DeletedForGoodHolds == Spec => DeletedForGood
<1>1. VersionsInv /\ [Next]_vars => [main = Gone => main' = Gone /\ rows' = {}]_vars
  <2> SUFFICES ASSUME VersionsInv, Next, main = Gone PROVE main' = Gone /\ rows' = {}
    BY DEF vars
  <2>1. BaseInv /\ rows = {}
    BY DEF VersionsInv, BaseInv
  <2>2. PICK t \in Saves : Save(t)
    BY DEF Next
  <2>3. CASE Commit(t)
    <3>1. tx[t].kind = "delete"
      BY <2>1, <2>3, SaveFacts
    <3>2. main' = Gone
      BY <2>3, <3>1 DEF Commit
    <3>3. BaseInv'
      BY <2>1, <2>3, <3>1, DeleteCommits
    <3> QED
      BY <3>2, <3>3 DEF BaseInv
  <2>4. CASE ~Commit(t)
    <3>1. UNCHANGED Tables
      BY <2>2, <2>4
         DEF Save, Rollback, transaction_immediate, BeginUpdate,
             BeginDraft, BeginUnpublish, BeginRestore, BeginDelete, persist_draft_version,
             unpublish_document_in_conn, persist_unpublish, unpublish_global_document,
         find_version_by_id, WriteMain, persist_update,
             persist_global_update, unpublish_with_snapshot, restore_version,
             restore_global_version, DeleteMain, SelectMax, MatchLatest, ClearLatest,
             InsertVersion, prune_versions, DeleteSurplus
    <3> QED
      BY <2>1, <3>1 DEF Tables
  <2> QED
    BY <2>3, <2>4
<1> QED
  BY <1>1, VersionsInvariant, PTL DEF Spec, DeletedForGood

=============================================================================
