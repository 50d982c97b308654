-------------------------- MODULE ReferencesProofs --------------------------
(***************************************************************************)
(* Proofs about References: the type invariant, that every _ref_count is   *)
(* accounted for, and where references lead, for any documents, reference  *)
(* slots, transactions and nesting of hooks.                               *)
(***************************************************************************)
EXTENDS RetentionPurge, FiniteSetTheorems, TLAPS

-----------------------------------------------------------------------------
\* What the tables satisfy at every moment, in the transaction and committed.

RowsEmpty(b) == \A d \in Docs : ~Stored(b, d) => b.ref[d] = EmptyRow

ForcedGone(b) == \A d \in b.forced : b.state[d] = "gone"

Fresh(b) == \A d \in Docs : b.state[d] = "absent" => b.count[d] = 0 /\ b.leaked[d] = 0

Good(b) ==
    /\ b \in Tables
    /\ RowsEmpty(b)
    /\ ForcedGone(b)
    /\ Fresh(b)
    /\ Accounted(b)
    /\ LeadsSomewhere(b)

RefInv ==
    /\ RefTypeOK
    /\ ~open => saved = db /\ deleting = <<>>
    /\ Good(db)
    /\ Good(saved)

-----------------------------------------------------------------------------
\* Counting references.

\* The slots of a row that hold t are finitely many.
LEMMA SlotsFinite ==
    ASSUME NEW row \in Rows, NEW t \in Docs
    PROVE  /\ IsFiniteSet(Slots(row, t))
           /\ Cardinality(Slots(row, t)) \in Nat
           /\ Slots(row, t) # {} <=> Cardinality(Slots(row, t)) > 0
<1>1. Slots(row, t) \in SUBSET Columns
  BY DEF Slots
<1>2. IsFiniteSet(Slots(row, t))
  BY <1>1, FS_Subset, ReferencesAssumption
<1>3. Cardinality(Slots(row, t)) \in Nat
  BY <1>2, FS_CardinalityType
<1>4. Cardinality(Slots(row, t)) = 0 <=> Slots(row, t) = {}
  BY <1>2, FS_EmptySet
<1> QED
  BY <1>2, <1>3, <1>4

\* An empty row holds nothing.
LEMMA EmptySlots ==
    ASSUME NEW t \in Docs
    PROVE  /\ EmptyRow \in Rows
           /\ Slots(EmptyRow, t) = {}
           /\ Cardinality(Slots(EmptyRow, t)) = 0
<1>1. EmptyRow \in Rows
  BY DEF EmptyRow, Rows, Targets
<1>2. Slots(EmptyRow, t) = {}
  BY ReferencesAssumption DEF EmptyRow, Slots
<1> QED
  BY <1>1, <1>2, FS_EmptySet

\* The referrers of t outside document d, and in it.
Others(b, d, t) == {p \in Docs \X Columns : p[1] # d /\ b.ref[p[1]][p[2]] = t}
Own(b, d, t) == {p \in {d} \X Columns : b.ref[p[1]][p[2]] = t}

\* The references in d are as many as the slots of its row.
LEMMA OwnSlots ==
    ASSUME NEW b \in Tables, NEW d \in Docs, NEW t \in Docs
    PROVE  /\ IsFiniteSet(Own(b, d, t))
           /\ Cardinality(Own(b, d, t)) = Cardinality(Slots(b.ref[d], t))
<1> DEFINE S == Slots(b.ref[d], t)
           T == Own(b, d, t)
           f == [c \in S |-> <<d, c>>]
<1>1. b.ref[d] \in Rows
  BY DEF Tables
<1>2. IsFiniteSet(S)
  BY <1>1, SlotsFinite
<1>3. \A c \in S : f[c] \in T
  BY DEF Own, Slots
<1>4. \A p \in T : p[2] \in S /\ p = <<d, p[2]>>
  BY DEF Own, Slots
<1>5. f \in Bijection(S, T)
  <2>1. f \in [S -> T]
    BY <1>3
  <2>2. \A u, v \in S : f[u] = f[v] => u = v
    OBVIOUS
  <2>3. \A p \in T : \E c \in S : f[c] = p
    BY <1>4
  <2> HIDE DEF f, S, T
  <2> QED
    BY <2>1, <2>2, <2>3 DEF Bijection, Injection, Surjection, IsInjective
<1>6. ExistsBijection(S, T)
  BY <1>5 DEF ExistsBijection
<1> QED
  BY <1>2, <1>6, FS_Bijection

\* The references to t: those outside d and those of its row.
LEMMA ReferrersSplit ==
    ASSUME NEW b \in Tables, NEW d \in Docs, NEW t \in Docs
    PROVE  /\ IsFiniteSet(Referrers(b, t))
           /\ IsFiniteSet(Others(b, d, t))
           /\ Cardinality(Others(b, d, t)) \in Nat
           /\ Cardinality(Referrers(b, t))
                = Cardinality(Others(b, d, t)) + Cardinality(Slots(b.ref[d], t))
<1> DEFINE S == Others(b, d, t)
           T == Own(b, d, t)
<1>1. IsFiniteSet(Docs \X Columns)
  BY ReferencesAssumption, FS_Product
<1>2. IsFiniteSet(S)
  BY <1>1, FS_Subset DEF Others
<1>3. IsFiniteSet(T)
  BY OwnSlots
<1>4. Referrers(b, t) = S \cup T
  BY DEF Referrers, Others, Own
<1>5. S \cap T = {}
  BY DEF Others, Own
<1> HIDE DEF S, T
<1>6. /\ IsFiniteSet(S \cup T)
      /\ Cardinality(S \cup T) = Cardinality(S) + Cardinality(T) - Cardinality(S \cap T)
  BY <1>2, <1>3, FS_Union
<1>7. Cardinality(S \cap T) = 0
  BY <1>5, FS_EmptySet
<1>8. Cardinality(S) \in Nat /\ Cardinality(T) \in Nat
  BY <1>2, <1>3, FS_CardinalityType
<1>9. Cardinality(T) = Cardinality(Slots(b.ref[d], t))
  BY OwnSlots DEF T
<1> QED
  BY <1>2, <1>4, <1>6, <1>7, <1>8, <1>9 DEF S

\* When only the row of d changes, the references to t change by the delta.
LEMMA ReferrersDelta ==
    ASSUME NEW b \in Tables, NEW n \in Tables, NEW d \in Docs, NEW row \in Rows,
           n.ref = [b.ref EXCEPT ![d] = row], NEW t \in Docs
    PROVE  /\ Cardinality(Referrers(n, t)) \in Nat
           /\ Cardinality(Referrers(b, t)) \in Nat
           /\ Cardinality(Slots(row, t)) \in Nat
           /\ Cardinality(Slots(b.ref[d], t)) \in Nat
           /\ Cardinality(Referrers(n, t))
                = Cardinality(Referrers(b, t)) + to_delta_map(b.ref[d], row, t)
<1>1. b.ref \in [Docs -> Rows] /\ b.ref[d] \in Rows
  BY DEF Tables
<1>2. n.ref[d] = row /\ \A e \in Docs : e # d => n.ref[e] = b.ref[e]
  BY <1>1
<1>3. Others(n, d, t) = Others(b, d, t)
  BY <1>2 DEF Others
<1>4. /\ Cardinality(Others(b, d, t)) \in Nat
      /\ Cardinality(Referrers(b, t))
           = Cardinality(Others(b, d, t)) + Cardinality(Slots(b.ref[d], t))
  BY ReferrersSplit
<1>5. Cardinality(Referrers(n, t))
        = Cardinality(Others(n, d, t)) + Cardinality(Slots(n.ref[d], t))
  BY ReferrersSplit
<1>6. Cardinality(Slots(row, t)) \in Nat /\ Cardinality(Slots(b.ref[d], t)) \in Nat
  BY <1>1, SlotsFinite
<1> QED
  BY <1>2, <1>3, <1>4, <1>5, <1>6 DEF to_delta_map

\* The counts stay natural numbers.
LEMMA DeltasType ==
    ASSUME NEW b \in Tables, NEW old \in Rows, NEW new \in Rows
    PROVE  apply_deltas(b, old, new) \in [Docs -> Nat]
<1>1. \A t \in Docs : to_delta_map(old, new, t) \in Int
  BY SlotsFinite DEF to_delta_map
<1>2. \A t \in Docs : b.count[t] \in Nat
  BY DEF Tables
<1> QED
  BY <1>1, <1>2 DEF apply_deltas, Clamp

\* Nobody refers to a document that was never created.
LEMMA FreshUnreferenced ==
    ASSUME NEW b, Good(b), NEW t \in Docs, b.state[t] = "absent"
    PROVE  Referrers(b, t) = {} /\ Cardinality(Referrers(b, t)) = 0
<1>1. \A d \in Docs, c \in Columns : b.ref[d][c] # t
  BY ReferencesAssumption DEF Good, LeadsSomewhere, ForcedGone, Stored
<1>2. Referrers(b, t) = {}
  BY <1>1 DEF Referrers
<1> QED
  BY <1>2, FS_EmptySet

-----------------------------------------------------------------------------
\* Each change of the tables keeps them good.

\* A create or an update whose targets all exist.
LEMMA WriteGood ==
    ASSUME NEW b, Good(b), NEW d \in Docs, NEW row \in Rows,
           b.state[d] \in {"absent", "live"},
           b.state[d] = "absent" => Slots(row, d) = {},
           CanApply(b, b.ref[d], row)
    PROVE  Good(WriteRow(b, d, row, apply_deltas(b, b.ref[d], row)))
<1> DEFINE counts == apply_deltas(b, b.ref[d], row)
           n == WriteRow(b, d, row, counts)
<1>1. b \in Tables /\ b.ref \in [Docs -> Rows] /\ b.ref[d] \in Rows
  BY DEF Good, Tables
<1>2. counts \in [Docs -> Nat]
  BY <1>1, DeltasType
<1>3. \A t \in Docs : counts[t] = IF Stored(b, t)
                                  THEN Clamp(b.count[t] + to_delta_map(b.ref[d], row, t))
                                  ELSE b.count[t]
  BY DEF apply_deltas
<1> HIDE DEF counts
<1>4. /\ n \in Tables
      /\ n.state = [b.state EXCEPT ![d] = "live"]
      /\ n.ref = [b.ref EXCEPT ![d] = row]
      /\ n.count = counts
      /\ n.leaked = b.leaked
      /\ n.forced = b.forced
  BY <1>1, <1>2 DEF WriteRow, Tables
<1> HIDE DEF n
<1>5. /\ b.state \in [Docs -> {"absent", "live", "trash", "gone"}]
      /\ b.count \in [Docs -> Nat] /\ b.leaked \in [Docs -> Nat]
  BY <1>1 DEF Tables
<1>6. /\ Stored(n, d)
      /\ \A t \in Docs : t # d => /\ Stored(n, t) <=> Stored(b, t)
                                  /\ n.state[t] = b.state[t]
                                  /\ n.ref[t] = b.ref[t]
      /\ n.state[d] = "live" /\ n.ref[d] = row
  BY <1>1, <1>4, <1>5 DEF Stored
<1>7. RowsEmpty(n)
  BY <1>6 DEF RowsEmpty, Good
<1>8. ForcedGone(n)
  <2>1. b.forced \subseteq Docs
    BY <1>1 DEF Tables
  <2>2. d \notin b.forced
    BY DEF Good, ForcedGone
  <2> QED
    BY <1>4, <1>6, <2>1, <2>2 DEF Good, ForcedGone
<1>9. Fresh(n)
  <2> SUFFICES ASSUME NEW t \in Docs, n.state[t] = "absent"
               PROVE  n.count[t] = 0 /\ n.leaked[t] = 0
    BY DEF Fresh
  <2>1. t # d /\ b.state[t] = "absent" /\ ~Stored(b, t)
    BY <1>6 DEF Stored
  <2> QED
    BY <1>3, <1>4, <2>1 DEF Good, Fresh
<1>10. Accounted(n)
  <2> SUFFICES ASSUME NEW t \in Docs, Stored(n, t)
               PROVE  n.count[t] = Cardinality(Referrers(n, t)) + n.leaked[t]
    BY DEF Accounted
  <2>1. /\ Cardinality(Referrers(n, t)) \in Nat
        /\ Cardinality(Referrers(b, t)) \in Nat
        /\ Cardinality(Slots(row, t)) \in Nat
        /\ Cardinality(Slots(b.ref[d], t)) \in Nat
        /\ Cardinality(Referrers(n, t))
             = Cardinality(Referrers(b, t)) + to_delta_map(b.ref[d], row, t)
    BY <1>1, <1>4, ReferrersDelta
  <2>2. to_delta_map(b.ref[d], row, t) \in Int
    BY <2>1 DEF to_delta_map
  <2>3. b.count[t] \in Nat /\ b.leaked[t] \in Nat
    BY <1>5
  <2>4. CASE Stored(b, t)
    <3>1. b.count[t] = Cardinality(Referrers(b, t)) + b.leaked[t]
      BY <2>4 DEF Good, Accounted
    <3>2. n.count[t] = Clamp(b.count[t] + to_delta_map(b.ref[d], row, t))
      BY <1>3, <1>4, <2>4
    <3> QED
      BY <1>4, <2>1, <2>2, <2>3, <3>1, <3>2 DEF Clamp
  <2>5. CASE ~Stored(b, t)
    <3>1. t = d /\ b.state[t] = "absent"
      BY <1>6, <2>5 DEF Stored
    <3>2. Cardinality(Referrers(b, t)) = 0 /\ Cardinality(Slots(row, t)) = 0
      BY <3>1, FreshUnreferenced, FS_EmptySet
    <3>3. b.ref[d] = EmptyRow
      BY <2>5, <3>1 DEF Good, RowsEmpty
    <3>4. Cardinality(Referrers(n, t)) = 0
      BY <2>1, <3>2, <3>3, EmptySlots DEF to_delta_map
    <3>5. n.count[t] = 0 /\ n.leaked[t] = 0
      BY <1>3, <1>4, <2>5, <3>1 DEF Good, Fresh
    <3> QED
      BY <3>4, <3>5
  <2> QED
    BY <2>4, <2>5
<1>11. LeadsSomewhere(n)
  <2> SUFFICES ASSUME NEW e \in Docs, NEW c \in Columns, n.ref[e][c] # None
               PROVE  Stored(n, n.ref[e][c]) \/ n.ref[e][c] \in n.forced
    BY DEF LeadsSomewhere
  <2> DEFINE t == n.ref[e][c]
  <2>1. t \in Docs
    BY <1>4 DEF Tables, Rows, Targets
  <2>2. ASSUME NEW f \in Docs, NEW k \in Columns, b.ref[f][k] = t
        PROVE  Stored(n, t) \/ t \in n.forced
    <3>1. Stored(b, t) \/ t \in b.forced
      BY <2>1, <2>2, ReferencesAssumption DEF Good, LeadsSomewhere
    <3> QED
      BY <1>4, <1>6, <2>1, <3>1
  <2>3. CASE e # d
    BY <1>6, <2>2, <2>3
  <2>4. CASE e = d
    <3>1. row[c] = t /\ c \in Slots(row, t)
      BY <1>6, <2>4 DEF Slots
    <3>2. CASE to_delta_map(b.ref[d], row, t) > 0
      <4>1. Stored(b, t)
        BY <2>1, <3>2 DEF CanApply
      <4> QED
        BY <1>6, <2>1, <4>1
    <3>3. CASE ~(to_delta_map(b.ref[d], row, t) > 0)
      <4>1. /\ Cardinality(Slots(row, t)) \in Nat
            /\ Slots(row, t) # {} <=> Cardinality(Slots(row, t)) > 0
        BY <2>1, SlotsFinite
      <4>2. /\ Cardinality(Slots(b.ref[d], t)) \in Nat
            /\ Slots(b.ref[d], t) # {} <=> Cardinality(Slots(b.ref[d], t)) > 0
        BY <1>1, <2>1, SlotsFinite
      <4>3. Slots(b.ref[d], t) # {}
        BY <3>1, <3>3, <4>1, <4>2 DEF to_delta_map
      <4>4. PICK k \in Columns : b.ref[d][k] = t
        BY <4>3 DEF Slots
      <4> QED
        BY <2>2, <4>4
    <3> QED
      BY <3>2, <3>3
  <2> QED
    BY <2>3, <2>4
<1> QED
  BY <1>4, <1>7, <1>8, <1>9, <1>10, <1>11 DEF Good, n, counts

\* A document moves between live and trash.
LEMMA MoveGood ==
    ASSUME NEW b, Good(b), NEW d \in Docs, Stored(b, d), NEW s \in {"live", "trash"}
    PROVE  Good([b EXCEPT !.state[d] = s])
<1> DEFINE n == [b EXCEPT !.state[d] = s]
<1>1. b \in Tables /\ b.state \in [Docs -> {"absent", "live", "trash", "gone"}]
  BY DEF Good, Tables
<1>2. /\ n \in Tables
      /\ n.state = [b.state EXCEPT ![d] = s]
      /\ n.ref = b.ref /\ n.count = b.count /\ n.leaked = b.leaked /\ n.forced = b.forced
  BY <1>1 DEF Tables
<1> HIDE DEF n
<1>3. /\ \A t \in Docs : Stored(n, t) <=> Stored(b, t)
      /\ \A t \in Docs : t # d => n.state[t] = b.state[t]
      /\ n.state[d] = s /\ d \notin b.forced
  BY <1>1, <1>2 DEF Stored, Good, ForcedGone
<1>4. RowsEmpty(n)
  BY <1>2, <1>3 DEF Good, RowsEmpty
<1>5. ForcedGone(n)
  BY <1>1, <1>2, <1>3 DEF Good, ForcedGone, Tables
<1>6. Fresh(n)
  BY <1>2, <1>3 DEF Good, Fresh
<1>7. Accounted(n)
  <2>1. \A t \in Docs : Referrers(n, t) = Referrers(b, t)
    BY <1>2 DEF Referrers
  <2> QED
    BY <1>2, <1>3, <2>1 DEF Good, Accounted
<1>8. LeadsSomewhere(n)
  <2>1. \A e \in Docs, c \in Columns : b.ref[e][c] # None => b.ref[e][c] \in Docs
    BY <1>1 DEF Tables, Rows, Targets
  <2> QED
    BY <1>2, <1>3, <2>1 DEF Good, LeadsSomewhere
<1> QED
  BY <1>2, <1>4, <1>5, <1>6, <1>7, <1>8 DEF Good, n

\* A row disappears, and the references it held with it.
LEMMA RemoveGood ==
    ASSUME NEW b, Good(b), NEW d \in Docs, Stored(b, d), NEW n \in Tables,
           n.state = [b.state EXCEPT ![d] = "gone"],
           n.ref = [b.ref EXCEPT ![d] = EmptyRow],
           n.forced = IF b.count[d] > 0 THEN b.forced \cup {d} ELSE b.forced,
           \A t \in Docs : b.state[t] = "absent" => n.count[t] = 0 /\ n.leaked[t] = 0,
           \A t \in Docs : Stored(b, t) /\ t # d =>
              n.count[t] - n.leaked[t]
                = b.count[t] - b.leaked[t] - Cardinality(Slots(b.ref[d], t))
    PROVE  Good(n)
<1>1. /\ b \in Tables /\ b.state \in [Docs -> {"absent", "live", "trash", "gone"}]
      /\ b.count \in [Docs -> Nat] /\ b.leaked \in [Docs -> Nat]
      /\ b.ref \in [Docs -> Rows] /\ b.forced \subseteq Docs
  BY DEF Good, Tables
<1>2. n.count \in [Docs -> Nat] /\ n.leaked \in [Docs -> Nat]
  BY DEF Tables
<1>3. /\ \A t \in Docs : t # d => /\ Stored(n, t) <=> Stored(b, t)
                                  /\ n.state[t] = b.state[t]
                                  /\ n.ref[t] = b.ref[t]
      /\ n.state[d] = "gone" /\ n.ref[d] = EmptyRow /\ ~Stored(n, d)
  BY <1>1 DEF Stored
<1>4. RowsEmpty(n)
  BY <1>3 DEF Good, RowsEmpty
<1>5. ForcedGone(n)
  BY <1>1, <1>3 DEF Good, ForcedGone
<1>6. Fresh(n)
  BY <1>3 DEF Fresh
<1>7. Accounted(n)
  <2> SUFFICES ASSUME NEW t \in Docs, Stored(n, t)
               PROVE  n.count[t] = Cardinality(Referrers(n, t)) + n.leaked[t]
    BY DEF Accounted
  <2>1. t # d /\ Stored(b, t)
    BY <1>3
  <2>2. EmptyRow \in Rows /\ Cardinality(Slots(EmptyRow, t)) = 0
    BY EmptySlots
  <2>3. /\ Cardinality(Referrers(n, t)) \in Nat
        /\ Cardinality(Referrers(b, t)) \in Nat
        /\ Cardinality(Slots(b.ref[d], t)) \in Nat
        /\ Cardinality(Referrers(n, t))
             = Cardinality(Referrers(b, t)) + to_delta_map(b.ref[d], EmptyRow, t)
    BY <1>1, <2>2, ReferrersDelta
  <2>4. b.count[t] = Cardinality(Referrers(b, t)) + b.leaked[t]
    BY <2>1 DEF Good, Accounted
  <2>5. to_delta_map(b.ref[d], EmptyRow, t) = 0 - Cardinality(Slots(b.ref[d], t))
    BY <2>2, <2>3 DEF to_delta_map
  <2>6. n.count[t] - n.leaked[t]
          = b.count[t] - b.leaked[t] - Cardinality(Slots(b.ref[d], t))
    BY <2>1
  <2>7. /\ b.count[t] \in Nat /\ b.leaked[t] \in Nat
        /\ n.count[t] \in Nat /\ n.leaked[t] \in Nat
    BY <1>1, <1>2
  <2> QED
    BY <2>3, <2>4, <2>5, <2>6, <2>7
<1>8. LeadsSomewhere(n)
  <2> SUFFICES ASSUME NEW e \in Docs, NEW c \in Columns, n.ref[e][c] # None
               PROVE  Stored(n, n.ref[e][c]) \/ n.ref[e][c] \in n.forced
    BY DEF LeadsSomewhere
  <2>1. e # d /\ n.ref[e] = b.ref[e]
    BY <1>3 DEF EmptyRow
  <2> DEFINE t == b.ref[e][c]
  <2>2. t \in Docs
    BY <1>1, <2>1 DEF Rows, Targets
  <2>3. Stored(b, t) \/ t \in b.forced
    BY <2>1 DEF Good, LeadsSomewhere
  <2>4. CASE t # d
    BY <1>3, <2>1, <2>2, <2>3, <2>4
  <2>5. CASE t = d
    <3>1. <<e, c>> \in Referrers(b, d)
      BY <2>5 DEF Referrers
    <3>2. /\ IsFiniteSet(Referrers(b, d))
          /\ Cardinality(Referrers(b, d)) \in Nat
      BY <1>1, ReferrersSplit, FS_CardinalityType
    <3>3. Cardinality(Referrers(b, d)) > 0
      BY <3>1, <3>2, FS_EmptySet
    <3>4. b.count[d] = Cardinality(Referrers(b, d)) + b.leaked[d]
      BY DEF Good, Accounted
    <3>5. b.count[d] > 0
      BY <1>1, <3>2, <3>3, <3>4
    <3> QED
      BY <2>1, <2>5, <3>5
  <2> QED
    BY <2>4, <2>5
<1> QED
  BY <1>4, <1>5, <1>6, <1>7, <1>8 DEF Good

\* A hard delete decrements its targets by what it drops.
LEMMA HardDeleteGood ==
    ASSUME NEW b, Good(b), NEW d \in Docs, Stored(b, d)
    PROVE  Good(HardDelete(b, d))
<1> DEFINE counts == apply_deltas(b, b.ref[d], EmptyRow)
           n == HardDelete(b, d)
<1>1. /\ b \in Tables /\ b.ref[d] \in Rows /\ b.ref \in [Docs -> Rows]
      /\ b.count \in [Docs -> Nat] /\ b.leaked \in [Docs -> Nat]
  BY DEF Good, Tables
<1>2. EmptyRow \in Rows
  BY EmptySlots
<1>3. counts \in [Docs -> Nat]
  BY <1>1, <1>2, DeltasType
<1>4. \A t \in Docs : counts[t] = IF Stored(b, t)
                                  THEN Clamp(b.count[t] + to_delta_map(b.ref[d], EmptyRow, t))
                                  ELSE b.count[t]
  BY DEF apply_deltas
<1>5. n = [RemoveRow(b, d) EXCEPT !.count = counts]
  BY DEF HardDelete
<1> HIDE DEF counts, n
<1>6. /\ n \in Tables
      /\ n.state = [b.state EXCEPT ![d] = "gone"]
      /\ n.ref = [b.ref EXCEPT ![d] = EmptyRow]
      /\ n.forced = IF b.count[d] > 0 THEN b.forced \cup {d} ELSE b.forced
      /\ n.count = counts
      /\ n.leaked = b.leaked
  BY <1>1, <1>2, <1>3, <1>5 DEF RemoveRow, Tables
<1>7. \A t \in Docs : b.state[t] = "absent" => n.count[t] = 0 /\ n.leaked[t] = 0
  BY <1>4, <1>6 DEF Good, Fresh, Stored
<1>8. ASSUME NEW t \in Docs, Stored(b, t), t # d
      PROVE  n.count[t] - n.leaked[t]
               = b.count[t] - b.leaked[t] - Cardinality(Slots(b.ref[d], t))
  <2>1. /\ Cardinality(Referrers(b, t)) \in Nat
        /\ Cardinality(Others(b, d, t)) \in Nat
        /\ Cardinality(Slots(b.ref[d], t)) \in Nat
        /\ Cardinality(Referrers(b, t))
             = Cardinality(Others(b, d, t)) + Cardinality(Slots(b.ref[d], t))
    BY <1>1, ReferrersSplit, FS_CardinalityType, SlotsFinite
  <2>2. b.count[t] = Cardinality(Referrers(b, t)) + b.leaked[t]
    BY <1>8 DEF Good, Accounted
  <2>3. to_delta_map(b.ref[d], EmptyRow, t) = 0 - Cardinality(Slots(b.ref[d], t))
    BY <2>1, EmptySlots DEF to_delta_map
  <2>4. n.count[t] = Clamp(b.count[t] + to_delta_map(b.ref[d], EmptyRow, t))
    BY <1>4, <1>6, <1>8
  <2>5. b.count[t] \in Nat /\ b.leaked[t] \in Nat /\ n.leaked[t] = b.leaked[t]
    BY <1>1, <1>6
  <2> QED
    BY <2>1, <2>2, <2>3, <2>4, <2>5 DEF Clamp
<1> QED
  BY <1>6, <1>7, <1>8, RemoveGood DEF n

\* The CLI purge drops references without a decrement: they are leaked.
LEMMA CliGood ==
    ASSUME NEW b, Good(b), NEW d \in Docs, Stored(b, d)
    PROVE  Good([RemoveRow(b, d) EXCEPT
                   !.leaked = [t \in Docs |-> @[t] + Cardinality(Slots(b.ref[d], t))]])
<1> DEFINE leaks == [t \in Docs |-> b.leaked[t] + Cardinality(Slots(b.ref[d], t))]
           n == [RemoveRow(b, d) EXCEPT !.leaked = leaks]
<1>1. /\ b \in Tables /\ b.ref[d] \in Rows /\ b.ref \in [Docs -> Rows]
      /\ b.count \in [Docs -> Nat] /\ b.leaked \in [Docs -> Nat]
  BY DEF Good, Tables
<1>2. EmptyRow \in Rows
  BY EmptySlots
<1>3. \A t \in Docs : Cardinality(Slots(b.ref[d], t)) \in Nat
  BY <1>1, SlotsFinite
<1>4. leaks \in [Docs -> Nat]
  BY <1>1, <1>3
<1>5. \A t \in Docs : leaks[t] = b.leaked[t] + Cardinality(Slots(b.ref[d], t))
  OBVIOUS
<1>6. n = [RemoveRow(b, d) EXCEPT
             !.leaked = [t \in Docs |-> @[t] + Cardinality(Slots(b.ref[d], t))]]
  BY <1>1 DEF RemoveRow, Tables
<1> HIDE DEF leaks
<1>7. /\ n \in Tables
      /\ n.state = [b.state EXCEPT ![d] = "gone"]
      /\ n.ref = [b.ref EXCEPT ![d] = EmptyRow]
      /\ n.forced = IF b.count[d] > 0 THEN b.forced \cup {d} ELSE b.forced
      /\ n.count = b.count
      /\ n.leaked = leaks
  BY <1>1, <1>2, <1>4 DEF RemoveRow, Tables
<1> HIDE DEF n
<1>8. ASSUME NEW t \in Docs, b.state[t] = "absent"
      PROVE  n.count[t] = 0 /\ n.leaked[t] = 0
  <2>1. Referrers(b, t) = {}
    BY <1>8, FreshUnreferenced
  <2>2. Slots(b.ref[d], t) = {}
    <3>1. \A c \in Columns : <<d, c>> \in Docs \X Columns /\ <<d, c>> \notin Referrers(b, t)
      BY <2>1
    <3>2. \A c \in Columns : b.ref[d][c] # t
      BY <3>1 DEF Referrers
    <3> QED
      BY <3>2 DEF Slots
  <2>3. Cardinality(Slots(b.ref[d], t)) = 0
    BY <2>2, FS_EmptySet
  <2>4. b.count[t] = 0 /\ b.leaked[t] = 0
    BY <1>8 DEF Good, Fresh
  <2> QED
    BY <1>5, <1>7, <2>3, <2>4
<1>9. \A t \in Docs : Stored(b, t) /\ t # d =>
         n.count[t] - n.leaked[t]
           = b.count[t] - b.leaked[t] - Cardinality(Slots(b.ref[d], t))
  BY <1>1, <1>3, <1>5, <1>7
<1>10. Good(n)
  BY <1>7, <1>8, <1>9, RemoveGood
<1> QED
  BY <1>6, <1>10

-----------------------------------------------------------------------------
\* The type invariant, for any localized slots.

\* The tables a write or a removal produces have their type.
LEMMA TablesType ==
    ASSUME NEW b \in Tables, NEW d \in Docs
    PROVE  /\ \A row \in Rows, counts \in [Docs -> Nat] :
                 WriteRow(b, d, row, counts) \in Tables
           /\ \A s \in {"live", "trash"} : [b EXCEPT !.state[d] = s] \in Tables
           /\ HardDelete(b, d) \in Tables
           /\ [RemoveRow(b, d) EXCEPT
                 !.leaked = [t \in Docs |-> @[t] + Cardinality(Slots(b.ref[d], t))]] \in Tables
<1>1. /\ b.ref[d] \in Rows /\ b.leaked \in [Docs -> Nat] /\ EmptyRow \in Rows
  BY EmptySlots DEF Tables
<1>2. apply_deltas(b, b.ref[d], EmptyRow) \in [Docs -> Nat]
  BY <1>1, DeltasType
<1>3. \A t \in Docs : Cardinality(Slots(b.ref[d], t)) \in Nat
  BY <1>1, SlotsFinite
<1>4. [t \in Docs |-> b.leaked[t] + Cardinality(Slots(b.ref[d], t))] \in [Docs -> Nat]
  BY <1>1, <1>3
<1>5. \A row \in Rows, counts \in [Docs -> Nat] : WriteRow(b, d, row, counts) \in Tables
  BY DEF WriteRow, Tables
<1>6. \A s \in {"live", "trash"} : [b EXCEPT !.state[d] = s] \in Tables
  BY DEF Tables
<1>7. HardDelete(b, d) \in Tables
  BY <1>1, <1>2 DEF HardDelete, RemoveRow, Tables
<1>8. [RemoveRow(b, d) EXCEPT
         !.leaked = [t \in Docs |-> @[t] + Cardinality(Slots(b.ref[d], t))]] \in Tables
  BY <1>1, <1>4 DEF RemoveRow, Tables
<1> QED
  BY <1>5, <1>6, <1>7, <1>8

\* The steps of a delete keep the stack a stack of deletes.
LEMMA StackType ==
    ASSUME NEW s \in Seq([doc : Docs, lua : BOOLEAN])
    PROVE  /\ \A d \in Docs, lua \in BOOLEAN :
                 Append(s, [doc |-> d, lua |-> lua]) \in Seq([doc : Docs, lua : BOOLEAN])
           /\ s # <<>> => /\ s[Len(s)] \in [doc : Docs, lua : BOOLEAN]
                          /\ SubSeq(s, 1, Len(s) - 1) \in Seq([doc : Docs, lua : BOOLEAN])
<1> DEFINE R == [doc : Docs, lua : BOOLEAN]
<1>1. \A d \in Docs, lua \in BOOLEAN : [doc |-> d, lua |-> lua] \in R
  OBVIOUS
<1>2. s \in Seq(R)
  OBVIOUS
<1> HIDE DEF R
<1>3. \A r \in R : Append(s, r) \in Seq(R)
  BY <1>2
<1>4. s # <<>> => s[Len(s)] \in R /\ SubSeq(s, 1, Len(s) - 1) \in Seq(R)
  BY <1>2
<1> QED
  BY <1>1, <1>3, <1>4 DEF R

\* The elements of the stack are deletes of documents.
LEMMA StackDocs ==
    ASSUME NEW s \in Seq([doc : Docs, lua : BOOLEAN]), NEW i \in 1..Len(s)
    PROVE  s[i].doc \in Docs
<1> DEFINE R == [doc : Docs, lua : BOOLEAN]
<1>1. \A r \in R : r.doc \in Docs
  OBVIOUS
<1>2. s \in Seq(R)
  OBVIOUS
<1> HIDE DEF R
<1>3. s[i] \in R
  BY <1>2
<1> QED
  BY <1>1, <1>3

\* Init and every step keep the types.
LEMMA TypeInit == Init => RefTypeOK
<1>1. EmptyRow \in Rows
  BY DEF EmptyRow, Rows, Targets
<1>2. <<>> \in Seq([doc : Docs, lua : BOOLEAN])
  OBVIOUS
<1>3. EmptyTables \in Tables
  BY <1>1 DEF Tables, EmptyTables
<1>4. 0 \in Nat /\ FALSE \in BOOLEAN
  OBVIOUS
<1> QED
  BY <1>2, <1>3, <1>4, Zenon DEF Init, RefTypeOK

LEMMA TypeStep == RefTypeOK /\ [RefNext]_vars => RefTypeOK'
<1> SUFFICES ASSUME RefTypeOK, [RefNext]_vars PROVE RefTypeOK'
  OBVIOUS
<1>1. CASE UNCHANGED vars
  BY <1>1 DEF RefTypeOK, vars
<1>2. CASE Begin
  BY <1>2 DEF RefTypeOK, Begin
<1>3. CASE Commit
  BY <1>3 DEF RefTypeOK, Commit
<1>4. CASE Rollback \/ Crash
  <2>1. <<>> \in Seq([doc : Docs, lua : BOOLEAN])
    OBVIOUS
  <2>2. /\ db' = saved /\ open' = FALSE /\ ops' = 0 /\ deleting' = <<>>
        /\ pending' = {} /\ saved' = saved
    BY <1>4 DEF Rollback, Crash, Undo
  <2>3. files' \subseteq files /\ todo' \subseteq todo
    BY <1>4 DEF Rollback, Crash
  <2> QED
    BY <2>1, <2>2, <2>3 DEF RefTypeOK
<1>5. CASE DeleteRow
  <2> DEFINE top == deleting[Len(deleting)]
  <2>1. /\ top \in [doc : Docs, lua : BOOLEAN]
        /\ deleting' \in Seq([doc : Docs, lua : BOOLEAN])
    BY <1>5, StackType DEF DeleteRow, RefTypeOK
  <2>2. top.doc \in Docs
    BY <2>1
  <2>3. db' \in Tables
    BY <1>5, <2>2, TablesType DEF DeleteRow, RefTypeOK
  <2>4. files' \subseteq Docs /\ pending' \subseteq Docs
    BY <1>5, <2>2 DEF DeleteRow, RefTypeOK
  <2>5. UNCHANGED <<saved, open, ops, todo>>
    BY <1>5 DEF DeleteRow
  <2> QED
    BY <2>1, <2>3, <2>4, <2>5 DEF RefTypeOK
<1>6. ASSUME NEW d \in Docs, Write(d) PROVE RefTypeOK'
  <2>1. ASSUME NEW row \in Rows, persist_create(d, row) PROVE RefTypeOK'
    <3>1. compute_refs_from_data(row) \in Rows /\ EmptyRow \in Rows
      BY DEF compute_refs_from_data, Rows, Targets, EmptyRow
    <3>2. apply_deltas(db, EmptyRow, compute_refs_from_data(row)) \in [Docs -> Nat]
      BY <3>1, DeltasType DEF RefTypeOK
    <3>3. db' \in Tables
      BY <2>1, <3>2, TablesType DEF persist_create, RefTypeOK
    <3> QED
      BY <2>1, <3>3 DEF persist_create, Op, RefTypeOK
  <2>2. ASSUME NEW row \in Rows, persist_update(d, row) PROVE RefTypeOK'
    <3>1. db.ref[d] \in Rows
      BY DEF RefTypeOK, Tables
    <3>2. apply_deltas(db, db.ref[d], row) \in [Docs -> Nat]
      BY <3>1, DeltasType DEF RefTypeOK
    <3>3. db' \in Tables
      BY <2>2, <3>2, TablesType DEF persist_update, RefTypeOK
    <3> QED
      BY <2>2, <3>3 DEF persist_update, Op, RefTypeOK
  <2>3. CASE soft_delete(d)
    <3>1. db' \in Tables
      BY <2>3, TablesType DEF soft_delete, RefTypeOK
    <3> QED
      BY <2>3, <3>1 DEF soft_delete, Op, RefTypeOK
  <2>4. CASE undelete_document(d)
    <3>1. db' \in Tables
      BY <2>4, TablesType DEF undelete_document, RefTypeOK
    <3> QED
      BY <2>4, <3>1 DEF undelete_document, Op, RefTypeOK
  <2>5. ASSUME NEW lua \in BOOLEAN, CheckDelete(d, lua) PROVE RefTypeOK'
    <3>1. deleting' \in Seq([doc : Docs, lua : BOOLEAN])
      BY <2>5, StackType DEF CheckDelete, RefTypeOK
    <3> QED
      BY <2>5, <3>1 DEF CheckDelete, Op, RefTypeOK
  <2> QED
    BY <1>6, <2>1, <2>2, <2>3, <2>4, <2>5 DEF Write
<1>7. ASSUME NEW d \in Docs, delete_upload_files(d) PROVE RefTypeOK'
  BY <1>7 DEF delete_upload_files, RefTypeOK
<1>8. ASSUME NEW d \in Docs, NEW fails \in BOOLEAN, purge_documents(d, fails)
      PROVE  RefTypeOK'
  <2>1. db' \in Tables
    BY <1>8, TablesType DEF purge_documents, RefTypeOK
  <2> QED
    BY <1>8, <2>1 DEF purge_documents, RefTypeOK
<1> QED
  BY <1>1, <1>2, <1>3, <1>4, <1>5, <1>6, <1>7, <1>8 DEF RefNext, Undone, Proceed

\* Every variable keeps its type: in particular no write of the service
\* layer or of the CLI brings _ref_count below zero.
THEOREM RefTypeCorrect == Spec => []RefTypeOK
BY TypeInit, TypeStep, PTL DEF Spec

-----------------------------------------------------------------------------
\* The counts and the references, when no slot is localized.

\* A count of zero stays zero unless the new row holds the document.
LEMMA ZeroStays ==
    ASSUME NEW b \in Tables, NEW old \in Rows, NEW new \in Rows, NEW t \in Docs,
           b.count[t] = 0, Slots(new, t) = {}
    PROVE  apply_deltas(b, old, new)[t] = 0
<1>1. Cardinality(Slots(new, t)) = 0
  BY FS_EmptySet
<1>2. Cardinality(Slots(old, t)) \in Nat
  BY SlotsFinite
<1> QED
  BY <1>1, <1>2 DEF apply_deltas, Clamp, to_delta_map

\* Without localized slots a create counts what it writes.
LEMMA CountsWhatItWrites ==
    ASSUME Localized = {}, NEW row \in Rows
    PROVE  compute_refs_from_data(row) = row
BY DEF compute_refs_from_data, Rows

\* The tables of an empty database are good.
LEMMA GoodInit == Good(EmptyTables)
<1>1. EmptyRow \in Rows
  BY DEF EmptyRow, Rows, Targets
<1>2. EmptyTables \in Tables
  BY <1>1 DEF Tables, EmptyTables
<1>3. RowsEmpty(EmptyTables) /\ ForcedGone(EmptyTables) /\ Fresh(EmptyTables)
  BY DEF RowsEmpty, ForcedGone, Fresh, EmptyTables
<1>4. Accounted(EmptyTables)
  BY DEF Accounted, Stored, EmptyTables
<1>5. LeadsSomewhere(EmptyTables)
  BY DEF LeadsSomewhere, EmptyTables, EmptyRow
<1> QED
  BY <1>2, <1>3, <1>4, <1>5 DEF Good

\* Every step keeps the tables good, and what the transaction saved.
LEMMA RefStep ==
    ASSUME Localized = {}, RefInv, [RefNext]_vars
    PROVE  RefInv'
<1>1. RefTypeOK'
  BY TypeStep DEF RefInv
<1>2. CASE UNCHANGED vars
  BY <1>1, <1>2 DEF RefInv, vars
<1>3. CASE Begin \/ Commit
  BY <1>1, <1>3 DEF RefInv, Begin, Commit
<1>4. CASE Rollback \/ Crash
  <2>1. db' = saved /\ saved' = saved /\ deleting' = <<>>
    BY <1>4 DEF Rollback, Crash, Undo
  <2> QED
    BY <1>1, <2>1 DEF RefInv
<1>5. CASE DeleteRow
  <2> DEFINE d == deleting[Len(deleting)].doc
  <2>1. d \in Docs
    BY <1>5, StackType DEF DeleteRow, RefInv, RefTypeOK
  <2>2. Stored(db, d) /\ db' = HardDelete(db, d)
    BY <1>5 DEF DeleteRow
  <2>3. Good(db')
    BY <2>1, <2>2, HardDeleteGood DEF RefInv
  <2>4. saved' = saved /\ open' = open
    BY <1>5 DEF DeleteRow
  <2>5. open
    BY <1>5 DEF DeleteRow, RefInv
  <2> QED
    BY <1>1, <2>3, <2>4, <2>5 DEF RefInv
<1>6. ASSUME NEW d \in Docs, Write(d) PROVE RefInv'
  <2>1. open /\ open' = open /\ saved' = saved
    BY <1>6, Zenon DEF Write, persist_create, persist_update, soft_delete,
                       undelete_document, CheckDelete, Op
  <2>2. ASSUME NEW row \in Rows, persist_create(d, row) PROVE Good(db')
    <3>1. db.ref[d] = EmptyRow
      BY <2>2 DEF persist_create, RefInv, Good, RowsEmpty, Stored
    <3>2. compute_refs_from_data(row) = row
      BY CountsWhatItWrites
    <3>3. CanApply(db, db.ref[d], row)
      BY <2>2, <3>1, <3>2 DEF persist_create
    <3>4. db' = WriteRow(db, d, row, apply_deltas(db, db.ref[d], row))
      BY <2>2, <3>1, <3>2 DEF persist_create
    <3>5. db.state[d] = "absent" /\ Slots(row, d) = {}
      BY <2>2 DEF persist_create
    <3> QED
      BY <3>3, <3>4, <3>5, WriteGood DEF RefInv
  <2>3. ASSUME NEW row \in Rows, persist_update(d, row) PROVE Good(db')
    BY <2>3, WriteGood DEF persist_update, RefInv
  <2>4. ASSUME soft_delete(d) PROVE Good(db')
    BY <2>4, MoveGood DEF soft_delete, RefInv, Stored
  <2>5. ASSUME undelete_document(d) PROVE Good(db')
    BY <2>5, MoveGood DEF undelete_document, RefInv, Stored
  <2>6. ASSUME NEW lua \in BOOLEAN, CheckDelete(d, lua) PROVE Good(db')
    BY <2>6 DEF CheckDelete, RefInv
  <2>7. Good(db')
    BY <1>6, <2>2, <2>3, <2>4, <2>5, <2>6 DEF Write
  <2> QED
    BY <1>1, <2>1, <2>7 DEF RefInv
<1>7. ASSUME NEW d \in Docs, delete_upload_files(d) PROVE RefInv'
  BY <1>1, <1>7 DEF delete_upload_files, RefInv
<1>8. ASSUME NEW d \in Docs, NEW fails \in BOOLEAN, purge_documents(d, fails)
      PROVE  RefInv'
  <2>1. Good(db')
    <3>1. CASE fails
      BY <1>8, <3>1 DEF purge_documents, RefInv
    <3>2. CASE ~fails
      BY <1>8, <3>2, CliGood DEF purge_documents, RefInv, Stored
    <3> QED
      BY <3>1, <3>2
  <2>2. saved' = db' /\ deleting' = <<>>
    BY <1>8 DEF purge_documents, RefInv
  <2> QED
    BY <1>1, <2>1, <2>2 DEF RefInv
<1> QED
  BY <1>2, <1>3, <1>4, <1>5, <1>6, <1>7, <1>8 DEF RefNext, Undone, Proceed

\* The inductive invariant: the tables are good, in the open transaction and
\* as committed, through rollbacks and crashes.
THEOREM TablesGood == ASSUME Localized = {} PROVE Spec => []RefInv
<1>1. Init => RefInv
  BY TypeInit, GoodInit DEF Init, RefInv
<1>2. RefInv /\ [RefNext]_vars => RefInv'
  BY RefStep
<1> QED
  BY <1>1, <1>2, PTL DEF Spec

\* Every stored document is counted exactly as often as it is referenced, up
\* to the references that the CLI purge dropped.
THEOREM CountsTheorem == ASSUME Localized = {} PROVE Spec => []CountsAccounted
<1>1. RefInv => CountsAccounted
  BY DEF RefInv, Good, CountsAccounted
<1> QED
  BY <1>1, TablesGood, PTL

\* Every reference leads to a stored document or to one that was deleted
\* although it was counted as referenced.
THEOREM DanglingTheorem == ASSUME Localized = {} PROVE Spec => []DanglingIsForced
<1>1. RefInv => DanglingIsForced
  BY DEF RefInv, Good, DanglingIsForced
<1> QED
  BY <1>1, TablesGood, PTL

-----------------------------------------------------------------------------
\* Without the CLI purge and without hooks that refer to a document being
\* deleted, what the check of a delete has read stays true.

StackFree == \A i \in 1..Len(deleting) : db.count[deleting[i].doc] = 0

FreeInv == RefInv /\ StackFree /\ db.forced = {} /\ saved.forced = {}

\* A write keeps the counts of the documents on the stack at zero.
LEMMA StackFreeWrite ==
    ASSUME RefTypeOK, StackFree, "hook_ref" \notin Uses, NEW old \in Rows, NEW row \in Rows,
           HookRefs(row), db'.count = apply_deltas(db, old, row), deleting' = deleting
    PROVE  StackFree'
<1> SUFFICES ASSUME NEW i \in 1..Len(deleting) PROVE db'.count[deleting[i].doc] = 0
  BY DEF StackFree
<1>1. deleting[i].doc \in Docs
  BY StackDocs DEF RefTypeOK
<1>2. Slots(row, deleting[i].doc) = {} /\ db.count[deleting[i].doc] = 0
  BY DEF HookRefs, StackFree
<1>3. apply_deltas(db, old, row)[deleting[i].doc] = 0
  BY <1>1, <1>2, ZeroStays DEF RefTypeOK
<1> QED
  BY <1>3

\* Every step of such a deployment keeps FreeInv.
LEMMA FreeStep ==
    ASSUME Localized = {}, "cli" \notin Uses, "hook_ref" \notin Uses,
           FreeInv, [RefNext]_vars
    PROVE  FreeInv'
<1>1. RefInv'
  BY RefStep DEF FreeInv
<1>2. RefTypeOK /\ db \in Tables
  BY DEF FreeInv, RefInv, RefTypeOK
<1>3. CASE UNCHANGED vars
  BY <1>1, <1>3 DEF FreeInv, StackFree, vars
<1>4. CASE Begin \/ Commit
  BY <1>1, <1>4 DEF FreeInv, StackFree, Begin, Commit
<1>5. CASE Rollback \/ Crash
  <2>1. db' = saved /\ saved' = saved /\ deleting' = <<>>
    BY <1>5 DEF Rollback, Crash, Undo
  <2> QED
    BY <1>1, <2>1 DEF FreeInv, StackFree
<1>6. CASE DeleteRow
  <2> DEFINE n == Len(deleting)
             d == deleting[n].doc
  <2>1. /\ n \in Nat /\ n > 0 /\ d \in Docs
        /\ deleting' = SubSeq(deleting, 1, n - 1)
        /\ db' = HardDelete(db, d) /\ saved' = saved
    <3>1. n \in Nat /\ n > 0
      BY <1>2, <1>6 DEF DeleteRow, RefTypeOK
    <3>2. n \in 1..Len(deleting)
      BY <3>1
    <3>3. d \in Docs
      BY <1>2, <3>2, StackDocs DEF RefTypeOK
    <3> QED
      BY <1>6, <3>1, <3>3 DEF DeleteRow
  <2>2. db.count[d] = 0
    BY <2>1 DEF FreeInv, StackFree
  <2>3. /\ db.ref[d] \in Rows /\ EmptyRow \in Rows
        /\ apply_deltas(db, db.ref[d], EmptyRow) \in [Docs -> Nat]
    BY <1>2, <2>1, EmptySlots, DeltasType DEF Tables
  <2>4. db'.count = apply_deltas(db, db.ref[d], EmptyRow) /\ db'.forced = db.forced
    BY <1>2, <2>1, <2>2 DEF HardDelete, RemoveRow, Tables
  <2>5. StackFree'
    <3> SUFFICES ASSUME NEW i \in 1..Len(deleting') PROVE db'.count[deleting'[i].doc] = 0
      BY DEF StackFree
    <3>1. i \in 1..n /\ deleting'[i] = deleting[i]
      BY <1>2, <2>1 DEF RefTypeOK
    <3>2. deleting[i].doc \in Docs /\ db.count[deleting[i].doc] = 0
      BY <1>2, <3>1, StackDocs DEF FreeInv, StackFree, RefTypeOK
    <3>3. apply_deltas(db, db.ref[d], EmptyRow)[deleting[i].doc] = 0
      BY <1>2, <2>3, <3>2, EmptySlots, ZeroStays
    <3> QED
      BY <2>4, <3>1, <3>3
  <2> QED
    BY <1>1, <2>1, <2>4, <2>5 DEF FreeInv
<1>7. ASSUME NEW d \in Docs, Write(d) PROVE FreeInv'
  <2>1. ASSUME NEW row \in Rows, persist_create(d, row) PROVE FreeInv'
    <3>1. compute_refs_from_data(row) = row /\ EmptyRow \in Rows
      BY CountsWhatItWrites DEF EmptyRow, Rows, Targets
    <3>2. /\ db' = WriteRow(db, d, row, apply_deltas(db, EmptyRow, row))
          /\ HookRefs(row) /\ deleting' = deleting /\ saved' = saved
      BY <2>1, <3>1 DEF persist_create
    <3>3. db'.count = apply_deltas(db, EmptyRow, row) /\ db'.forced = db.forced
      BY <1>2, <3>2 DEF WriteRow, Tables
    <3> QED
      BY <1>1, <1>2, <3>1, <3>2, <3>3, StackFreeWrite DEF FreeInv
  <2>2. ASSUME NEW row \in Rows, persist_update(d, row) PROVE FreeInv'
    <3>1. db.ref[d] \in Rows
      BY <1>2 DEF Tables
    <3>2. /\ db' = WriteRow(db, d, row, apply_deltas(db, db.ref[d], row))
          /\ HookRefs(row) /\ deleting' = deleting /\ saved' = saved
      BY <2>2 DEF persist_update
    <3>3. db'.count = apply_deltas(db, db.ref[d], row) /\ db'.forced = db.forced
      BY <1>2, <3>2 DEF WriteRow, Tables
    <3> QED
      BY <1>1, <1>2, <3>1, <3>2, <3>3, StackFreeWrite DEF FreeInv
  <2>3. ASSUME soft_delete(d) \/ undelete_document(d) PROVE FreeInv'
    <3>1. /\ db'.count = db.count /\ db'.forced = db.forced
          /\ deleting' = deleting /\ saved' = saved
      BY <1>2, <2>3 DEF soft_delete, undelete_document, Tables
    <3> QED
      BY <1>1, <3>1 DEF FreeInv, StackFree
  <2>4. ASSUME NEW lua \in BOOLEAN, CheckDelete(d, lua) PROVE FreeInv'
    <3>1. /\ db' = db /\ saved' = saved /\ db.count[d] = 0
          /\ deleting' = Append(deleting, [doc |-> d, lua |-> lua])
      BY <2>4 DEF CheckDelete, Unreferenced
    <3>2. deleting \in Seq([doc : Docs, lua : BOOLEAN])
      BY <1>2 DEF RefTypeOK
    <3>3. \A i \in 1..Len(deleting') : db.count[deleting'[i].doc] = 0
      <4> SUFFICES ASSUME NEW i \in 1..Len(deleting')
                   PROVE  db.count[deleting'[i].doc] = 0
        OBVIOUS
      <4>1. CASE i \in 1..Len(deleting)
        BY <3>1, <3>2, <4>1 DEF FreeInv, StackFree
      <4>2. CASE i \notin 1..Len(deleting)
        BY <3>1, <3>2, <4>2
      <4> QED
        BY <4>1, <4>2
    <3> QED
      BY <1>1, <3>1, <3>3 DEF FreeInv, StackFree
  <2> QED
    BY <1>7, <2>1, <2>2, <2>3, <2>4 DEF Write
<1>8. ASSUME NEW d \in Docs, delete_upload_files(d) PROVE FreeInv'
  BY <1>1, <1>8 DEF delete_upload_files, FreeInv, StackFree
<1>9. ASSUME NEW d \in Docs, NEW fails \in BOOLEAN, purge_documents(d, fails)
      PROVE  FreeInv'
  BY <1>9 DEF purge_documents
<1> QED
  BY <1>3, <1>4, <1>5, <1>6, <1>7, <1>8, <1>9 DEF RefNext, Undone, Proceed

\* Delete protection as it is documented: a document that is referenced is
\* never deleted, so no reference dangles, whatever the transactions, their
\* nested hooks, rollbacks and crashes - as long as no slot is localized, the
\* CLI purge is not used, and no hook refers to the document being deleted.
THEOREM NoDanglingTheorem ==
    ASSUME Localized = {}, "cli" \notin Uses, "hook_ref" \notin Uses
    PROVE  Spec => []NoDangling
<1>1. Init => FreeInv
  <2>1. Init => RefInv
    BY TypeInit, GoodInit DEF Init, RefInv
  <2> QED
    BY <2>1 DEF Init, FreeInv, StackFree, EmptyTables
<1>2. FreeInv /\ [RefNext]_vars => FreeInv'
  BY FreeStep
<1>3. FreeInv => NoDangling
  BY DEF FreeInv, RefInv, Good, LeadsSomewhere, NoDangling
<1> QED
  BY <1>1, <1>2, <1>3, PTL DEF Spec

-----------------------------------------------------------------------------
\* The files of committed documents, beside the retention purge.

Purges == [pc : {"idle", "row", "read", "decrement", "delete"}, ids : SUBSET Docs,
           id : Targets, old : Rows, uploads : SUBSET Docs]

PurgeType ==
    /\ expired \subseteq Docs /\ kept \subseteq Docs
    /\ purge \in Purges
    /\ purge.pc \in {"read", "decrement", "delete"} => purge.id \in Docs

Gone(b, D) == \A d \in D : b.state[d] = "gone"

\* No delete on the stack was called from Lua.
NoLua(stack) == \A i \in 1..Len(stack) : ~stack[i].lua

\* What a transaction sees stored, and what is committed, has its files;
\* what will lose them is gone, and what is gone stays so.
FilesInv ==
    /\ RefTypeOK /\ PurgeType
    /\ ~open => saved = db /\ deleting = <<>> /\ pending = {}
    /\ NoLua(deleting)
    /\ \A d \in Docs : Stored(db, d) \/ Stored(saved, d) => d \in files
    /\ \A d \in Docs : saved.state[d] = "gone" => db.state[d] = "gone"
    /\ Gone(db, pending) /\ Gone(saved, todo) /\ Gone(saved, purge.uploads)

\* What the writes do to the states of the documents.
LEMMA StateOf ==
    ASSUME NEW b \in Tables, NEW d \in Docs
    PROVE  /\ \A s : [b EXCEPT !.state[d] = s].state = [b.state EXCEPT ![d] = s]
           /\ RemoveRow(b, d).state = [b.state EXCEPT ![d] = "gone"]
           /\ HardDelete(b, d).state = [b.state EXCEPT ![d] = "gone"]
           /\ \A counts : [b EXCEPT !.count = counts].state = b.state
BY DEF RemoveRow, HardDelete, Tables

\* An operation in the open transaction brings nothing back and makes no
\* document without its files.
LEMMA OperationKeepsFiles ==
    ASSUME FilesInv, RefTypeOK', PurgeType', open, NoLua(deleting'),
           UNCHANGED <<open, saved, todo, purge>>,
           files \subseteq files', Gone(db', pending'),
           \A d \in Docs : db.state[d] = "gone" => db'.state[d] = "gone",
           \A d \in Docs : Stored(db', d) => Stored(db, d) \/ d \in files'
    PROVE  FilesInv'
<1>1. Gone(db, pending)' /\ Gone(saved, todo)' /\ Gone(saved, purge.uploads)'
  BY DEF FilesInv, Gone
<1>2. \A d \in Docs : Stored(db, d)' \/ Stored(saved, d)' => d \in files'
  BY DEF FilesInv, Stored
<1>3. NoLua(deleting)'
  BY DEF NoLua
<1> QED
  BY <1>1, <1>2, <1>3 DEF FilesInv

\* A step of a writer keeps the files of what is committed, and of what it
\* is about to commit.
LEMMA WriterKeepsFiles ==
    ASSUME "cli" \notin Uses, "lua_delete" \notin Uses,
           FilesInv, RefNext, UNCHANGED purge, PurgeType'
    PROVE  FilesInv'
<1>1. RefTypeOK' /\ RefTypeOK /\ db \in Tables /\ saved \in Tables
  BY TypeStep DEF FilesInv, RefTypeOK
<1>2. PurgeType'
  OBVIOUS
<1>3. CASE Begin
  <2>1. saved' = db /\ open' /\ saved = db /\ UNCHANGED <<db, deleting, pending, todo, files>>
    BY <1>3 DEF Begin, FilesInv
  <2> QED
    BY <1>1, <1>2, <2>1 DEF FilesInv, Gone, NoLua, Stored
<1>4. CASE Commit
  <2>1. /\ saved' = db /\ open' = FALSE /\ pending' = {} /\ todo' = todo \cup pending
        /\ deleting = <<>> /\ UNCHANGED <<db, deleting, files>>
    BY <1>4 DEF Commit
  <2>2. todo \subseteq Docs /\ purge.uploads \subseteq Docs
    BY DEF FilesInv, RefTypeOK, PurgeType, Purges
  <2>3. Gone(db, todo) /\ Gone(db, pending) /\ Gone(db, purge.uploads)
    BY <2>2 DEF FilesInv, Gone
  <2>4. Gone(db, pending)' /\ Gone(saved, todo)' /\ Gone(saved, purge.uploads)'
    BY <2>1, <2>3 DEF Gone
  <2>5. \A d \in Docs : Stored(db, d)' \/ Stored(saved, d)' => d \in files'
    BY <2>1 DEF FilesInv, Stored
  <2>6. NoLua(deleting)'
    BY <2>1 DEF FilesInv, NoLua
  <2> QED
    BY <1>1, <1>2, <2>1, <2>4, <2>5, <2>6 DEF FilesInv
<1>5. CASE Rollback \/ Crash
  <2>1. /\ db' = saved /\ saved' = saved /\ open' = FALSE /\ pending' = {} /\ deleting' = <<>>
        /\ todo' \subseteq todo /\ (files' = files \/ files' = files \ Created)
    BY <1>5 DEF Rollback, Crash, Undo
  <2>2. \A d \in Created : ~Stored(saved, d)
    BY DEF Created, Stored
  <2>3. \A d \in Docs : Stored(saved, d) => d \in files'
    BY <2>1, <2>2 DEF FilesInv
  <2>4. Gone(db, pending)' /\ Gone(saved, todo)' /\ Gone(saved, purge.uploads)'
    BY <2>1 DEF FilesInv, Gone
  <2>5. \A d \in Docs : Stored(db, d)' \/ Stored(saved, d)' => d \in files'
    BY <2>1, <2>3 DEF Stored
  <2>6. NoLua(deleting)'
    BY <2>1 DEF NoLua
  <2> QED
    BY <1>1, <1>2, <2>1, <2>4, <2>5, <2>6 DEF FilesInv
<1>6. CASE DeleteRow
  <2> DEFINE n == Len(deleting)
             d == deleting[n].doc
  <2>1. n \in Nat /\ n > 0 /\ n \in 1..Len(deleting)
    BY <1>1, <1>6 DEF DeleteRow, RefTypeOK
  <2>2. d \in Docs
    BY <1>1, <2>1, StackDocs DEF RefTypeOK
  <2>3. ~deleting[n].lua
    BY <2>1 DEF FilesInv, NoLua
  <2>4. /\ db' = HardDelete(db, d) /\ deleting' = SubSeq(deleting, 1, n - 1)
        /\ files' = files /\ pending' = pending \cup {d}
        /\ UNCHANGED <<saved, open, todo>> /\ open
    BY <1>6, <2>3 DEF DeleteRow, FilesInv
  <2>5. db'.state = [db.state EXCEPT ![d] = "gone"]
    BY <1>1, <2>2, <2>4, StateOf
  <2>6. \A i \in 1..Len(deleting') : i \in 1..n /\ deleting'[i] = deleting[i]
    BY <1>1, <2>1, <2>4 DEF RefTypeOK
  <2>7. NoLua(deleting')
    BY <2>6 DEF NoLua, FilesInv
  <2>8. db.state \in [Docs -> {"absent", "live", "trash", "gone"}] /\ pending \subseteq Docs
    BY <1>1 DEF Tables, RefTypeOK
  <2>9. \A e \in Docs : /\ db.state[e] = "gone" => db'.state[e] = "gone"
                        /\ Stored(db', e) => Stored(db, e)
    BY <2>5, <2>8 DEF Stored
  <2>10. Gone(db', pending')
    BY <2>2, <2>4, <2>5, <2>8, <2>9 DEF Gone, FilesInv
  <2> QED
    BY <1>1, <2>4, <2>7, <2>9, <2>10, OperationKeepsFiles
<1>7. ASSUME NEW d \in Docs, Write(d) PROVE FilesInv'
  <2>0. db.state \in [Docs -> {"absent", "live", "trash", "gone"}] /\ pending \subseteq Docs
    BY <1>1 DEF Tables, RefTypeOK
  <2>a. ASSUME NEW s \in {"live", "trash"}, db'.state = [db.state EXCEPT ![d] = s],
               db.state[d] # "gone", d \in files',
               files \subseteq files', open, UNCHANGED <<open, saved, todo, pending, deleting>>
        PROVE  FilesInv'
    <3>1. \A e \in Docs : /\ db.state[e] = "gone" => db'.state[e] = "gone"
                          /\ Stored(db', e) => Stored(db, e) \/ e \in files'
      BY <2>0, <2>a DEF Stored
    <3>2. Gone(db', pending') /\ NoLua(deleting')
      BY <2>0, <2>a, <3>1 DEF FilesInv, Gone
    <3> QED
      BY <1>1, <2>a, <3>1, <3>2, OperationKeepsFiles
  <2>1. ASSUME NEW row \in Rows, persist_create(d, row) PROVE FilesInv'
    <3>1. \E counts : db' = WriteRow(db, d, row, counts)
      BY <2>1 DEF persist_create
    <3>2. db'.state = [db.state EXCEPT ![d] = "live"]
      BY <1>1, <3>1 DEF WriteRow, Tables
    <3> QED
      BY <2>1, <2>a, <3>2 DEF persist_create, Op
  <2>2. ASSUME NEW row \in Rows, persist_update(d, row) PROVE FilesInv'
    <3>1. db'.state = [db.state EXCEPT ![d] = "live"]
      BY <1>1, <2>2 DEF persist_update, WriteRow, Tables
    <3>2. db.state[d] = "live" /\ d \in files
      BY <2>2 DEF persist_update, FilesInv, Stored
    <3> QED
      BY <2>2, <2>a, <3>1, <3>2 DEF persist_update, Op
  <2>3. CASE soft_delete(d)
    <3>1. db'.state = [db.state EXCEPT ![d] = "trash"]
      BY <1>1, <2>3, StateOf DEF soft_delete
    <3>2. db.state[d] = "live" /\ d \in files
      BY <2>3 DEF soft_delete, FilesInv, Stored
    <3> QED
      BY <2>3, <2>a, <3>1, <3>2 DEF soft_delete, Op
  <2>4. CASE undelete_document(d)
    <3>1. db'.state = [db.state EXCEPT ![d] = "live"]
      BY <1>1, <2>4, StateOf DEF undelete_document
    <3>2. db.state[d] = "trash" /\ d \in files
      BY <2>4 DEF undelete_document, FilesInv, Stored
    <3> QED
      BY <2>4, <2>a, <3>1, <3>2 DEF undelete_document, Op
  <2>5. ASSUME NEW lua \in BOOLEAN, CheckDelete(d, lua) PROVE FilesInv'
    <3>1. /\ deleting' = Append(deleting, [doc |-> d, lua |-> lua]) /\ ~lua /\ open
          /\ UNCHANGED <<db, saved, open, pending, todo, files>>
      BY <2>5 DEF CheckDelete, Op
    <3>2. deleting \in Seq([doc : Docs, lua : BOOLEAN])
      BY <1>1 DEF RefTypeOK
    <3>3. NoLua(deleting')
      <4> SUFFICES ASSUME NEW i \in 1..Len(deleting') PROVE ~deleting'[i].lua
        BY DEF NoLua
      <4>1. CASE i \in 1..Len(deleting)
        BY <3>1, <3>2, <4>1 DEF FilesInv, NoLua
      <4>2. CASE i \notin 1..Len(deleting)
        BY <3>1, <3>2, <4>2
      <4> QED
        BY <4>1, <4>2
    <3>4. Gone(db', pending')
      BY <3>1 DEF FilesInv
    <3> QED
      BY <1>1, <3>1, <3>3, <3>4, OperationKeepsFiles
  <2> QED
    BY <1>7, <2>1, <2>2, <2>3, <2>4, <2>5 DEF Write
<1>8. ASSUME NEW d \in Docs, delete_upload_files(d) PROVE FilesInv'
  <2>1. /\ d \in todo /\ todo' = todo \ {d} /\ files' = files \ {d}
        /\ UNCHANGED <<db, saved, open, deleting, pending>>
    BY <1>8 DEF delete_upload_files
  <2>2. saved.state[d] = "gone" /\ db.state[d] = "gone"
    BY <2>1 DEF FilesInv, Gone
  <2>3. \A e \in Docs : Stored(db, e)' \/ Stored(saved, e)' => e \in files'
    BY <2>1, <2>2 DEF FilesInv, Stored
  <2>4. Gone(db, pending)' /\ Gone(saved, todo)' /\ Gone(saved, purge.uploads)' /\ NoLua(deleting)'
    BY <2>1 DEF FilesInv, Gone, NoLua
  <2> QED
    BY <1>1, <1>2, <2>1, <2>3, <2>4 DEF FilesInv
<1>9. ASSUME NEW d \in Docs, NEW fails \in BOOLEAN, purge_documents(d, fails)
      PROVE  FilesInv'
  BY <1>9 DEF purge_documents
<1> QED
  BY <1>3, <1>4, <1>5, <1>6, <1>7, <1>8, <1>9 DEF RefNext, Undone, Proceed

\* What every statement of the purge leaves alone.
LEMMA PurgeKeeps ==
    ASSUME FilesInv, RefTypeOK', PurgeType',
           UNCHANGED <<db, saved, open, deleting, pending, todo, files>>,
           purge'.uploads \subseteq purge.uploads
    PROVE  FilesInv'
<1>1. Gone(db, pending)' /\ Gone(saved, todo)' /\ Gone(saved, purge.uploads)' /\ NoLua(deleting)'
  BY DEF FilesInv, Gone, NoLua
<1>2. \A d \in Docs : Stored(db, d)' \/ Stored(saved, d)' => d \in files'
  BY DEF FilesInv, Stored
<1> QED
  BY <1>1, <1>2 DEF FilesInv

\* A statement of the purge keeps the files of what is committed: it removes
\* those of the rows it has deleted, and a deleted row does not come back.
LEMMA PurgeKeepsFiles ==
    ASSUME FilesInv, PurgeRun \/ PurgeAborts \/ \E d \in Docs : Expire(d)
    PROVE  FilesInv'
<1>0. /\ RefTypeOK /\ db \in Tables /\ saved \in Tables /\ purge \in Purges /\ EmptyRow \in Rows
      /\ expired \subseteq Docs /\ kept \subseteq Docs /\ \A d \in Docs : db.ref[d] \in Rows
  BY DEF FilesInv, RefTypeOK, PurgeType, EmptyRow, Rows, Targets, Tables
<1>1. CASE \E d \in Docs : Expire(d)
  <2>1. UNCHANGED <<vars, purge>> /\ expired' \subseteq Docs /\ kept' \subseteq Docs
    BY <1>0, <1>1 DEF Expire
  <2> QED
    BY <2>1, PurgeKeeps DEF vars, FilesInv, RefTypeOK, PurgeType
<1>2. CASE PurgeSelect \/ PurgeRead \/ PurgeAborts \/ \E d \in Docs : PurgeCheck(d)
  <2>1. UNCHANGED <<vars, expired, kept>>
    BY <1>2 DEF PurgeSelect, PurgeRead, PurgeAborts, PurgeCheck
  <2>2. PurgeType' /\ purge'.uploads \subseteq purge.uploads
    <3>1. CASE PurgeSelect
      BY <1>0, <2>1, <3>1 DEF PurgeSelect, PurgeType, Purges
    <3>2. CASE PurgeRead
      <4>1. purge.id \in Docs
        BY <3>2 DEF PurgeRead, PurgeStep, FilesInv, PurgeType
      <4>2. db.ref[purge.id] \in Rows /\ purge' = [purge EXCEPT !.old = db.ref[purge.id], !.pc = "decrement"]
        BY <1>0, <3>2, <4>1 DEF PurgeRead
      <4>3. purge' \in Purges /\ purge'.id = purge.id /\ purge'.uploads = purge.uploads
        BY <1>0, <4>2 DEF Purges
      <4> QED
        BY <1>0, <2>1, <4>1, <4>3 DEF PurgeType
    <3>3. CASE PurgeAborts
      BY <1>0, <2>1, <3>3 DEF PurgeAborts, Idle, PurgeType, Purges, Targets
    <3>4. ASSUME NEW d \in Docs, PurgeCheck(d)
          PROVE  PurgeType' /\ purge'.uploads \subseteq purge.uploads
      BY <1>0, <2>1, <3>4 DEF PurgeCheck, PurgeStep, PurgeType, Purges, Targets
    <3> QED
      BY <1>2, <3>1, <3>2, <3>3, <3>4
  <2> QED
    BY <2>1, <2>2, PurgeKeeps DEF vars, FilesInv, RefTypeOK
<1>3. CASE PurgeDecrement
  <2>1. /\ db' = [db EXCEPT !.count = apply_deltas(db, purge.old, EmptyRow)] /\ saved' = db'
        /\ ~open /\ purge' = [purge EXCEPT !.pc = "delete"] /\ purge.id \in Docs
        /\ UNCHANGED <<open, ops, deleting, pending, todo, files, expired, kept>>
    BY <1>3 DEF PurgeDecrement, PurgeStep, FilesInv, PurgeType
  <2>2. purge.old \in Rows
    BY <1>0 DEF Purges
  <2>3. apply_deltas(db, purge.old, EmptyRow) \in [Docs -> Nat]
    BY <1>0, <2>2, DeltasType
  <2>4. db' \in Tables /\ db'.state = db.state /\ saved = db
    BY <1>0, <2>1, <2>3 DEF Tables, FilesInv
  <2>5. RefTypeOK' /\ PurgeType' /\ purge'.uploads = purge.uploads
    BY <1>0, <2>1, <2>4 DEF RefTypeOK, PurgeType, Purges
  <2>6. Gone(db, pending)' /\ Gone(saved, todo)' /\ Gone(saved, purge.uploads)' /\ NoLua(deleting)'
    BY <2>1, <2>4, <2>5 DEF FilesInv, Gone, NoLua
  <2>7. \A d \in Docs : Stored(db, d)' \/ Stored(saved, d)' => d \in files'
    BY <2>1, <2>4 DEF FilesInv, Stored
  <2> QED
    BY <2>1, <2>5, <2>6, <2>7 DEF FilesInv
<1>4. CASE PurgeDelete
  <2> DEFINE d == purge.id
  <2>1. /\ db' = (IF Stored(db, d) THEN RemoveRow(db, d) ELSE db) /\ saved' = db'
        /\ purge' = [purge EXCEPT !.uploads = IF Stored(db, d) THEN @ \cup {d} ELSE @,
                                  !.id = None, !.old = EmptyRow, !.pc = "row"]
        /\ ~open /\ d \in Docs /\ saved = db
        /\ UNCHANGED <<open, ops, deleting, pending, todo, files, expired, kept>>
    BY <1>4 DEF PurgeDelete, PurgeStep, FilesInv, PurgeType
  <2>2. db' \in Tables
    BY <1>0, <2>1 DEF RemoveRow, Tables
  <2>3. RefTypeOK' /\ PurgeType'
    BY <1>0, <2>1, <2>2 DEF RefTypeOK, PurgeType, Purges, Targets
  <2>4. db.state \in [Docs -> {"absent", "live", "trash", "gone"}]
    BY <1>0 DEF Tables
  <2>5. /\ \A e \in Docs : db.state[e] = "gone" => db'.state[e] = "gone"
        /\ \A e \in Docs : Stored(db', e) => Stored(db, e)
        /\ Stored(db, d) => db'.state[d] = "gone"
    <3>1. CASE Stored(db, d)
      <4>1. db' = RemoveRow(db, d)
        BY <2>1, <3>1
      <4>2. db'.state = [db.state EXCEPT ![d] = "gone"]
        BY <1>0, <2>1, <4>1 DEF RemoveRow, Tables
      <4> QED
        BY <2>1, <2>4, <4>2 DEF Stored
    <3>2. CASE ~Stored(db, d)
      BY <2>1, <3>2
    <3> QED
      BY <3>1, <3>2
  <2>6. /\ purge'.uploads \subseteq purge.uploads \cup {d}
        /\ ~Stored(db, d) => purge'.uploads = purge.uploads
    BY <1>0, <2>1 DEF Purges
  <2>7. pending \subseteq Docs /\ todo \subseteq Docs /\ purge.uploads \subseteq Docs
    BY <1>0 DEF RefTypeOK, Purges
  <2>8. Gone(db', purge'.uploads) /\ Gone(db', pending) /\ Gone(db', todo)
    BY <2>1, <2>5, <2>6, <2>7 DEF Gone, FilesInv
  <2>9. Gone(db, pending)' /\ Gone(saved, todo)' /\ Gone(saved, purge.uploads)' /\ NoLua(deleting)'
    BY <2>1, <2>8 DEF FilesInv, Gone, NoLua
  <2>10. \A e \in Docs : Stored(db, e)' \/ Stored(saved, e)' => e \in files'
    BY <2>1, <2>5 DEF FilesInv, Stored
  <2> QED
    BY <2>1, <2>3, <2>9, <2>10 DEF FilesInv
<1>5. CASE PurgeFiles
  <2>1. /\ purge' = Idle /\ files' = files \ purge.uploads
        /\ UNCHANGED <<db, saved, open, ops, deleting, pending, todo, expired, kept>>
    BY <1>5 DEF PurgeFiles
  <2>2. RefTypeOK' /\ PurgeType' /\ purge'.uploads = {}
    BY <1>0, <2>1 DEF RefTypeOK, PurgeType, Purges, Idle, Targets
  <2>3. \A d \in purge.uploads : d \in Docs /\ saved.state[d] = "gone" /\ db.state[d] = "gone"
    BY <1>0 DEF FilesInv, Gone, Purges
  <2>4. \A d \in Docs : Stored(db, d)' \/ Stored(saved, d)' => d \in files'
    BY <2>1, <2>3 DEF FilesInv, Stored
  <2>5. Gone(db, pending)' /\ Gone(saved, todo)' /\ Gone(saved, purge.uploads)' /\ NoLua(deleting)'
    BY <2>1, <2>2 DEF FilesInv, Gone, NoLua
  <2> QED
    BY <2>1, <2>2, <2>4, <2>5 DEF FilesInv
<1> QED
  BY <1>1, <1>2, <1>3, <1>4, <1>5 DEF PurgeRun

\* Every step of the writers and of the purge keeps FilesInv.
LEMMA FilesStep ==
    ASSUME "cli" \notin Uses, "lua_delete" \notin Uses, FilesInv, [PurgeNext]_allVars
    PROVE  FilesInv'
<1>1. CASE UNCHANGED allVars
  <2>1. UNCHANGED <<db, saved, open, ops, deleting, pending, todo, files, expired, kept, purge>>
    BY <1>1 DEF allVars, vars, purgeVars
  <2> QED
    BY <2>1, PurgeKeeps DEF FilesInv, RefTypeOK, PurgeType
<1>2. CASE WriterStep
  <2>1. PurgeType'
    BY <1>2 DEF WriterStep, FilesInv, PurgeType
  <2> QED
    BY <1>2, <2>1, WriterKeepsFiles DEF WriterStep, RefNext
<1> QED
  BY <1>1, <1>2, PurgeKeepsFiles DEF PurgeNext

\* Files are removed after the transaction that deletes their document,
\* never before: whatever rollbacks, crashes, aborted purges and restores
\* from the trash interleave, a committed document has its files - as long as
\* neither the CLI purge nor a delete called from Lua is used.
THEOREM FilesKeptTheorem ==
    ASSUME "cli" \notin Uses, "lua_delete" \notin Uses
    PROVE  PurgeSpec => []FilesKept
<1>1. PurgeInit => FilesInv
  <2> SUFFICES ASSUME PurgeInit PROVE FilesInv
    OBVIOUS
  <2>1. RefTypeOK /\ Init
    BY TypeInit DEF PurgeInit
  <2>2. PurgeType
    BY EmptySlots DEF PurgeInit, PurgeType, Purges, Idle, Targets, Rows, EmptyRow
  <2> QED
    BY <2>1, <2>2 DEF PurgeInit, Init, FilesInv, NoLua, Gone, Stored, EmptyTables, Idle
<1>2. FilesInv /\ [PurgeNext]_allVars => FilesInv'
  BY FilesStep
<1>3. FilesInv => FilesKept
  BY DEF FilesInv, FilesKept, Committed
<1> QED
  BY <1>1, <1>2, <1>3, PTL DEF PurgeSpec

=============================================================================
