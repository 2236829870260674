----------------------------- MODULE AuditProofs -----------------------------
(***************************************************************************)
(* What `logyctl verify' and `logyctl events' report, for any number of    *)
(* rows, keys and rotations and any row limit.  The lemmas of the first    *)
(* part say what the queries of the store and VerifyChain make of rows     *)
(* that form a chain, and of rows of which two have one index; the         *)
(* invariants of LedgerProofs and RunProofs say which rows a run has.      *)
(***************************************************************************)
EXTENDS Audit, RunProofs, FiniteSetTheorems

-----------------------------------------------------------------------------
\* What the queries and VerifyChain return, for any rows.

(* A sequence of rows.                                                      *)
LEMMA RowAt ==
  ASSUME NEW rows \in Seq(Row)
  PROVE  /\ Len(rows) \in Nat /\ DOMAIN rows = 1..Len(rows) /\ DOMAIN rows \subseteq Nat
         /\ \A i \in DOMAIN rows : rows[i] \in Row /\ rows[i].seq \in Nat
<1>1. Len(rows) \in Nat /\ DOMAIN rows = 1..Len(rows)
  BY LenProperties, Zenon
<1>2. DOMAIN rows \subseteq Nat
  BY <1>1, SMT
<1>3. \A i \in DOMAIN rows : rows[i] \in Row
  BY <1>1, ElementOfSeq, Zenon
<1>4. \A e \in Row : e.seq \in Nat
  BY SMT DEF Row
<1> QED BY <1>1, <1>2, <1>3, <1>4, Zenon

LEMMA CountTo ==
  ASSUME NEW n \in Nat
  PROVE  /\ IsFiniteSet(1..n) /\ Cardinality(1..n) = n
         /\ IsFiniteSet(0..(n - 1)) /\ Cardinality(0..(n - 1)) = n
<1> DEFINE c == Cardinality(1..n)
           d == Cardinality(0..(n - 1))
<1>1. /\ IsFiniteSet(1..n) /\ c = (IF 1 > n THEN 0 ELSE n - 1 + 1)
      /\ IsFiniteSet(0..(n - 1)) /\ d = (IF 0 > n - 1 THEN 0 ELSE n - 1 - 0 + 1)
  <2>1. n \in Int /\ n - 1 \in Int /\ 0 \in Int /\ 1 \in Int
    BY SMT
  <2> QED BY <2>1, FS_Interval, Zenon
<1> HIDE DEF c, d
<1>2. c = n /\ d = n
  BY <1>1, SMT
<1> QED BY <1>1, <1>2, Zenon DEF c, d

(* Indices that count up are the order of the rows already.                *)
LEMMA InOrder ==
  ASSUME NEW rows \in Seq(Row), \A i \in DOMAIN rows : rows[i].seq = i - 1
  PROVE  OrderBySeq(rows) = rows
<1>1. Len(rows) \in Nat /\ rows \in [1..Len(rows) -> Row] /\ DOMAIN rows = 1..Len(rows)
  BY LenProperties
<1>2. ASSUME NEW i \in DOMAIN rows PROVE Cardinality(Before(rows, i)) = i - 1
  <2>1. Before(rows, i) = 1..(i - 1)
    BY <1>1, SMT DEF Before
  <2>2. Cardinality(1..(i - 1)) = i - 1
    <3>1. i - 1 \in Nat
      BY <1>1, SMT
    <3> QED BY <3>1, CountTo, Zenon
  <2> QED BY <2>1, <2>2, Zenon
<1>3. ASSUME NEW n \in DOMAIN rows
      PROVE  (CHOOSE i \in DOMAIN rows : Cardinality(Before(rows, i)) = n - 1) = n
  <2> DEFINE IsAt(i) == Cardinality(Before(rows, i)) = n - 1
  <2>1. ASSUME NEW i \in DOMAIN rows PROVE IsAt(i) <=> i = n
    <3>1. i \in Int /\ n \in Int
      BY <1>1, SMT
    <3>2. i - 1 = n - 1 <=> i = n
      BY <3>1, SMT
    <3> QED BY <1>2, <3>2, Zenon
  <2> QED BY <2>1, Zenon
<1> DEFINE At(n) == rows[CHOOSE i \in DOMAIN rows : Cardinality(Before(rows, i)) = n - 1]
<1>4. \A n \in DOMAIN rows : At(n) = rows[n]
  BY <1>3, Zenon
<1>5. OrderBySeq(rows) = [n \in DOMAIN rows |-> At(n)]
  BY Zenon DEF OrderBySeq
<1> HIDE DEF At
<1>6. [n \in DOMAIN rows |-> rows[n]] = rows
  BY <1>1, Zenon
<1> QED BY <1>4, <1>5, <1>6, Zenon

(* The first rows of a sequence.                                           *)
LEMMA FirstRows ==
  ASSUME NEW rows \in Seq(Row), NEW n \in 0..Len(rows)
  PROVE  LET p == SubSeq(rows, 1, n)
         IN  p \in Seq(Row) /\ Len(p) = n /\ DOMAIN p = 1..n
               /\ \A i \in 1..n : p[i] = rows[i]
<1>1. Len(rows) \in Nat /\ n \in Int /\ n \in Nat
  BY LenProperties, SMT
<1>2. \A i \in 1..n : rows[i] \in Row
  BY <1>1, ElementOfSeq, SMT
<1> DEFINE p == SubSeq(rows, 1, n)
<1>3. /\ p \in Seq(Row) /\ Len(p) = (IF 1 <= n THEN n - 1 + 1 ELSE 0)
      /\ \A i \in 1..(n - 1 + 1) : p[i] = rows[1 + i - 1]
  BY <1>1, <1>2, SubSeqProperties, SMT
<1> HIDE DEF p
<1>4. Len(p) = n /\ \A i \in 1..n : p[i] = rows[i]
  BY <1>1, <1>3, SMT
<1>5. DOMAIN p = 1..n
  BY <1>3, <1>4, LenProperties
<1> QED BY <1>3, <1>4, <1>5 DEF p

LEMMA LeastType ==
  ASSUME NEW m \in Nat, NEW n \in Nat
  PROVE  Least(m, n) \in 0..m /\ Least(m, n) \in 0..n
           /\ (m <= n => Least(m, n) = m) /\ (m # 0 /\ n # 0 => Least(m, n) # 0)
BY SMT DEF Least

(* VerifyChain of a chain: the first key that differs is what it can find. *)
LEMMA VerifyOfChain ==
  ASSUME NEW rows \in Seq(Row), Chained(rows), NEW k
  PROVE  VerifyChain(rows, k).valid <=>
           rows # <<>> /\ \A i \in 1..Least(Len(rows), MaxEventRows) : rows[i].key = k
<1> DEFINE n   == Least(Len(rows), MaxEventRows)
           all == GetAllEvents(rows)
<1>1. Len(rows) \in Nat /\ DOMAIN rows = 1..Len(rows) /\ MaxEventRows \in Nat /\ MaxEventRows # 0
  BY LenProperties, AuditAssumption, SMT DEF AuditAssumption
<1>2. n \in 0..Len(rows) /\ (Len(rows) # 0 => n # 0)
  BY <1>1, LeastType, Zenon
<1>3. OrderBySeq(rows) = rows
  BY InOrder DEF Chained
<1>4. all = SubSeq(rows, 1, n)
  BY <1>3, Zenon DEF GetAllEvents
<1> HIDE DEF n
<1>5. all \in Seq(Row) /\ Len(all) = n /\ DOMAIN all = 1..n /\ \A i \in 1..n : all[i] = rows[i]
  BY <1>2, <1>4, FirstRows, Zenon
<1>6. all # <<>> <=> rows # <<>>
  <2>1. all # <<>> <=> n # 0
    BY <1>5, EmptySeq
  <2>2. rows # <<>> <=> Len(rows) # 0
    BY <1>1, EmptySeq
  <2> QED BY <1>1, <1>2, <2>1, <2>2, SMT
<1>7. VerifyChain(rows, k).valid <=>
        /\ all # <<>>
        /\ \A i \in DOMAIN all :
             /\ i > 1 => all[i].prev = all[i - 1].hash
             /\ VerifyEvent(all[i], k)
  BY Zenon DEF VerifyChain
<1> HIDE DEF all
<1>8. ASSUME NEW i \in 1..n
      PROVE  /\ i > 1 => all[i].prev = all[i - 1].hash
             /\ VerifyEvent(all[i], k) <=> rows[i].key = k
  <2>1. i \in DOMAIN rows /\ (i > 1 => i - 1 \in 1..n /\ i # 1)
    BY <1>1, <1>2, SMT
  <2>2. Hashed(rows[i]) /\ rows[i].prev = IF i = 1 THEN ZeroHash ELSE rows[i - 1].hash
    BY <2>1 DEF Chained
  <2>3. i > 1 => all[i - 1] = rows[i - 1] /\ i # 1
    BY <1>5, <2>1, Zenon
  <2>4. all[i] = rows[i]
    BY <1>5, Zenon
  <2> QED BY <2>2, <2>3, <2>4, Zenon DEF VerifyEvent, Hashed
<1> QED BY <1>5, <1>6, <1>7, <1>8, Zenon DEF n

LEMMA BackwardsType ==
  ASSUME NEW rows \in Seq(Row)
  PROVE  /\ Backwards(rows) \in Seq(Row) /\ Len(Backwards(rows)) = Len(rows)
         /\ \A n \in 1..Len(rows) : Backwards(rows)[n] = rows[Len(rows) + 1 - n]
<1>1. Len(rows) \in Nat /\ DOMAIN rows = 1..Len(rows)
  BY LenProperties
<1> DEFINE b == Backwards(rows)
<1>2. DOMAIN b = 1..Len(rows) /\ \A n \in 1..Len(rows) : b[n] = rows[Len(rows) + 1 - n]
  BY <1>1, Zenon DEF Backwards
<1>3. \A n \in 1..Len(rows) : Len(rows) + 1 - n \in 1..Len(rows)
  BY <1>1, SMT
<1>4. \A n \in 1..Len(rows) : b[n] \in Row
  BY <1>2, <1>3, ElementOfSeq, Zenon
<1>5. b = [n \in 1..Len(rows) |-> b[n]]
  BY <1>1, Zenon DEF Backwards
<1> HIDE DEF b
<1>6. b \in [1..Len(rows) -> Row]
  BY <1>4, <1>5, Zenon
<1>7. b \in Seq(Row)
  BY <1>1, <1>6, SeqDef, Zenon
<1>8. Len(b) = Len(rows)
  BY <1>1, <1>2, <1>7, LenProperties, SMT
<1> QED BY <1>2, <1>7, <1>8, Zenon DEF b

(* The tail of a chain, picked and turned round by `logyctl events'.       *)
LEMMA TailOfChain ==
  ASSUME NEW rows \in Seq(Row), Chained(rows), NEW limit \in 1..MaxEventRows
  PROVE  EventsCommand(rows, limit) =
           SubSeq(rows, Len(rows) + 1 - Least(Len(rows), limit), Len(rows))
<1> DEFINE l == Len(rows)
           m == Least(l, limit)
           b == Backwards(rows)
           g == SubSeq(b, 1, m)
           t == SubSeq(rows, l + 1 - m, l)
<1>1. l \in Nat /\ MaxEventRows \in Nat /\ limit \in Nat /\ limit <= MaxEventRows
  BY LenProperties, AuditAssumption, SMT DEF AuditAssumption
<1>2. m \in 0..l /\ m \in 0..limit
  BY <1>1, LeastType, Zenon
<1>3. b \in Seq(Row) /\ Len(b) = l /\ \A n \in 1..l : b[n] = rows[l + 1 - n]
  BY BackwardsType, Zenon
<1> HIDE DEF m, b, l
<1>4. Least(m, MaxEventRows) = m
  BY <1>1, <1>2, SMT DEF Least
<1>5. OrderBySeq(rows) = rows
  BY InOrder, Zenon DEF Chained
<1>6. GetRecentEvents(rows, limit) = g
  BY <1>4, <1>5, Zenon DEF GetRecentEvents, b, m, l
<1>7. g \in Seq(Row) /\ Len(g) = m /\ \A i \in 1..m : g[i] = b[i]
  BY <1>2, <1>3, FirstRows, Zenon
<1> HIDE DEF g
<1>8. /\ Backwards(g) \in Seq(Row) /\ Len(Backwards(g)) = m
      /\ \A i \in 1..m : Backwards(g)[i] = g[m + 1 - i]
  BY <1>7, BackwardsType, Zenon
<1>9. t \in Seq(Row) /\ Len(t) = m /\ \A i \in 1..m : t[i] = rows[l - m + i]
  <2>1. l + 1 - m \in Int /\ l \in Int /\ \A i \in (l + 1 - m)..l : i \in 1..l
    BY <1>1, <1>2, SMT
  <2>2. \A i \in (l + 1 - m)..l : rows[i] \in Row
    BY <2>1, ElementOfSeq, Zenon DEF l
  <2>3. /\ t \in Seq(Row)
        /\ Len(t) = IF l + 1 - m <= l THEN l - (l + 1 - m) + 1 ELSE 0
        /\ \A i \in 1..(l - (l + 1 - m) + 1) : t[i] = rows[(l + 1 - m) + i - 1]
    <3> DEFINE a == l + 1 - m
    <3>1. a \in Int /\ l \in Int /\ \A i \in a..l : rows[i] \in Row
      BY <2>1, <2>2, Zenon
    <3> HIDE DEF a
    <3>2. LET s == SubSeq(rows, a, l)
          IN  /\ s \in Seq(Row) /\ Len(s) = (IF a <= l THEN l - a + 1 ELSE 0)
              /\ \A i \in 1..(l - a + 1) : s[i] = rows[a + i - 1]
      BY <3>1, SubSeqProperties
    <3> QED BY <3>2, Zenon DEF a
  <2> HIDE DEF t
  <2>4. l - (l + 1 - m) + 1 = m /\ (IF l + 1 - m <= l THEN l - (l + 1 - m) + 1 ELSE 0) = m
    BY <1>1, <1>2, SMT
  <2>5. \A i \in 1..m : (l + 1 - m) + i - 1 = l - m + i
    BY <1>1, <1>2, SMT
  <2> QED BY <2>3, <2>4, <2>5, Zenon
<1> HIDE DEF t
<1>10. ASSUME NEW i \in 1..m PROVE Backwards(g)[i] = t[i]
  <2>1. m + 1 - i \in 1..m /\ m + 1 - i \in 1..l /\ l + 1 - (m + 1 - i) = l - m + i
    BY <1>1, <1>2, SMT
  <2> DEFINE j == m + 1 - i
  <2>2. Backwards(g)[i] = g[j]
    BY <1>8, Zenon
  <2>3. j \in 1..m /\ j \in 1..l /\ l + 1 - j = l - m + i
    BY <2>1, Zenon
  <2> HIDE DEF j
  <2>4. g[j] = b[j] /\ b[j] = rows[l + 1 - j]
    BY <1>3, <1>7, <2>3, Zenon
  <2>5. t[i] = rows[l - m + i]
    BY <1>9, Zenon
  <2> QED BY <2>2, <2>3, <2>4, <2>5, Zenon
<1>11. Backwards(g) = t
  BY <1>8, <1>9, <1>10, SeqEqual, Zenon
<1> QED BY <1>6, <1>11, Zenon DEF EventsCommand, t, l, m

-----------------------------------------------------------------------------
\* Rows in any order: the place of a row is the number of rows before it.

Place(rows, i) == Cardinality(Before(rows, i))

LEMMA PlaceType ==
  ASSUME NEW rows \in Seq(Row), NEW i \in DOMAIN rows
  PROVE  /\ IsFiniteSet(Before(rows, i)) /\ i \notin Before(rows, i)
         /\ Place(rows, i) \in 0..(Len(rows) - 1)
<1>1. Len(rows) \in Nat /\ DOMAIN rows = 1..Len(rows) /\ rows[i].seq \in Nat
  BY RowAt, Zenon
<1>2. i \notin Before(rows, i)
  BY <1>1, SMT DEF Before
<1> DEFINE D == 1..Len(rows)
           B == Before(rows, i)
           C == Cardinality(D \ {i})
<1>3. IsFiniteSet(D) /\ Cardinality(D) = Len(rows)
  BY <1>1, CountTo, Zenon
<1>4. IsFiniteSet(D \ {i}) /\ C = Len(rows) - 1
  <2>1. i \in D
    BY <1>1, Zenon
  <2> HIDE DEF D
  <2> QED BY <1>3, <2>1, FS_RemoveElement, Zenon
<1>5. B \in SUBSET (D \ {i})
  BY <1>1, <1>2, Zenon DEF Before
<1> HIDE DEF B, D, C
<1>6. IsFiniteSet(B) /\ Cardinality(B) <= C
  BY <1>4, <1>5, FS_Subset, Zenon DEF C
<1> DEFINE p == Cardinality(B)
<1>7. p \in Nat
  BY <1>6, FS_CardinalityType, Zenon
<1> HIDE DEF p
<1>8. p \in 0..(Len(rows) - 1)
  <2>1. p <= C
    BY <1>6, Zenon DEF p
  <2> QED BY <1>1, <1>4, <1>7, <2>1, SMT
<1> QED BY <1>2, <1>6, <1>8, Zenon DEF B, p, Place

LEMMA BeforeOrAfter ==
  ASSUME NEW rows \in Seq(Row), NEW i \in DOMAIN rows, NEW k \in DOMAIN rows, i # k
  PROVE  i \in Before(rows, k) \/ k \in Before(rows, i)
<1>1. DOMAIN rows \subseteq Nat /\ rows[i].seq \in Nat /\ rows[k].seq \in Nat
  BY RowAt, Zenon
<1> QED BY <1>1, SMT DEF Before

LEMMA PlaceGrows ==
  ASSUME NEW rows \in Seq(Row), NEW k \in DOMAIN rows, NEW i \in Before(rows, k)
  PROVE  /\ i \in DOMAIN rows /\ rows[i].seq <= rows[k].seq
         /\ Place(rows, i) < Place(rows, k)
<1>1. i \in DOMAIN rows
  BY Zenon DEF Before
<1>2. /\ DOMAIN rows \subseteq Nat /\ \A j \in DOMAIN rows : rows[j].seq \in Nat
  BY RowAt, Zenon
<1>3. rows[i].seq <= rows[k].seq
  BY <1>1, <1>2, SMT DEF Before
<1> DEFINE A == Before(rows, i)
           B == Before(rows, k)
<1>4. IsFiniteSet(A) /\ i \notin A /\ IsFiniteSet(B)
  BY <1>1, PlaceType, Zenon
<1>5. A \cup {i} \in SUBSET B
  <2>1. ASSUME NEW j \in A PROVE j \in B
    BY <1>1, <1>2, SMT DEF Before
  <2> QED BY <2>1, Zenon
<1> HIDE DEF A, B
<1>6. IsFiniteSet(A \cup {i}) /\ Cardinality(A \cup {i}) = Cardinality(A) + 1
  BY <1>4, FS_AddElement, Zenon
<1>7. Cardinality(A \cup {i}) <= Cardinality(B)
  BY <1>4, <1>5, FS_Subset, Zenon
<1> DEFINE a == Cardinality(A)
           b == Cardinality(B)
<1>8. a \in Nat /\ b \in Nat /\ a + 1 <= b
  <2>1. a \in Nat /\ b \in Nat
    BY <1>4, FS_CardinalityType, Zenon
  <2> QED BY <1>6, <1>7, <2>1, Zenon
<1> HIDE DEF a, b
<1>9. a < b
  BY <1>8, SMT
<1> QED BY <1>1, <1>3, <1>9, Zenon DEF Place, A, B, a, b

(* Every place is taken, by one row.                                       *)
LEMMA PlaceTaken ==
  ASSUME NEW rows \in Seq(Row)
  PROVE  /\ \A i, k \in DOMAIN rows : Place(rows, i) = Place(rows, k) => i = k
         /\ \A n \in 0..(Len(rows) - 1) : \E i \in DOMAIN rows : Place(rows, i) = n
<1>1. Len(rows) \in Nat /\ DOMAIN rows = 1..Len(rows)
  BY LenProperties
<1>2. ASSUME NEW i \in DOMAIN rows, NEW k \in DOMAIN rows, i # k
      PROVE  Place(rows, i) # Place(rows, k)
  <2>1. Place(rows, i) < Place(rows, k) \/ Place(rows, k) < Place(rows, i)
    BY <1>2, BeforeOrAfter, PlaceGrows, Zenon
  <2>2. Place(rows, i) \in 0..(Len(rows) - 1) /\ Place(rows, k) \in 0..(Len(rows) - 1)
    BY PlaceType, Zenon
  <2> DEFINE a == Place(rows, i)
             b == Place(rows, k)
  <2> HIDE DEF a, b
  <2>3. a \in Int /\ b \in Int /\ (a < b \/ b < a)
    BY <1>1, <2>1, <2>2, SMT DEF a, b
  <2>4. a # b
    BY <2>3, SMT
  <2> QED BY <2>4, Zenon DEF a, b
<1> DEFINE S == DOMAIN rows
           T == 0..(Len(rows) - 1)
           f == [i \in S |-> Place(rows, i)]
<1>3. f \in [S -> T]
  BY PlaceType, Zenon
<1>4. f \in Injection(S, T)
  BY <1>2, <1>3, Zenon DEF Injection, IsInjective
<1>5. IsFiniteSet(T) /\ Cardinality(T) = Len(rows)
  BY <1>1, CountTo, Zenon
<1>6. Cardinality(S) = Len(rows)
  BY <1>1, CountTo, Zenon
<1>7. f \in Surjection(S, T)
  <2> HIDE DEF f, S, T
  <2> QED BY <1>4, <1>5, <1>6, FS_Injection, Zenon
<1>8. \A n \in T : \E i \in S : f[i] = n
  BY <1>7, Zenon DEF Surjection
<1> QED BY <1>2, <1>8, Zenon

LEMMA OrderedAt ==
  ASSUME NEW rows \in Seq(Row), NEW i \in DOMAIN rows
  PROVE  OrderBySeq(rows)[Place(rows, i) + 1] = rows[i]
<1>1. Len(rows) \in Nat /\ DOMAIN rows = 1..Len(rows)
  BY LenProperties
<1> DEFINE p == Place(rows, i)
<1>2. p \in 0..(Len(rows) - 1)
  BY PlaceType, Zenon
<1> HIDE DEF p
<1>3. p + 1 \in DOMAIN rows /\ (p + 1) - 1 = p
  BY <1>1, <1>2, SMT
<1>4. (CHOOSE k \in DOMAIN rows : Cardinality(Before(rows, k)) = (p + 1) - 1) = i
  <2>1. \A k \in DOMAIN rows : Cardinality(Before(rows, k)) = p <=> k = i
    BY PlaceTaken, Zenon DEF Place, p
  <2> QED BY <1>3, <2>1, Zenon
<1> QED BY <1>3, <1>4, Zenon DEF OrderBySeq, p

LEMMA OrderType ==
  ASSUME NEW rows \in Seq(Row)
  PROVE  OrderBySeq(rows) \in Seq(Row) /\ Len(OrderBySeq(rows)) = Len(rows)
<1>1. Len(rows) \in Nat /\ DOMAIN rows = 1..Len(rows) /\ \A i \in DOMAIN rows : rows[i] \in Row
  BY LenProperties, ElementOfSeq, Zenon
<1> DEFINE o == OrderBySeq(rows)
<1>2. ASSUME NEW n \in DOMAIN rows
      PROVE  rows[CHOOSE i \in DOMAIN rows : Cardinality(Before(rows, i)) = n - 1] \in Row
  <2>1. n - 1 \in 0..(Len(rows) - 1)
    BY <1>1, SMT
  <2>2. \E i \in DOMAIN rows : Cardinality(Before(rows, i)) = n - 1
    BY <2>1, PlaceTaken, Zenon DEF Place
  <2> QED BY <1>1, <2>2, Zenon
<1>3. o \in [1..Len(rows) -> Row] /\ DOMAIN o = 1..Len(rows)
  <2> DEFINE At(n) == rows[CHOOSE i \in DOMAIN rows : Cardinality(Before(rows, i)) = n - 1]
  <2>1. \A n \in 1..Len(rows) : At(n) \in Row
    BY <1>1, <1>2, Zenon
  <2>2. o = [n \in 1..Len(rows) |-> At(n)]
    BY <1>1, Zenon DEF OrderBySeq
  <2> HIDE DEF At, o
  <2> QED BY <2>1, <2>2, Zenon
<1> HIDE DEF o
<1>4. o \in Seq(Row)
  BY <1>1, <1>3, SeqDef, Zenon
<1>5. Len(o) = Len(rows)
  BY <1>1, <1>3, <1>4, LenProperties, SMT
<1> QED BY <1>4, <1>5, Zenon DEF o

(* Rows whose hashes are as long as their index says do not verify when    *)
(* two have one index.                                                     *)
LEMMA ForkFound ==
  ASSUME NEW rows \in Seq(Row), Len(rows) <= MaxEventRows,
         \A x \in DOMAIN rows : /\ Len(rows[x].prev) = rows[x].seq + 1
                               /\ Len(rows[x].hash) = rows[x].seq + 2,
         NEW k,
         NEW i \in DOMAIN rows, NEW j \in DOMAIN rows, i # j, rows[i].seq = rows[j].seq
  PROVE  ~VerifyChain(rows, k).valid
<1>0. Len(rows) \in Nat /\ DOMAIN rows = 1..Len(rows)
        /\ \A n \in DOMAIN rows : rows[n].seq \in Nat
  BY RowAt, Zenon
\* One of the two comes right after a row with the same index.
<1>1. PICK u \in DOMAIN rows, v \in DOMAIN rows : u \in Before(rows, v) /\ rows[u].seq = rows[v].seq
  BY BeforeOrAfter, Zenon
<1> DEFINE n == Place(rows, v)
<1>2. n \in 0..(Len(rows) - 1) /\ Place(rows, u) \in 0..(Len(rows) - 1) /\ Place(rows, u) < n
  BY <1>1, PlaceType, PlaceGrows, Zenon
<1> DEFINE m == Place(rows, u)
<1> HIDE DEF n, m
<1>3. n \in Nat /\ m \in Nat /\ m < n /\ n - 1 \in 0..(Len(rows) - 1)
        /\ n + 1 > 1 /\ (n + 1) - 1 = (n - 1) + 1 /\ n + 1 \in 1..Len(rows)
  <2>1. m \in 0..(Len(rows) - 1) /\ m < n
    BY <1>2, Zenon DEF m
  <2> QED BY <1>0, <1>2, <2>1, SMT
<1>4. PICK w \in DOMAIN rows : Place(rows, w) = n - 1
  BY <1>3, PlaceTaken, Zenon
<1>5. rows[w].seq = rows[v].seq
  <2>1. w # v
    BY <1>3, <1>4, SMT DEF n
  <2>2. v \notin Before(rows, w)
    <3> SUFFICES ASSUME v \in Before(rows, w) PROVE FALSE
      OBVIOUS
    <3>1. n < n - 1
      BY <1>4, PlaceGrows, Zenon DEF n
    <3> QED BY <1>3, <3>1, SMT
  <2>3. rows[w].seq <= rows[v].seq
    BY <2>1, <2>2, BeforeOrAfter, PlaceGrows, Zenon
  <2>4. CASE w = u
    BY <1>1, <2>4, Zenon
  <2>5. CASE w # u
    <3>1. w \notin Before(rows, u)
      <4> SUFFICES ASSUME w \in Before(rows, u) PROVE FALSE
        OBVIOUS
      <4>1. n - 1 < m
        BY <1>4, PlaceGrows, Zenon DEF m
      <4> QED BY <1>3, <4>1, SMT
    <3>2. rows[u].seq <= rows[w].seq
      BY <2>5, <3>1, BeforeOrAfter, PlaceGrows, Zenon
    <3>3. rows[u].seq \in Nat /\ rows[w].seq \in Nat /\ rows[v].seq = rows[u].seq
      BY <1>0, <1>1, Zenon
    <3>4. \A x, y \in Nat : x <= y /\ y <= x => y = x
      BY SMT
    <3> QED BY <2>3, <3>2, <3>3, <3>4, Zenon
  <2> QED BY <2>4, <2>5, Zenon
<1> DEFINE all == GetAllEvents(rows)
<1>6. all \in Seq(Row) /\ DOMAIN all = 1..Len(rows)
        /\ \A x \in 1..Len(rows) : all[x] = OrderBySeq(rows)[x]
  <2>1. Least(Len(rows), MaxEventRows) = Len(rows)
    BY <1>0, AuditAssumption, LeastType, SMT DEF AuditAssumption
  <2>2. Len(rows) \in 0..Len(rows)
    BY <1>0, SMT
  <2> DEFINE o == OrderBySeq(rows)
  <2>3. o \in Seq(Row) /\ Len(rows) \in 0..Len(o)
    BY <2>2, OrderType, Zenon
  <2>4. all = SubSeq(o, 1, Len(rows))
    BY <2>1, Zenon DEF GetAllEvents
  <2> HIDE DEF o, all
  <2>5. all \in Seq(Row) /\ DOMAIN all = 1..Len(rows) /\ \A x \in 1..Len(rows) : all[x] = o[x]
    BY <2>3, <2>4, FirstRows, Zenon
  <2> QED BY <2>5, Zenon DEF o
<1>7. all[n + 1] = rows[v] /\ all[(n + 1) - 1] = rows[w]
  <2> DEFINE o == OrderBySeq(rows)
  <2>0. o[n + 1] = rows[v] /\ o[Place(rows, w) + 1] = rows[w]
    BY OrderedAt, Zenon DEF n
  <2>a. all[n + 1] = o[n + 1] /\ ((n - 1) + 1 \in 1..Len(rows) => all[(n - 1) + 1] = o[(n - 1) + 1])
    BY <1>3, <1>6, Zenon
  <2> HIDE DEF o, all
  <2>1. all[n + 1] = rows[v]
    BY <2>0, <2>a, Zenon
  <2>2. (n - 1) + 1 \in 1..Len(rows)
    BY <1>0, <1>3, SMT
  <2>3. all[(n - 1) + 1] = rows[w]
    <3>1. o[(n - 1) + 1] = rows[w]
      BY <1>4, <2>0, Zenon
    <3> QED BY <2>2, <2>a, <3>1, Zenon
  <2> QED BY <1>3, <2>1, <2>3, Zenon
<1> SUFFICES ASSUME VerifyChain(rows, k).valid PROVE FALSE
  OBVIOUS
<1>8. \A x \in DOMAIN all : x > 1 => all[x].prev = all[x - 1].hash
  BY Zenon DEF VerifyChain
<1> HIDE DEF all
<1>9. rows[v].prev = rows[w].hash
  BY <1>3, <1>6, <1>7, <1>8, Zenon
<1>10. Len(rows[v].prev) = rows[v].seq + 1 /\ Len(rows[w].hash) = rows[w].seq + 2
  BY Zenon
<1>11. rows[v].seq + 1 = rows[v].seq + 2
  BY <1>5, <1>9, <1>10, Zenon
<1> QED BY <1>0, <1>11, SMT

-----------------------------------------------------------------------------
\* What they return for the rows of a run.

(* The rows of each run.                                                   *)
LEMMA RunRows ==
  ASSUME LedgerInv, NEW r \in DOMAIN events
  PROVE  events[r] \in Seq(Row) /\ (~twoConsumers => Chained(events[r]))
<1>1. events \in Seq(Seq(Row)) /\ ChainUnlessTimedOut
  BY LedgerTypesSplit, Zenon DEF LedgerInv, TableTypes
<1>2. events[r] \in Seq(Row)
  BY <1>1, LenProperties, ElementOfSeq, Zenon
<1> QED BY <1>1, <1>2, Zenon DEF ChainUnlessTimedOut

(* A chain that did not fork verifies under the key that signed all of it  *)
(* that VerifyChain reads, and under no other (verify.go:53-85).  For a    *)
(* chain that goes on after a rotation this is the opposite of what        *)
(* ROADMAP.md:84 says, which RotationKeepsVerification states.             *)
THEOREM OneKeyVerifies == LedgerSpec => []VerifiesUnderOneKey
<1>1. LedgerInv => VerifiesUnderOneKey
  BY RunRows, VerifyOfChain, Zenon DEF VerifiesUnderOneKey
<1> QED BY <1>1, LedgerInvariant, PTL

(* `logyctl events' lists the last rows written, in the order of writing   *)
(* (analytics.go:46-70, store/events.go:179-234).                          *)
THEOREM EventsListsTheTail == LedgerSpec => []RecentIsTheTail
<1>1. LedgerInv => RecentIsTheTail
  BY RunRows, TailOfChain, Zenon DEF RecentIsTheTail
<1> QED BY <1>1, LedgerInvariant, PTL

(* A chain that forked, which takes two goroutines in ProcessEvent, never  *)
(* verifies: with any number of goroutines a hash commits to as many       *)
(* events as the index of its row says, so that one of two rows with one   *)
(* index does not extend the row it is listed after                        *)
(* (verify.go:60-70, processor.go:92-125).                                 *)
THEOREM ForksAreDetected == LedgerSpec => []ForkIsDetected
<1>1. LedgerInv /\ HashDepth => ForkIsDetected
  <2> SUFFICES ASSUME LedgerInv, HashDepth, NEW r \in DOMAIN events, NEW k \in Key,
                      Len(events[r]) <= MaxEventRows,
                      NEW i \in DOMAIN events[r], NEW j \in DOMAIN events[r],
                      i # j, events[r][i].seq = events[r][j].seq
               PROVE  ~VerifyChain(events[r], k).valid
    BY Zenon DEF ForkIsDetected
  <2> DEFINE rows == events[r]
  <2>1. /\ rows \in Seq(Row)
        /\ \A n \in DOMAIN rows : /\ Len(rows[n].prev) = rows[n].seq + 1
                                  /\ Len(rows[n].hash) = rows[n].seq + 2
    BY RunRows, Zenon DEF HashDepth, Depth
  <2>2. Len(rows) <= MaxEventRows /\ i \in DOMAIN rows /\ j \in DOMAIN rows
          /\ rows[i].seq = rows[j].seq
    BY Zenon
  <2> HIDE DEF rows
  <2>3. ~VerifyChain(rows, k).valid
    BY <2>1, <2>2, ForkFound, Zenon
  <2> QED BY <2>3, Zenon DEF rows
<1> QED BY <1>1, LedgerInvariant, RowsHaveTheirDepth, PTL

(* `logyctl verify' passes after a normal run, one without rotations and   *)
(* without a logyctl command that writes the key file: also after crashes  *)
(* at any point of writing the key, the run or an event (ROADMAP.md:33,    *)
(* signer.go:22-50, verify.go:53-85).                                      *)
THEOREM NormalRunsVerify ==
  ASSUME Command \subseteq {"backup-key"}
  PROVE  LedgerSpec => []NormalRunVerifies
<1>1. LedgerInv /\ OneKey => NormalRunVerifies
  <2> SUFFICES ASSUME LedgerInv, OneKey, ~rotated, ~twoConsumers, server = "up",
                      NEW r \in DOMAIN events, events[r] # <<>>
               PROVE  VerifyChain(events[r], keyFile).valid
    BY Zenon DEF NormalRunVerifies
  <2> DEFINE rows == events[r]
             n    == Least(Len(rows), MaxEventRows)
  <2>1. rows \in Seq(Row) /\ Chained(rows)
    BY RunRows, Zenon
  <2>2. \A i \in DOMAIN rows : rows[i].key = keyFile
    BY Zenon DEF OneKey
  <2>3. \A i \in 1..n : i \in DOMAIN rows
    <3>1. Len(rows) \in Nat /\ DOMAIN rows = 1..Len(rows) /\ MaxEventRows \in Nat
      BY <2>1, RowAt, AuditAssumption, SMT DEF AuditAssumption
    <3>2. n \in 0..Len(rows)
      BY <3>1, LeastType, Zenon
    <3> HIDE DEF n
    <3> QED BY <3>1, <3>2, SMT
  <2> HIDE DEF rows
  <2>4. VerifyChain(rows, keyFile).valid
    BY <2>1, <2>2, <2>3, VerifyOfChain, Zenon DEF rows
  <2> QED BY <2>4, Zenon DEF rows
<1> QED BY <1>1, LedgerInvariant, OneKeyInvariant, PTL
=============================================================================
