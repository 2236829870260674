----------------------------- MODULE TraceProofs -----------------------------
(***************************************************************************)
(* Proofs about the trace of a task, for any number of requests and any    *)
(* bodies: among the events of a task each has a rank above its parent's,  *)
(* so a trace shows each event whose ancestors were read.                  *)
(***************************************************************************)
EXTENDS Trace, InterceptorProofs, FiniteSetTheorems

-----------------------------------------------------------------------------
\* Sets that grow step by step, as Ancestors computes them.

Grown(N, A, F, L) == L = [n \in 0..N |-> IF n = 0 THEN A ELSE L[n - 1] \cup F[L[n - 1]]]

LEMMA GrownExists == ASSUME NEW A, NEW F PROVE \A N \in Nat : \E L : Grown(N, A, F, L)
<1> DEFINE S == {N \in Nat : \E L : Grown(N, A, F, L)}
<1>1. 0 \in S
  <2> DEFINE L == [n \in 0..0 |-> A]
  <2>1. \A n \in 0..0 : n = 0
    BY SMT
  <2>2. Grown(0, A, F, L)
    BY <2>1, Zenon DEF Grown
  <2> HIDE DEF L
  <2>3. 0 \in Nat
    BY SMT
  <2> QED BY <2>2, <2>3, Zenon
<1>2. ASSUME NEW N \in S PROVE N + 1 \in S
  <2>1. PICK L : Grown(N, A, F, L)
    BY Zenon
  <2> DEFINE K == [n \in 0..(N + 1) |-> IF n \in 0..N THEN L[n] ELSE L[N] \cup F[L[N]]]
  <2>2. \A n \in 0..N : L[n] = IF n = 0 THEN A ELSE L[n - 1] \cup F[L[n - 1]]
    BY <2>1, Zenon DEF Grown
  <2>3. /\ N + 1 \in Nat
        /\ \A n \in 0..N : n \in 0..(N + 1)
        /\ \A n \in 0..(N + 1) : n \notin 0..N => n = N + 1 /\ n # 0 /\ n - 1 = N
        /\ \A n \in 0..(N + 1) : n # 0 => n - 1 \in 0..N
    BY SMT
  <2>4. \A n \in 0..N : K[n] = L[n]
    BY <2>3, Zenon
  <2>5. ASSUME NEW n \in 0..(N + 1)
        PROVE  (IF n \in 0..N THEN L[n] ELSE L[N] \cup F[L[N]])
                 = IF n = 0 THEN A ELSE K[n - 1] \cup F[K[n - 1]]
    <3>1. n # 0 => K[n - 1] = L[n - 1]
      BY <2>3, <2>4, Zenon
    <3> HIDE DEF K
    <3> QED BY <2>2, <2>3, <3>1, Zenon
  <2>6. Grown(N + 1, A, F, K)
    BY <2>5, Zenon DEF Grown
  <2> HIDE DEF K
  <2> QED BY <2>3, <2>6, Zenon
<1>3. S = Nat
  <2> HIDE DEF S
  <2>1. S \in SUBSET Nat
    BY Zenon DEF S
  <2> QED BY <1>1, <1>2, <2>1, Induction, Zenon
<1> QED BY <1>3, Zenon

LEMMA StaysIn ==
  ASSUME NEW N \in Nat, NEW L, NEW V, L[0] \subseteq V,
         \A n \in Nat : n < N /\ L[n] \subseteq V => L[n + 1] \subseteq V
  PROVE  \A n \in 0..N : L[n] \subseteq V
<1> DEFINE S == {n \in Nat : n <= N => L[n] \subseteq V}
<1>1. 0 \in S
  BY SMT
<1>2. ASSUME NEW n \in S PROVE n + 1 \in S
  <2>1. n + 1 \in Nat /\ (n + 1 <= N => n < N /\ n <= N)
    BY SMT
  <2> QED BY <2>1, Zenon
<1>3. S = Nat
  <2> HIDE DEF S
  <2>1. S \in SUBSET Nat
    BY Zenon DEF S
  <2> QED BY <1>1, <1>2, <2>1, Induction, Zenon
<1>4. \A n \in 0..N : n \in Nat /\ n <= N
  BY SMT
<1> QED BY <1>3, <1>4, Zenon

\* The steps of L, without the function it is defined by.
Steps(N, A, F, L) ==
  L[0] = A /\ \A n \in Nat : n < N => L[n + 1] = L[n] \cup F[L[n]]

LEMMA GrownSteps ==
  ASSUME NEW N \in Nat, NEW A, NEW F, NEW L, Grown(N, A, F, L)
  PROVE  Steps(N, A, F, L)
<1>1. \A n \in 0..N : L[n] = IF n = 0 THEN A ELSE L[n - 1] \cup F[L[n - 1]]
  BY Zenon DEF Grown
<1>2. 0 \in 0..N /\ \A n \in Nat : n < N => n + 1 \in 0..N /\ n + 1 # 0 /\ (n + 1) - 1 = n
  BY SMT
<1>3. L[0] = A
  BY <1>1, <1>2, Zenon
<1>4. ASSUME NEW n \in Nat, n < N PROVE L[n + 1] = L[n] \cup F[L[n]]
  <2>1. n + 1 \in 0..N /\ n + 1 # 0 /\ (n + 1) - 1 = n
    BY <1>2, <1>4, Zenon
  <2>2. L[n + 1] = L[(n + 1) - 1] \cup F[L[(n + 1) - 1]]
    BY <1>1, <2>1, Zenon
  <2> QED BY <2>1, <2>2, Zenon
<1> QED BY <1>3, <1>4, Zenon DEF Steps

Inside(F, U) == \A X \in SUBSET U : F[X] \subseteq U

Complete(U, N, A, F, L) == A \subseteq L[N] /\ L[N] \subseteq U /\ F[L[N]] \subseteq L[N]

(* In a finite set, as many steps as it has members reach the end.         *)
LEMMA StepsClose ==
  ASSUME NEW U, IsFiniteSet(U), NEW N \in Nat, NEW A \in SUBSET U,
         NEW F, Inside(F, U),
         NEW L, Steps(N, A, F, L), Cardinality(U) <= N + Cardinality(A)
  PROVE  Complete(U, N, A, F, L)
<1> DEFINE c == Cardinality(A)
           Closed(X) == F[X] \subseteq X
           S == {n \in Nat : n <= N => A \subseteq L[n] /\ L[n] \subseteq U
                                         /\ (Closed(L[n]) \/ n + c <= Cardinality(L[n]))}
<1>1. \A X \in SUBSET U : IsFiniteSet(X) /\ Cardinality(X) \in Nat
  BY FS_Subset, FS_CardinalityType, Zenon
<1>2. c \in Nat
  BY <1>1, Zenon
<1>3. L[0] = A /\ \A n \in Nat : n < N => L[n + 1] = L[n] \cup F[L[n]]
  BY Zenon DEF Steps
<1>4. 0 \in S
  <2>1. 0 + c = c /\ c <= c /\ 0 \in Nat
    BY <1>2, SMT
  <2>2. 0 + c <= Cardinality(L[0])
    BY <1>3, <2>1, Zenon
  <2> HIDE DEF c, Closed
  <2> QED BY <1>3, <2>1, <2>2, Zenon
<1>5. ASSUME NEW n \in S PROVE n + 1 \in S
  <2>1. n + 1 \in Nat /\ n \in Nat
    BY SMT
  <2> SUFFICES ASSUME n + 1 <= N
               PROVE  A \subseteq L[n + 1] /\ L[n + 1] \subseteq U
                        /\ (Closed(L[n + 1]) \/ (n + 1) + c <= Cardinality(L[n + 1]))
    BY <2>1, Zenon
  <2>2. n < N /\ n <= N
    BY <2>1, SMT
  <2> DEFINE X == L[n]
             Y == L[n + 1]
  <2>3. A \subseteq X /\ X \in SUBSET U /\ (Closed(X) \/ n + c <= Cardinality(X))
    BY <2>2, Zenon
  <2>4. Y = X \cup F[X]
    BY <1>3, <2>1, <2>2, Zenon
  <2> HIDE DEF X, Y, S
  <2>5. A \subseteq Y /\ Y \in SUBSET U
    BY <2>3, <2>4, Zenon DEF Inside
  <2>6. CASE Closed(X)
    <3>1. Y = X
      BY <2>4, <2>6, Zenon
    <3> QED BY <2>5, <2>6, <3>1, Zenon DEF Y
  <2>7. CASE ~Closed(X) /\ n + c <= Cardinality(X)
    <3>1. X \subseteq Y /\ X # Y
      BY <2>4, <2>7, Zenon
    <3>2. /\ IsFiniteSet(Y) /\ Cardinality(X) \in Nat /\ Cardinality(Y) \in Nat
      BY <1>1, <2>3, <2>5, Zenon
    <3>3. Cardinality(X) <= Cardinality(Y) /\ Cardinality(X) # Cardinality(Y)
      <4>1. X \in SUBSET Y
        BY <3>1, Zenon
      <4>2. Cardinality(X) <= Cardinality(Y) /\ (Cardinality(Y) = Cardinality(X) => Y = X)
        BY <3>2, <4>1, FS_Subset, Zenon
      <4> QED BY <3>1, <4>2, Zenon
    <3> HIDE DEF c
    <3>4. (n + 1) + c <= Cardinality(Y)
      BY <1>2, <2>1, <2>7, <3>2, <3>3, SMT
    <3> QED BY <2>5, <3>4, Zenon DEF Y
  <2> QED BY <2>3, <2>6, <2>7, Zenon
<1>6. N \in S
  <2> HIDE DEF S
  <2>1. S \in SUBSET Nat
    BY Zenon DEF S
  <2> QED BY <1>4, <1>5, <2>1, Induction, Zenon
<1>7. A \subseteq L[N] /\ L[N] \in SUBSET U /\ (Closed(L[N]) \/ N + c <= Cardinality(L[N]))
  <2>1. N <= N
    BY SMT
  <2> QED BY <1>6, <2>1, Zenon
<1>8. ASSUME N + c <= Cardinality(L[N]) PROVE Closed(L[N])
  <2> DEFINE X == L[N]
  <2>1. /\ Cardinality(X) \in Nat /\ Cardinality(U) \in Nat /\ Cardinality(X) <= Cardinality(U)
        /\ (Cardinality(U) = Cardinality(X) => U = X)
    BY <1>1, <1>7, FS_Subset, FS_CardinalityType, Zenon
  <2>2. N + c <= Cardinality(X) /\ Cardinality(U) <= N + c
    BY <1>8, Zenon
  <2> HIDE DEF X, c
  <2>3. Cardinality(U) = Cardinality(X)
    BY <1>2, <2>1, <2>2, SMT
  <2> QED BY <1>7, <2>1, <2>3, Zenon DEF X, Inside
<1> QED BY <1>7, <1>8, Zenon DEF Complete

-----------------------------------------------------------------------------
\* The events of a task.

(* No more events are read than there is room for (events.go:291).         *)
LEMMA EventsBounded ==
  ASSUME ledger \in Seq(Event), NEW t
  PROVE  /\ IsFiniteSet(GetEventsByTaskID(t))
         /\ Cardinality(GetEventsByTaskID(t)) \in Nat
         /\ Cardinality(GetEventsByTaskID(t)) <= MaxEventRows
<1> DEFINE rows == {i \in DOMAIN ledger : ledger[i].task = t}
           Before(i) == {h \in rows : h < i}
           I == {i \in rows : Cardinality(Before(i)) < MaxEventRows}
           E == GetEventsByTaskID(t)
<1>1. DOMAIN ledger = 1..Len(ledger) /\ Len(ledger) \in Nat
  BY LenProperties, Zenon
<1>2. IsFiniteSet(DOMAIN ledger)
  <2>1. 1 \in Int /\ Len(ledger) \in Int
    BY <1>1, SMT
  <2> QED BY <1>1, <2>1, FS_Interval, Zenon
<1>3. IsFiniteSet(rows) /\ IsFiniteSet(I)
  <2>1. rows \in SUBSET DOMAIN ledger /\ I \in SUBSET DOMAIN ledger
    BY Zenon
  <2> HIDE DEF rows, I
  <2> QED BY <1>2, <2>1, FS_Subset, Zenon
<1>4. E = {ledger[i] : i \in I}
  BY Zenon DEF GetEventsByTaskID
<1>5. IsFiniteSet(E) /\ Cardinality(E) <= Cardinality(I)
  <2> DEFINE f == [i \in I |-> ledger[i]]
  <2>1. f \in Surjection(I, E)
    BY <1>4, Zenon DEF Surjection
  <2> HIDE DEF f, I, E
  <2> QED BY <1>3, <2>1, FS_Surjection, Zenon
<1>6. Cardinality(E) \in Nat /\ Cardinality(I) \in Nat /\ MaxEventRows \in Nat
  BY <1>3, <1>5, FS_CardinalityType, TraceAssumption, Zenon DEF TraceAssumption
<1>7. CASE I = {}
  <2>1. Cardinality(I) = 0
    BY <1>7, FS_EmptySet, Zenon
  <2> HIDE DEF E, I
  <2> QED BY <1>5, <1>6, <2>1, SMT DEF E
<1>8. CASE I # {}
  <2> DEFINE T == {Len(ledger) - i : i \in I}
  <2>1. T \in SUBSET Nat /\ T # {}
    <3>1. \A i \in DOMAIN ledger : Len(ledger) - i \in Nat
      BY <1>1, SMT
    <3>2. I \subseteq DOMAIN ledger
      BY Zenon
    <3> HIDE DEF I
    <3> QED BY <1>8, <3>1, <3>2, Zenon
  <2>2. PICK n \in T : \A m \in T : ~(m < n)
    <3> HIDE DEF T
    <3> QED BY <2>1, LeastNumber, Zenon
  <2>3. PICK m \in I : n = Len(ledger) - m
    BY <2>2, Zenon
  <2>4. \A i \in I : ~(Len(ledger) - i < Len(ledger) - m)
    BY <2>2, <2>3, Zenon
  <2>5. \A i \in I : i \in DOMAIN ledger /\ i \in rows
    BY Zenon
  <2>6. \A i \in I : i # m => i < m
    <3> HIDE DEF I, rows, T
    <3>1. \A i \in I : i \in 1..Len(ledger)
      BY <1>1, <2>5, Zenon
    <3> QED BY <1>1, <2>3, <2>4, <3>1, SMT
  <2>7. I \ {m} \subseteq Before(m)
    <3> HIDE DEF I
    <3> QED BY <2>5, <2>6, Zenon
  <2>8. IsFiniteSet(Before(m)) /\ Cardinality(Before(m)) < MaxEventRows
    <3>1. Before(m) \in SUBSET rows
      BY Zenon
    <3>2. Cardinality(Before(m)) < MaxEventRows
      BY <2>3, Zenon
    <3> HIDE DEF Before, rows
    <3> QED BY <1>3, <3>1, <3>2, FS_Subset, Zenon
  <2> HIDE DEF I, Before
  <2>9. Cardinality(I \ {m}) <= Cardinality(Before(m)) /\ Cardinality(Before(m)) \in Nat
    <3>1. I \ {m} \in SUBSET Before(m)
      BY <2>7, Zenon
    <3> QED BY <2>8, <3>1, FS_Subset, FS_CardinalityType, Zenon
  <2>10. Cardinality(I \ {m}) = Cardinality(I) - 1
    BY <1>3, <2>3, FS_RemoveElement, Zenon
  <2> HIDE DEF E
  <2> QED BY <1>5, <1>6, <2>8, <2>9, <2>10, SMT DEF E
<1> QED BY <1>7, <1>8, Zenon

-----------------------------------------------------------------------------
\* The walk of printTraceTree.

Walked(N, E, L) == L = [n \in 0..N |-> IF n = 0 THEN StartWalk(E) ELSE Visit(E, L[n - 1])]

LEMMA WalkExists == ASSUME NEW E PROVE \A N \in Nat : \E L : Walked(N, E, L)
<1> DEFINE S == {N \in Nat : \E L : Walked(N, E, L)}
<1>1. 0 \in S
  <2> DEFINE L == [n \in 0..0 |-> StartWalk(E)]
  <2>1. \A n \in 0..0 : n = 0
    BY SMT
  <2>2. Walked(0, E, L)
    BY <2>1, Zenon DEF Walked
  <2> HIDE DEF L
  <2>3. 0 \in Nat
    BY SMT
  <2> QED BY <2>2, <2>3, Zenon
<1>2. ASSUME NEW N \in S PROVE N + 1 \in S
  <2>1. PICK L : Walked(N, E, L)
    BY Zenon
  <2> DEFINE K == [n \in 0..(N + 1) |-> IF n \in 0..N THEN L[n] ELSE Visit(E, L[N])]
  <2>2. \A n \in 0..N : L[n] = IF n = 0 THEN StartWalk(E) ELSE Visit(E, L[n - 1])
    BY <2>1, Zenon DEF Walked
  <2>3. /\ N + 1 \in Nat
        /\ \A n \in 0..N : n \in 0..(N + 1)
        /\ \A n \in 0..(N + 1) : n \notin 0..N => n = N + 1 /\ n # 0 /\ n - 1 = N
        /\ \A n \in 0..(N + 1) : n # 0 => n - 1 \in 0..N
    BY SMT
  <2>4. \A n \in 0..N : K[n] = L[n]
    BY <2>3, Zenon
  <2>5. ASSUME NEW n \in 0..(N + 1)
        PROVE  (IF n \in 0..N THEN L[n] ELSE Visit(E, L[N]))
                 = IF n = 0 THEN StartWalk(E) ELSE Visit(E, K[n - 1])
    <3>1. n # 0 => K[n - 1] = L[n - 1]
      BY <2>3, <2>4, Zenon
    <3> HIDE DEF K
    <3> QED BY <2>2, <2>3, <3>1, Zenon
  <2>6. Walked(N + 1, E, K)
    BY <2>5, Zenon DEF Walked
  <2> HIDE DEF K
  <2> QED BY <2>3, <2>6, Zenon
<1>3. S = Nat
  <2> HIDE DEF S
  <2>1. S \in SUBSET Nat
    BY Zenon DEF S
  <2> QED BY <1>1, <1>2, <2>1, Induction, Zenon
<1> QED BY <1>3, Zenon

LEMMA TraceWalks ==
  ASSUME NEW t
  PROVE  \E L : /\ Trace(t) = L[MaxTraceNodes]
               /\ L[0] = StartWalk(GetEventsByTaskID(t))
               /\ \A n \in Nat : n < MaxTraceNodes => L[n + 1] = Visit(GetEventsByTaskID(t), L[n])
<1> DEFINE E == GetEventsByTaskID(t)
           N == MaxTraceNodes
           Body_(f) == [n \in 0..N |-> IF n = 0 THEN StartWalk(E) ELSE Visit(E, f[n - 1])]
           walk == CHOOSE f : f = Body_(f)
<1>1. Trace(t) = walk[N]
  BY Zenon DEF Trace
<1>2. N \in Nat
  BY TraceAssumption, Zenon DEF TraceAssumption
<1> HIDE DEF E, N
<1>3. \E f : f = Body_(f)
  BY <1>2, WalkExists, Zenon DEF Walked
<1>4. walk = Body_(walk)
  BY <1>3, Zenon
<1> HIDE DEF walk
<1>5. \A n \in 0..N : walk[n] = IF n = 0 THEN StartWalk(E) ELSE Visit(E, walk[n - 1])
  BY <1>4, Zenon
<1>6. 0 \in 0..N /\ \A n \in Nat : n < N => n + 1 \in 0..N /\ n + 1 # 0 /\ (n + 1) - 1 = n
  BY <1>2, SMT
<1>7. ASSUME NEW n \in Nat, n < N PROVE walk[n + 1] = Visit(E, walk[n])
  <2>1. n + 1 \in 0..N /\ n + 1 # 0 /\ (n + 1) - 1 = n
    BY <1>6, <1>7, Zenon
  <2>2. walk[n + 1] = Visit(E, walk[(n + 1) - 1])
    BY <1>5, <2>1, Zenon
  <2> QED BY <2>1, <2>2, Zenon
<1>8. walk[0] = StartWalk(E)
  BY <1>5, <1>6, Zenon
<1> QED BY <1>1, <1>7, <1>8, Zenon DEF E, N

\* A call has one event.
OneEach(E) ==
  /\ \A e \in E : e.id # <<"request", NoEvent>>
  /\ \A e, f \in E : \A r : e.id = <<"request", r>> /\ f.id = <<"request", r>> => e = f

\* What is on the stack and what was shown: all roots, all children of what
\* was shown, and nothing else.
Reached(E, stack, shown) ==
  /\ stack \subseteq E /\ shown \subseteq E /\ stack \cap shown = {}
  /\ Roots(E) \subseteq stack \cup shown
  /\ \A e \in shown : Children(E, e) \subseteq stack \cup shown
  /\ \A c \in stack \cup shown : c \in Roots(E) \/ \E e \in shown : c \in Children(E, e)

LEMMA ReachesOn ==
  ASSUME NEW E, OneEach(E), NEW stack, NEW shown, Reached(E, stack, shown), NEW e \in stack
  PROVE  Reached(E, (stack \ {e}) \cup Children(E, e), shown \cup {e})
<1> DEFINE children == Children(E, e)
<1>1. \A f \in E : \A c \in Children(E, f) : c \in E /\ <<"request", c.parent>> = f.id
  BY Zenon DEF Children
<1>2. stack \subseteq E /\ shown \subseteq E /\ stack \cap shown = {}
  BY Zenon DEF Reached
<1>3. ASSUME NEW c \in children PROVE c \notin shown \cup {e}
  <2> SUFFICES ASSUME c \in stack \cup shown PROVE FALSE
    BY Zenon
  <2>1. c \in E /\ <<"request", c.parent>> = e.id
    BY <1>1, <1>2, <1>3, Zenon
  <2>2. c \notin Roots(E)
    BY <1>2, <2>1, Zenon DEF OneEach, Roots
  <2>3. PICK f \in shown : c \in Children(E, f)
    BY <2>2, Zenon DEF Reached
  <2>4. f \in E /\ <<"request", c.parent>> = f.id
    BY <1>1, <1>2, <2>3, Zenon
  <2>5. f = e
    BY <1>2, <2>1, <2>4, Zenon DEF OneEach
  <2> QED BY <1>2, <2>3, <2>5, Zenon
<1>4. children \subseteq E
  BY Zenon DEF Children
<1> DEFINE more == (stack \ {e}) \cup children
           now == shown \cup {e}
<1>5. more \subseteq E /\ now \subseteq E /\ more \cap now = {}
  BY <1>2, <1>3, <1>4, Zenon
<1>6. more \cup now = stack \cup shown \cup children
  BY Zenon
<1> HIDE DEF more
<1>7. Roots(E) \subseteq more \cup now
  BY <1>6, Zenon DEF Reached
<1>8. \A f \in now : Children(E, f) \subseteq more \cup now
  BY <1>6, Zenon DEF Reached
<1>9. \A c \in more \cup now : c \in Roots(E) \/ \E f \in now : c \in Children(E, f)
  BY <1>6, Zenon DEF Reached
<1> HIDE DEF now
<1>10. Reached(E, more, now)
  BY <1>5, <1>7, <1>8, <1>9, Zenon DEF Reached
<1> QED BY <1>10, Zenon DEF more, now

\* After n turns of the loop.
WalkInv(E, w, n) ==
  /\ w.panics => w.stack = {}
  /\ ~w.panics => /\ Reached(E, w.stack, w.shown)
                  /\ w.stack = {} \/ n <= Cardinality(w.shown)

LEMMA VisitKeeps ==
  ASSUME NEW E, IsFiniteSet(E), Cardinality(E) <= MaxTraceNodes, OneEach(E),
         NEW w, NEW n \in Nat, WalkInv(E, w, n)
  PROVE  WalkInv(E, Visit(E, w), n + 1)
<1> DEFINE e == CHOOSE e \in w.stack : TRUE
           children == Children(E, e)
           many == Cardinality(children) > MaxChildren
           more == (w.stack \ {e}) \cup children
           now == w.shown \cup {e}
<1>1. CASE w.stack = {}
  <2>1. Visit(E, w) = w
    BY <1>1, Zenon DEF Visit
  <2> QED BY <1>1, <2>1, Zenon DEF WalkInv
<1>2. CASE w.stack # {}
  <2>1. e \in w.stack
    BY <1>2, Zenon
  <2>2. ~w.panics /\ Reached(E, w.stack, w.shown) /\ n <= Cardinality(w.shown)
    BY <1>2, Zenon DEF WalkInv
  <2> DEFINE next == [stack  |-> IF many THEN {} ELSE Push(w.stack \ {e}, children),
                      shown  |-> now, panics |-> many]
  <2>3. Visit(E, w) = next
    BY <1>2, Zenon DEF Visit
  <2>4. /\ next.stack = (IF many THEN {} ELSE Push(w.stack \ {e}, children))
        /\ next.shown = now /\ next.panics = many
    BY Zenon
  <2> HIDE DEF next, many
  <2>5. CASE many
    BY <2>3, <2>4, <2>5, Zenon DEF WalkInv
  <2>6. CASE ~many
    <3> HIDE DEF e
    <3>1. Reached(E, more, now)
      BY <2>1, <2>2, ReachesOn, Zenon
    <3> HIDE DEF children
    <3>2. Push(w.stack \ {e}, children) = more
      <4>1. more \in SUBSET E
        BY <3>1, Zenon DEF Reached
      <4> HIDE DEF more
      <4>2. Cardinality(more) <= Cardinality(E) /\ Cardinality(more) \in Nat /\ Cardinality(E) \in Nat
        BY <4>1, FS_Subset, FS_CardinalityType, Zenon
      <4>3. MaxTraceNodes \in Nat
        BY TraceAssumption, Zenon DEF TraceAssumption
      <4>4. Cardinality(more) <= MaxTraceNodes
        BY <4>2, <4>3, SMT
      <4> QED BY <4>4, Zenon DEF Push, more
    <3>3. n + 1 <= Cardinality(now)
      <4>1. w.shown \in SUBSET E /\ e \notin w.shown
        BY <2>1, <2>2, Zenon DEF Reached
      <4>2. IsFiniteSet(w.shown) /\ Cardinality(w.shown) \in Nat
        BY <4>1, FS_Subset, FS_CardinalityType, Zenon
      <4>3. Cardinality(now) = Cardinality(w.shown) + 1
        BY <4>1, <4>2, FS_AddElement, Zenon
      <4> HIDE DEF now
      <4> QED BY <2>2, <4>2, <4>3, SMT
    <3> HIDE DEF more, now
    <3>4. next.stack = more /\ next.shown = now /\ ~next.panics
      BY <2>4, <2>6, <3>2, Zenon
    <3> QED BY <2>3, <3>1, <3>3, <3>4, Zenon DEF WalkInv
  <2> QED BY <2>5, <2>6, Zenon
<1> QED BY <1>1, <1>2, Zenon

LEMMA WalkStarts == ASSUME NEW E PROVE WalkInv(E, StartWalk(E), 0)
<1> DEFINE many == Cardinality(Roots(E)) > MaxRoots \/ Cardinality(Roots(E)) > MaxTraceNodes
           start == [stack |-> IF many THEN {} ELSE Roots(E), shown |-> {}, panics |-> many]
<1>1. StartWalk(E) = start
  BY Zenon DEF StartWalk
<1>2. start.stack = (IF many THEN {} ELSE Roots(E)) /\ start.shown = {} /\ start.panics = many
  BY Zenon
<1>3. Reached(E, Roots(E), {})
  BY Zenon DEF Reached, Roots
<1>4. 0 <= Cardinality({})
  <2>1. Cardinality({}) = 0
    BY FS_EmptySet, Zenon
  <2> QED BY <2>1, SMT
<1> HIDE DEF start, many
<1>5. many => start.stack = {}
  BY <1>2, Zenon
<1>6. ~many => start.stack = Roots(E)
  BY <1>2, Zenon
<1> QED BY <1>1, <1>2, <1>3, <1>4, <1>5, <1>6, Zenon DEF WalkInv

(* A walk without a panic comes to an end: it reaches every root and, from *)
(* an event, all its children (trace.go:127-207).                          *)
LEMMA TreeIsClosed ==
  ASSUME ledger \in Seq(Event), NEW t, OneEach(GetEventsByTaskID(t)), ~Trace(t).panics
  PROVE  /\ Roots(GetEventsByTaskID(t)) \subseteq Trace(t).shown
         /\ \A e \in Trace(t).shown : Children(GetEventsByTaskID(t), e) \subseteq Trace(t).shown
<1> DEFINE E == GetEventsByTaskID(t)
           N == MaxTraceNodes
           w == Trace(t)
<1>1. PICK L : /\ Trace(t) = L[MaxTraceNodes] /\ L[0] = StartWalk(E)
               /\ \A n \in Nat : n < MaxTraceNodes => L[n + 1] = Visit(E, L[n])
  BY TraceWalks, Zenon
<1>2. N \in Nat /\ MaxEventRows \in Nat /\ MaxEventRows <= N
  BY TraceAssumption, Zenon DEF TraceAssumption
<1>3. IsFiniteSet(E) /\ Cardinality(E) \in Nat /\ Cardinality(E) <= N
  <2>1. IsFiniteSet(E) /\ Cardinality(E) \in Nat /\ Cardinality(E) <= MaxEventRows
    BY EventsBounded, Zenon
  <2> HIDE DEF E, N
  <2>2. Cardinality(E) <= N
    BY <1>2, <2>1, SMT
  <2> QED BY <2>1, <2>2, Zenon
<1>4. OneEach(E) /\ ~w.panics
  BY Zenon
<1> HIDE DEF E
<1> DEFINE S == {n \in Nat : n <= N => WalkInv(E, L[n], n)}
<1>5. 0 \in S
  <2>1. WalkInv(E, L[0], 0) /\ 0 \in Nat
    BY <1>1, WalkStarts, Zenon
  <2> QED BY <2>1, Zenon
<1>6. ASSUME NEW n \in S PROVE n + 1 \in S
  <2>1. n + 1 \in Nat /\ n \in Nat /\ (n + 1 <= N => n < N /\ n <= N)
    BY <1>2, SMT
  <2>2. ASSUME n + 1 <= N PROVE WalkInv(E, L[n + 1], n + 1)
    <3>1. L[n + 1] = Visit(E, L[n]) /\ WalkInv(E, L[n], n)
      BY <1>1, <2>1, <2>2, Zenon
    <3> QED BY <1>3, <1>4, <2>1, <3>1, VisitKeeps, Zenon
  <2> QED BY <2>1, <2>2, Zenon
<1>7. WalkInv(E, w, N)
  <2>1. N \in S
    <3> HIDE DEF S
    <3>1. S \in SUBSET Nat
      BY Zenon DEF S
    <3> QED BY <1>2, <1>5, <1>6, <3>1, Induction, Zenon
  <2>2. N <= N
    BY <1>2, SMT
  <2> QED BY <1>1, <2>1, <2>2, Zenon
<1> HIDE DEF w, N, S
<1>8. Reached(E, w.stack, w.shown) /\ (w.stack = {} \/ N <= Cardinality(w.shown))
  BY <1>4, <1>7, Zenon DEF WalkInv
<1>9. w.stack = {}
  <2> SUFFICES ASSUME N <= Cardinality(w.shown), w.stack # {} PROVE FALSE
    BY <1>8, Zenon
  <2>1. w.shown \in SUBSET E /\ w.shown # E
    BY <1>8, Zenon DEF Reached
  <2>2. /\ Cardinality(w.shown) \in Nat /\ Cardinality(w.shown) <= Cardinality(E)
        /\ (Cardinality(E) = Cardinality(w.shown) => E = w.shown)
    BY <1>3, <2>1, FS_Subset, FS_CardinalityType, Zenon
  <2>3. Cardinality(E) # Cardinality(w.shown)
    BY <2>1, <2>2, Zenon
  <2> QED BY <1>2, <1>3, <2>2, <2>3, SMT
<1>10. Roots(E) \subseteq w.shown /\ \A e \in w.shown : Children(E, e) \subseteq w.shown
  BY <1>8, <1>9, Zenon DEF Reached
<1> QED BY <1>10, Zenon DEF w, E

-----------------------------------------------------------------------------

\* The ancestors of a call, up to a call without a parent.
LEMMA AncestorsAreClosed ==
  ASSUME parent \in [Request -> Request \cup {NoEvent}], NEW r \in Request
  PROVE  /\ r \in Ancestors(r) /\ Ancestors(r) \subseteq Request
         /\ \A q \in Ancestors(r) : parent[q] # NoEvent => parent[q] \in Ancestors(r)
         /\ \A V \in SUBSET Request :
              /\ r \in V
              /\ \A q \in V : parent[q] # NoEvent => parent[q] \in V
              => Ancestors(r) \subseteq V
<1> DEFINE U == Request \cup {NoEvent}
           N == Cardinality(Request)
           Above(X) == {parent[q] : q \in X \cap Request}
           F == [X \in SUBSET U |-> Above(X)]
           Body_(f) == [n \in 0..N |-> IF n = 0 THEN {r} ELSE f[n - 1] \cup Above(f[n - 1])]
           up == CHOOSE f : f = Body_(f)
<1>1. Ancestors(r) = up[N] \ {NoEvent}
  BY Zenon DEF Ancestors
<1>2. /\ IsFiniteSet(U) /\ N \in Nat /\ Cardinality(U) = N + 1
      /\ Cardinality({r}) = 1
  <2>1. IsFiniteSet(Request)
    BY TraceAssumption, Zenon DEF TraceAssumption
  <2>2. NoEvent \notin Request
    BY InterceptorAssumption, Zenon DEF InterceptorAssumption
  <2>3. IsFiniteSet(U) /\ Cardinality(U) = N + 1
    BY <2>1, <2>2, FS_AddElement, Zenon
  <2> QED BY <2>1, <2>3, FS_CardinalityType, FS_Singleton, Zenon
<1>3. {r} \in SUBSET U /\ \A X : Above(X) \subseteq U
  BY Zenon
<1> HIDE DEF N
<1>4. \A X \in SUBSET U : F[X] = Above(X)
  BY Zenon
<1> HIDE DEF F
<1> HIDE DEF Above, U
<1>5. /\ 0 \in 0..N
      /\ \A n \in Nat : n < N => n + 1 \in 0..N /\ n + 1 # 0 /\ (n + 1) - 1 = n
      /\ \A X \in SUBSET U : F[X] \subseteq U
  <2>1. 0 \in 0..N /\ \A n \in Nat : n < N => n + 1 \in 0..N /\ n + 1 # 0 /\ (n + 1) - 1 = n
    BY <1>2, SMT
  <2>2. \A X : Above(X) \subseteq U
    BY <1>3, Zenon
  <2>3. \A X \in SUBSET U : F[X] \subseteq U
    BY <1>4, <2>2, Zenon
  <2> QED BY <2>1, <2>3, Zenon
<1>6. \E f : f = Body_(f)
  <2>1. PICK L : Grown(N, {r}, F, L)
    BY <1>2, GrownExists, Zenon
  <2>2. \A n \in 0..N : L[n] \subseteq U
    <3>1. Steps(N, {r}, F, L)
      BY <1>2, <2>1, GrownSteps, Zenon
    <3>2. L[0] \subseteq U
      BY <1>3, <3>1, Zenon DEF Steps
    <3>3. ASSUME NEW n \in Nat, n < N, L[n] \subseteq U PROVE L[n + 1] \subseteq U
      <4>1. L[n + 1] = L[n] \cup F[L[n]]
        BY <3>1, <3>3, Zenon DEF Steps
      <4>2. L[n] \in SUBSET U /\ \A X \in SUBSET U : F[X] \subseteq U
        BY <3>3, <1>5, Zenon
      <4> QED BY <3>3, <4>1, <4>2, Zenon
    <3> QED BY <1>2, <3>2, <3>3, StaysIn, Zenon
  <2>3. \A n \in 0..N : n # 0 => n - 1 \in 0..N
    BY <1>2, SMT
  <2>4. \A n \in 0..N : n # 0 => F[L[n - 1]] = Above(L[n - 1])
    BY <1>4, <2>2, <2>3, Zenon
  <2>5. L = Body_(L)
    BY <2>1, <2>4, Zenon DEF Grown
  <2> QED BY <2>5, Zenon
<1>7. up = Body_(up)
  BY <1>6, Zenon
<1> HIDE DEF up
<1>8. \A n \in 0..N : up[n] = IF n = 0 THEN {r} ELSE up[n - 1] \cup Above(up[n - 1])
  BY <1>7, Zenon
<1>9. /\ up[0] = {r}
      /\ \A n \in Nat : n < N => up[n + 1] = up[n] \cup Above(up[n])
  <2>1. ASSUME NEW n \in Nat, n < N PROVE up[n + 1] = up[n] \cup Above(up[n])
    <3>1. n + 1 \in 0..N /\ n + 1 # 0 /\ (n + 1) - 1 = n
      BY <1>5, <2>1, Zenon
    <3>2. up[n + 1] = up[(n + 1) - 1] \cup Above(up[(n + 1) - 1])
      BY <1>8, <3>1, Zenon
    <3> QED BY <3>1, <3>2, Zenon
  <2> QED BY <1>5, <1>8, <2>1, Zenon
<1>10. \A n \in 0..N : up[n] \subseteq U
  <2>1. up[0] \subseteq U /\ \A n \in Nat : n < N /\ up[n] \subseteq U => up[n + 1] \subseteq U
    BY <1>3, <1>9, Zenon
  <2> QED BY <1>2, <2>1, StaysIn, Zenon
<1>11. Steps(N, {r}, F, up)
  <2>1. \A n \in Nat : n < N => n \in 0..N
    BY <1>2, SMT
  <2>2. \A n \in Nat : n < N => F[up[n]] = Above(up[n])
    BY <1>4, <1>10, <2>1, Zenon
  <2> QED BY <1>9, <2>2, Zenon DEF Steps
<1>12. {r} \subseteq up[N] /\ up[N] \subseteq U /\ F[up[N]] \subseteq up[N]
  <2> DEFINE A == {r}
  <2>1. Cardinality(U) <= N + Cardinality(A)
    BY <1>2, SMT
  <2>2. Inside(F, U) /\ IsFiniteSet(U) /\ N \in Nat
    BY <1>2, <1>5, Zenon DEF Inside
  <2>3. A \in SUBSET U /\ Steps(N, A, F, up)
    BY <1>3, <1>11, Zenon
  <2> HIDE DEF A
  <2>4. Complete(U, N, A, F, up)
    BY <2>1, <2>2, <2>3, StepsClose, Zenon
  <2> QED BY <2>4, Zenon DEF A, Complete
<1>13. Above(up[N]) \subseteq up[N]
  BY <1>4, <1>12, Zenon
<1>14. r # NoEvent
  BY InterceptorAssumption, Zenon DEF InterceptorAssumption
<1>15. ASSUME NEW V \in SUBSET Request, r \in V, \A q \in V : parent[q] # NoEvent => parent[q] \in V
       PROVE  Ancestors(r) \subseteq V
  <2> DEFINE W == V \cup {NoEvent}
  <2>1. \A X : X \subseteq W => Above(X) \subseteq W
    <3>1. NoEvent \notin Request
      BY InterceptorAssumption, Zenon DEF InterceptorAssumption
    <3> QED BY <1>15, <3>1, Zenon DEF Above
  <2>2. up[0] \subseteq W /\ \A n \in Nat : n < N /\ up[n] \subseteq W => up[n + 1] \subseteq W
    <3>1. {r} \subseteq W
      BY <1>15, Zenon
    <3> HIDE DEF W
    <3> QED BY <1>9, <2>1, <3>1, Zenon
  <2>3. \A n \in 0..N : up[n] \subseteq W
    <3> HIDE DEF W
    <3> QED BY <1>2, <2>2, StaysIn, Zenon
  <2>4. N \in 0..N
    BY <1>2, SMT
  <2> QED BY <1>1, <2>3, <2>4, Zenon
<1> QED BY <1>1, <1>12, <1>13, <1>14, <1>15, Zenon DEF U, Above

-----------------------------------------------------------------------------
\* The parents of calls.

\* A request that is no parent and no last event of a task yet.
Young == {"new", "inspect", "evaluate", "parent", "store"}

\* One that has looked for no parent yet.
Unlinked == {"new", "inspect", "evaluate", "parent"}

CallRanked(task, rank, r) ==
  /\ pc[r] \in Evaluated => call[r].task = task[r]
  /\ pc[r] \in Unlinked => parent[r] = NoEvent
  /\ parent[r] # NoEvent => /\ pc[parent[r]] \notin Young
                            /\ task[parent[r]] = task[r]
                            /\ rank[parent[r]] < rank[r]

LastRanked(task, t) ==
  lastEvent[t] # NoEvent => pc[lastEvent[t]] \notin Young /\ task[lastEvent[t]] = t

EventRanked(task, e) ==
  /\ e.id[1] = "response" => e.parent = NoEvent
  /\ \A r \in Request : e.id = <<"request", r>> =>
       /\ pc[r] \notin Young \cup {"submit"}
       /\ e.task = task[r] /\ e.parent = parent[r]

\* Calls have one task each, and a rank that is higher than their parents'.
Ranked(task, rank) ==
  /\ \A r \in Request : CallRanked(task, rank, r)
  /\ \A t \in Task : LastRanked(task, t)
  /\ \A i \in DOMAIN ledger : EventRanked(task, ledger[i])

TraceInv ==
  \E task \in [Request -> TaskId], rank \in [Request -> Nat] : Ranked(task, rank)

\* No request becomes younger.
Ages(q) ==
  /\ pc'[q] \in Young => pc[q] \in Young
  /\ pc'[q] \in Unlinked => pc[q] \in Unlinked
  /\ pc'[q] \in Young \cup {"submit"} => pc[q] \in Young \cup {"submit"}

LEMMA StepAges ==
  ASSUME InterceptorInv, NEW r \in Request, RequestStep(r)
  PROVE  \A q \in Request : Ages(q)
<1>1. \A S : pc \in [Request -> S] => pc = [q \in Request |-> pc[q]]
  BY Zenon
<1>2. pc = [q \in Request |-> pc[q]]
  BY <1>1, Zenon DEF InterceptorInv, InterceptorTypeOK
<1> DEFINE from == pc[r]
           Late == {"forward", "failed", "aborted", "copy", "upstream", "respond",
                    "record", "deliver", "done"}
<1>3. \E w : /\ pc' = [pc EXCEPT ![r] = w]
             /\ \/ w \in Late
                \/ from = "new" /\ w = "inspect"
                \/ from = "inspect" /\ w = "evaluate"
                \/ from = "evaluate" /\ w \in {"evaluate", "submit", "parent"}
                \/ from = "parent" /\ w = "store"
                \/ from = "store" /\ w = "submit"
  <2>1. CASE SkipRequest(r) \/ Forward(r) \/ ReadResponse(r) \/ InspectResponse(r)
               \/ SubmitResponse(r) \/ Deliver(r) \/ SubmitCall(r)
    BY <2>1, Zenon DEF SkipRequest, SubmitCall, Forward, ReadResponse, InspectResponse,
                       SubmitResponse, Deliver, GoTo
  <2>2. CASE ReadRequest(r) \/ LoadParent(r) \/ StoreLast(r)
    BY <2>2, Zenon DEF ReadRequest, LoadParent, StoreLast, GoTo
  <2>3. CASE InspectRequest(r)
    BY <2>3, Zenon DEF InspectRequest, Panic, GoTo
  <2>4. CASE EvaluateRule(r)
    <3>1. from = "evaluate"
      BY <2>4, Zenon DEF EvaluateRule, EvaluateRuleOf
    <3>2. pc = [pc EXCEPT ![r] = "evaluate"]
      BY <1>2, <3>1, Zenon
    <3>3. \/ pc' = pc
          \/ \E w \in {"aborted", "submit", "parent"} : pc' = [pc EXCEPT ![r] = w]
      BY <2>4, Zenon DEF EvaluateRule, EvaluateRuleOf, Panic, GoTo
    <3> QED BY <3>1, <3>2, <3>3, Zenon
  <2> QED BY <2>1, <2>2, <2>3, <2>4, Zenon DEF RequestStep
<1>4. PICK w : /\ pc' = [pc EXCEPT ![r] = w]
               /\ \/ w \in Late
                  \/ from = "new" /\ w = "inspect"
                  \/ from = "inspect" /\ w = "evaluate"
                  \/ from = "evaluate" /\ w \in {"evaluate", "submit", "parent"}
                  \/ from = "parent" /\ w = "store"
                  \/ from = "store" /\ w = "submit"
  BY <1>3, Zenon
<1>5. pc'[r] = w /\ \A q \in Request : q # r => pc'[q] = pc[q]
  BY <1>2, <1>4, Zenon
<1>6. /\ w \in Young => from \in Young
      /\ w \in Unlinked => from \in Unlinked
      /\ w \in Young \cup {"submit"} => from \in Young \cup {"submit"}
  <2> HIDE DEF from
  <2> QED BY <1>4, SMT DEF Young, Unlinked
<1>7. Ages(r)
  BY <1>5, <1>6, Zenon DEF Ages
<1>8. \A q \in Request : q # r => Ages(q)
  BY <1>5, Zenon DEF Ages
<1> QED BY <1>7, <1>8, Zenon

\* What is in hand of a call goes on, or is given up.
CallStays(q) == pc'[q] \in Evaluated => pc[q] \in Evaluated /\ call'[q].task = call[q].task

LEMMA CallStaysRanked ==
  ASSUME NEW task, NEW rank, NEW r \in Request, CallRanked(task, rank, r),
         parent \in [Request -> Request \cup {NoEvent}], UNCHANGED parent,
         \A q \in Request : Ages(q), CallStays(r)
  PROVE  CallRanked(task, rank, r)'
<1>1. pc'[r] \in Evaluated => call'[r].task = task[r]
  BY Zenon DEF CallRanked, CallStays
<1>2. pc'[r] \in Unlinked => parent'[r] = NoEvent
  BY Zenon DEF CallRanked, Ages
<1>3. ASSUME parent'[r] # NoEvent
      PROVE  /\ pc'[parent'[r]] \notin Young
             /\ task[parent'[r]] = task[r] /\ rank[parent'[r]] < rank[r]
  <2> DEFINE p == parent[r]
  <2>1. p \in Request /\ parent'[r] = p
    BY <1>3, Zenon
  <2>2. pc[p] \notin Young /\ task[p] = task[r] /\ rank[p] < rank[r]
    BY <1>3, <2>1, Zenon DEF CallRanked
  <2> HIDE DEF p
  <2>3. pc'[p] \notin Young
    BY <2>1, <2>2, Zenon DEF Ages
  <2> QED BY <2>1, <2>2, <2>3, Zenon
<1> QED BY <1>1, <1>2, <1>3, Zenon DEF CallRanked

LEMMA LastStaysRanked ==
  ASSUME NEW task, NEW t \in Task, LastRanked(task, t), UNCHANGED lastEvent,
         lastEvent \in [Task -> Request \cup {NoEvent}], \A q \in Request : Ages(q)
  PROVE  LastRanked(task, t)'
<1> SUFFICES ASSUME lastEvent[t] # NoEvent
             PROVE  pc'[lastEvent[t]] \notin Young /\ task[lastEvent[t]] = t
  BY Zenon DEF LastRanked
<1>1. lastEvent[t] \in Request
  BY Zenon
<1>2. pc[lastEvent[t]] \notin Young /\ task[lastEvent[t]] = t
  BY Zenon DEF LastRanked
<1> QED BY <1>1, <1>2, Zenon DEF Ages

\* The types that the steps need.
Shape ==
  /\ pc = [r \in Request |-> pc[r]] /\ call = [r \in Request |-> call[r]]
  /\ parent \in [Request -> Request \cup {NoEvent}]
  /\ lastEvent \in [Task -> Request \cup {NoEvent}]
  /\ ledger \in Seq(Event) /\ NoEvent \notin Request

LEMMA ShapeHolds == InterceptorInv => Shape
<1> SUFFICES ASSUME InterceptorInv PROVE Shape
  OBVIOUS
<1>1. \A S : pc \in [Request -> S] => pc = [q \in Request |-> pc[q]]
  BY Zenon
<1>2. pc = [q \in Request |-> pc[q]]
  BY <1>1, Zenon DEF InterceptorInv, InterceptorTypeOK
<1> QED BY <1>2, InterceptorAssumption, Zenon DEF InterceptorInv, InterceptorTypeOK, CallOK, Shape,
           InterceptorAssumption

\* An event for which EventRanked holds after the step.
RankedNext(task, e) ==
  /\ e.id[1] = "response" => e.parent = NoEvent
  /\ \A r \in Request : e.id = <<"request", r>> =>
       /\ pc'[r] \notin Young \cup {"submit"}
       /\ e.task = task[r] /\ e.parent = parent'[r]

LEMMA EventsRanked ==
  ASSUME Shape, NEW task, \A i \in DOMAIN ledger : RankedNext(task, ledger[i]),
         ledger' = ledger \/ \E e \in Event : ledger' = Append(ledger, e) /\ RankedNext(task, e)
  PROVE  (\A i \in DOMAIN ledger : EventRanked(task, ledger[i]))'
<1> SUFFICES \A i \in DOMAIN ledger' : RankedNext(task, ledger'[i])
  BY Zenon DEF RankedNext, EventRanked
<1>1. CASE ledger' = ledger
  BY <1>1, Zenon
<1>2. ASSUME NEW e \in Event, ledger' = Append(ledger, e), RankedNext(task, e)
      PROVE  \A i \in DOMAIN ledger' : RankedNext(task, ledger'[i])
  <2>1. ledger \in Seq(Event)
    BY Zenon DEF Shape
  <2>2. /\ DOMAIN ledger' = DOMAIN ledger \cup {Len(ledger) + 1}
        /\ ledger'[Len(ledger) + 1] = e
        /\ \A i \in DOMAIN ledger : ledger'[i] = ledger[i]
    BY <1>2, <2>1, AppendProperties, SMT
  <2> QED BY <1>2, <2>2, Zenon
<1> QED BY <1>1, <1>2, Zenon

LEMMA OldEventsRanked ==
  ASSUME NEW task, \A i \in DOMAIN ledger : EventRanked(task, ledger[i]), UNCHANGED parent,
         \A q \in Request : Ages(q)
  PROVE  \A i \in DOMAIN ledger : RankedNext(task, ledger[i])
<1>1. ASSUME NEW i \in DOMAIN ledger, NEW r \in Request, ledger[i].id = <<"request", r>>
      PROVE  /\ pc'[r] \notin Young \cup {"submit"}
             /\ ledger[i].task = task[r] /\ ledger[i].parent = parent'[r]
  <2>1. /\ pc[r] \notin Young \cup {"submit"}
        /\ ledger[i].task = task[r] /\ ledger[i].parent = parent[r]
    BY <1>1, Zenon DEF EventRanked
  <2> QED BY <2>1, Zenon DEF Ages
<1> QED BY <1>1, Zenon DEF EventRanked, RankedNext

\* The steps that give no call a task or a parent.
LEMMA StaysRanked ==
  ASSUME Shape, NEW task, NEW rank, Ranked(task, rank), UNCHANGED parent,
         \A q \in Request : Ages(q) /\ CallStays(q),
         \/ lastEvent' = lastEvent
         \/ \E r \in Request, t \in Task : /\ lastEvent' = [lastEvent EXCEPT ![t] = r]
                                          /\ task[r] = t /\ pc'[r] \notin Young,
         ledger' = ledger \/ \E e \in Event : ledger' = Append(ledger, e) /\ RankedNext(task, e)
  PROVE  Ranked(task, rank)'
<1>1. \A r \in Request : CallRanked(task, rank, r)'
  BY CallStaysRanked, Zenon DEF Ranked, Shape
<1>2. \A t \in Task : LastRanked(task, t)'
  <2>1. CASE lastEvent' = lastEvent
    BY <2>1, LastStaysRanked, Zenon DEF Ranked, Shape
  <2>2. ASSUME NEW r \in Request, NEW t \in Task, lastEvent' = [lastEvent EXCEPT ![t] = r],
               task[r] = t, pc'[r] \notin Young, NEW u \in Task
        PROVE  LastRanked(task, u)'
    <3>1. CASE u = t
      <4>1. lastEvent'[u] = r
        BY <2>2, <3>1, Zenon DEF Shape
      <4> QED BY <2>2, <3>1, <4>1, Zenon DEF LastRanked
    <3>2. CASE u # t
      <4>1. lastEvent'[u] = lastEvent[u] /\ lastEvent[u] \in Request \cup {NoEvent}
        BY <2>2, <3>2, Zenon DEF Shape
      <4>2. lastEvent[u] # NoEvent => pc[lastEvent[u]] \notin Young /\ task[lastEvent[u]] = u
        BY <2>2, Zenon DEF Ranked, LastRanked
      <4>3. lastEvent[u] # NoEvent => pc'[lastEvent[u]] \notin Young
        BY <4>1, <4>2, Zenon DEF Ages
      <4> QED BY <4>1, <4>2, <4>3, Zenon DEF LastRanked
    <3> QED BY <3>1, <3>2, Zenon
  <2> QED BY <2>1, <2>2, Zenon
<1>3. (\A i \in DOMAIN ledger : EventRanked(task, ledger[i]))'
  BY EventsRanked, OldEventsRanked, Zenon DEF Ranked
<1> QED BY <1>1, <1>2, <1>3, Zenon DEF Ranked

(* A call gets its task (server.go:92-108).                                *)
LEMMA TaskRanked ==
  ASSUME Shape, NEW task \in [Request -> TaskId], NEW rank, Ranked(task, rank),
         NEW r \in Request, NEW t \in TaskId, pc[r] = "inspect", call'[r].task = t,
         UNCHANGED <<parent, lastEvent, ledger>>,
         \A q \in Request : Ages(q) /\ (q # r => CallStays(q))
  PROVE  Ranked([task EXCEPT ![r] = t], rank)'
<1> DEFINE next == [task EXCEPT ![r] = t]
<1>1. next[r] = t /\ \A q \in Request : q # r => next[q] = task[q]
  BY Zenon
<1> HIDE DEF next
<1>2. pc[r] \in Young /\ pc[r] \in Unlinked
  BY SMT DEF Young, Unlinked
<1>3. ASSUME NEW q \in Request PROVE CallRanked(next, rank, q)'
  <2>1. CallRanked(task, rank, q)
    BY Zenon DEF Ranked
  <2>2. pc'[q] \in Evaluated => call'[q].task = next[q]
    BY <1>1, <2>1, Zenon DEF CallRanked, CallStays
  <2>3. pc'[q] \in Unlinked => parent'[q] = NoEvent
    BY <2>1, Zenon DEF CallRanked, Ages
  <2>4. ASSUME parent'[q] # NoEvent
        PROVE  /\ pc'[parent'[q]] \notin Young
               /\ next[parent'[q]] = next[q] /\ rank[parent'[q]] < rank[q]
    <3> DEFINE p == parent[q]
    <3>1. p \in Request /\ parent'[q] = p
      BY <2>4, Zenon DEF Shape
    <3>2. pc[p] \notin Young /\ task[p] = task[q] /\ rank[p] < rank[q]
      BY <2>1, <2>4, <3>1, Zenon DEF CallRanked
    <3> HIDE DEF p
    <3>3. p # r
      BY <1>2, <3>2, Zenon
    <3>4. q # r
      BY <1>2, <2>1, <2>4, Zenon DEF CallRanked
    <3>5. pc'[p] \notin Young
      BY <3>1, <3>2, Zenon DEF Ages
    <3> QED BY <1>1, <3>1, <3>2, <3>3, <3>4, <3>5, Zenon
  <2> QED BY <2>2, <2>3, <2>4, Zenon DEF CallRanked
<1>4. ASSUME NEW u \in Task PROVE LastRanked(next, u)'
  <2> SUFFICES ASSUME lastEvent[u] # NoEvent
               PROVE  pc'[lastEvent[u]] \notin Young /\ next[lastEvent[u]] = u
    BY Zenon DEF LastRanked
  <2>1. lastEvent[u] \in Request
    BY Zenon DEF Shape
  <2>2. pc[lastEvent[u]] \notin Young /\ task[lastEvent[u]] = u
    BY Zenon DEF Ranked, LastRanked
  <2>3. lastEvent[u] # r
    BY <1>2, <2>2, Zenon
  <2> QED BY <1>1, <2>1, <2>2, <2>3, Zenon DEF Ages
<1>5. \A i \in DOMAIN ledger : RankedNext(next, ledger[i])
  <2>1. \A i \in DOMAIN ledger : RankedNext(task, ledger[i])
    BY OldEventsRanked, Zenon DEF Ranked
  <2>2. \A i \in DOMAIN ledger : ledger[i].id # <<"request", r>>
    BY <1>2, Zenon DEF Ranked, EventRanked
  <2> QED BY <1>1, <2>1, <2>2, Zenon DEF RankedNext
<1>6. (\A i \in DOMAIN ledger : EventRanked(next, ledger[i]))'
  BY <1>5, EventsRanked, Zenon
<1> QED BY <1>3, <1>4, <1>6, Zenon DEF Ranked, next

(* A call gets its parent, the last event of its task (server.go:225-233). *)
LEMMA ParentRanked ==
  ASSUME Shape, NEW task, NEW rank \in [Request -> Nat], Ranked(task, rank),
         NEW r \in Request, pc[r] = "parent", call[r].task \in Task,
         parent' = [parent EXCEPT ![r] = lastEvent[call[r].task]],
         UNCHANGED <<lastEvent, ledger>>,
         \A q \in Request : Ages(q) /\ CallStays(q), pc'[r] = "store"
  PROVE  \E next \in [Request -> Nat] : Ranked(task, next)'
<1> DEFINE p == lastEvent[call[r].task]
           m == IF p = NoEvent THEN rank[r] ELSE rank[p] + 1
<1>1. pc[r] \in Young /\ pc[r] \in Evaluated /\ "store" \notin Unlinked
  BY SMT DEF Young, Evaluated, Unlinked
<1>2. p \in Request \cup {NoEvent} /\ task[r] = call[r].task
  BY <1>1, Zenon DEF Shape, Ranked, CallRanked
<1>3. p # NoEvent => p \in Request /\ p # r /\ pc[p] \notin Young /\ task[p] = task[r]
  BY <1>1, <1>2, Zenon DEF Ranked, LastRanked
<1>4. m \in Nat /\ (p # NoEvent => rank[p] < m)
  <2>1. rank[r] \in Nat /\ (p # NoEvent => rank[p] \in Nat)
    BY <1>3, Zenon
  <2> HIDE DEF p
  <2> QED BY <2>1, SMT
<1>5. parent'[r] = p /\ \A q \in Request : q # r => parent'[q] = parent[q]
  BY Zenon DEF Shape
<1> HIDE DEF p, m
<1>6. PICK next \in [Request -> Nat] : next[r] = m /\ \A q \in Request : q # r => next[q] = rank[q]
  <2> DEFINE f == [rank EXCEPT ![r] = m]
  <2>1. f \in [Request -> Nat] /\ f[r] = m /\ \A q \in Request : q # r => f[q] = rank[q]
    BY <1>4, Zenon
  <2> QED BY <2>1, Zenon
<1>7. \A q \in Request : parent[q] # r
  BY <1>1, Zenon DEF Ranked, CallRanked, Shape
<1>8. CallRanked(task, next, r)'
  <2>1. pc'[r] \in Evaluated => call'[r].task = task[r]
    BY <1>2, Zenon DEF CallStays
  <2>2. p # NoEvent => pc'[p] \notin Young /\ task[p] = task[r] /\ next[p] < next[r]
    <3>1. p # NoEvent => next[p] = rank[p] /\ pc'[p] \notin Young
      BY <1>3, <1>6, Zenon DEF Ages
    <3> QED BY <1>3, <1>4, <1>6, <3>1, Zenon
  <2> QED BY <1>1, <1>5, <2>1, <2>2, Zenon DEF CallRanked
<1>9. ASSUME NEW q \in Request, q # r PROVE CallRanked(task, next, q)'
  <2>1. CallRanked(task, rank, q) /\ parent'[q] = parent[q]
    BY <1>5, <1>9, Zenon DEF Ranked
  <2>2. pc'[q] \in Evaluated => call'[q].task = task[q]
    BY <2>1, Zenon DEF CallRanked, CallStays
  <2>3. pc'[q] \in Unlinked => parent'[q] = NoEvent
    BY <2>1, Zenon DEF CallRanked, Ages
  <2>4. ASSUME parent[q] # NoEvent
        PROVE  /\ pc'[parent[q]] \notin Young
               /\ task[parent[q]] = task[q] /\ next[parent[q]] < next[q]
    <3>1. parent[q] \in Request /\ parent[q] # r
      BY <1>7, <2>4, Zenon DEF Shape
    <3>2. pc[parent[q]] \notin Young /\ task[parent[q]] = task[q] /\ rank[parent[q]] < rank[q]
      BY <2>1, <2>4, Zenon DEF CallRanked
    <3> QED BY <1>6, <1>9, <3>1, <3>2, Zenon DEF Ages
  <2> QED BY <2>1, <2>2, <2>3, <2>4, Zenon DEF CallRanked
<1>10. \A t \in Task : LastRanked(task, t)'
  BY LastStaysRanked, Zenon DEF Ranked, Shape
<1>11. \A i \in DOMAIN ledger : RankedNext(task, ledger[i])
  <2>1. ASSUME NEW i \in DOMAIN ledger, NEW q \in Request, ledger[i].id = <<"request", q>>
        PROVE  /\ pc'[q] \notin Young \cup {"submit"}
               /\ ledger[i].task = task[q] /\ ledger[i].parent = parent'[q]
    <3>1. /\ pc[q] \notin Young \cup {"submit"}
          /\ ledger[i].task = task[q] /\ ledger[i].parent = parent[q]
      BY <2>1, Zenon DEF Ranked, EventRanked
    <3>2. q # r
      BY <1>1, <3>1, Zenon
    <3> QED BY <1>5, <3>1, <3>2, Zenon DEF Ages
  <2> QED BY <2>1, Zenon DEF Ranked, EventRanked, RankedNext
<1>12. (\A i \in DOMAIN ledger : EventRanked(task, ledger[i]))'
  BY <1>11, EventsRanked, Zenon
<1> QED BY <1>6, <1>8, <1>9, <1>10, <1>12, Zenon DEF Ranked

LEMMA OtherCallsStay ==
  ASSUME InterceptorInv, PolicyKept, NEW r \in Request, RequestStep(r)
  PROVE  \A q \in Request : q # r => CallStays(q)
<1>1. Moves(r)
  BY StepMoves, Zenon
<1> QED BY <1>1, Zenon DEF Moves, CallStays

\* The event that Submit appends.
LEMMA SubmitRanked ==
  ASSUME InterceptorInv, NEW task, NEW r \in Request, NEW id \in Message, Submit(r, id),
         UNCHANGED parent,
         \/ id[1] = "response"
         \/ id = <<"request", r>> /\ call[r].task = task[r] /\ pc'[r] \notin Young \cup {"submit"}
  PROVE  ledger' = ledger \/ \E e \in Event : ledger' = Append(ledger, e) /\ RankedNext(task, e)
<1> DEFINE e == [id |-> id, of |-> call[r].of, task |-> call[r].task,
                 parent |-> IF id[1] = "request" THEN parent[r] ELSE NoEvent]
<1>1. ledger' = ledger \/ ledger' = Append(ledger, e)
  BY Zenon DEF Submit
<1>2. /\ call[r].task \in TaskId /\ call[r].of \in Message \cup {NoMessage}
      /\ parent[r] \in Request \cup {NoEvent}
  BY Zenon DEF InterceptorInv, CallOK, InterceptorTypeOK
<1>3. e \in Event
  BY <1>2, SMT DEF Event
<1>4. e.id = id /\ e.task = call[r].task /\ e.parent = IF id[1] = "request" THEN parent[r] ELSE NoEvent
  BY SMT
<1> HIDE DEF e
<1>5. CASE id[1] = "response"
  <2>1. \A q \in Request : id # <<"request", q>>
    BY <1>5, SMT
  <2>2. id[1] # "request"
    BY <1>5, SMT
  <2>3. RankedNext(task, e)
    BY <1>4, <2>1, <2>2, Zenon DEF RankedNext
  <2> QED BY <1>1, <1>3, <2>3, Zenon
<1>6. CASE id = <<"request", r>> /\ call[r].task = task[r] /\ pc'[r] \notin Young \cup {"submit"}
  <2>1. id[1] = "request" /\ id[1] # "response" /\ \A q \in Request : id = <<"request", q>> => q = r
    BY <1>6, SMT
  <2>2. RankedNext(task, e)
    BY <1>4, <1>6, <2>1, Zenon DEF RankedNext
  <2> QED BY <1>1, <1>3, <2>2, Zenon
<1> QED BY <1>5, <1>6, Zenon

LEMMA RequestKeepsTrace ==
  ASSUME InterceptorInv, PolicyKept, TraceInv, NEW r \in Request, RequestStep(r)
  PROVE  TraceInv'
<1>1. PICK task \in [Request -> TaskId], rank \in [Request -> Nat] : Ranked(task, rank)
  BY Zenon DEF TraceInv
<1>2. Shape /\ \A q \in Request : Ages(q)
  BY ShapeHolds, StepAges, Zenon
<1>3. \A q \in Request : q # r => CallStays(q)
  BY OtherCallsStay, Zenon
<1>4. \A w : pc' = [pc EXCEPT ![r] = w] => pc'[r] = w
  BY <1>2, Zenon DEF Shape
<1>5. CallRanked(task, rank, r)
  BY <1>1, Zenon DEF Ranked
<1>6. ASSUME Ranked(task, rank)' PROVE TraceInv'
  BY <1>1, <1>6, Zenon DEF TraceInv
<1>7. CASE SkipRequest(r) \/ ReadRequest(r) \/ Forward(r) \/ ReadResponse(r)
             \/ InspectResponse(r) \/ Deliver(r)
  <2>1. UNCHANGED <<parent, lastEvent, ledger>>
    BY <1>7, Zenon DEF SkipRequest, ReadRequest, Forward, ReadResponse, InspectResponse, Deliver,
                       taskVars
  <2>2. pc'[r] \notin Evaluated
    <3>1. pc'[r] \in {"forward", "failed", "inspect", "upstream", "respond", "deliver", "record", "done"}
      BY <1>4, <1>7, Zenon DEF SkipRequest, ReadRequest, Forward, ReadResponse, InspectResponse,
                               Deliver, GoTo
    <3> QED BY <3>1, SMT DEF Evaluated
  <2>3. \A q \in Request : Ages(q) /\ CallStays(q)
    BY <1>2, <1>3, <2>2, Zenon DEF CallStays
  <2>4. Ranked(task, rank)'
    BY <1>1, <1>2, <2>1, <2>3, StaysRanked, Zenon
  <2> QED BY <1>6, <2>4, Zenon
<1>8. CASE SubmitCall(r) \/ SubmitResponse(r)
  <2>1. UNCHANGED <<parent, lastEvent>>
    BY <1>8, Zenon DEF SubmitCall, SubmitResponse, taskVars
  <2>2. pc'[r] \notin Evaluated /\ pc'[r] \notin Young \cup {"submit"}
    <3>1. pc'[r] \in {"forward", "copy", "deliver"}
      BY <1>4, <1>8, Zenon DEF SubmitCall, SubmitResponse, GoTo
    <3> QED BY <3>1, SMT DEF Evaluated, Young
  <2>3. \A q \in Request : Ages(q) /\ CallStays(q)
    BY <1>2, <1>3, <2>2, Zenon DEF CallStays
  <2>4. ledger' = ledger \/ \E e \in Event : ledger' = Append(ledger, e) /\ RankedNext(task, e)
    <3>1. CASE SubmitResponse(r)
      <4>1. <<"response", r>> \in Message /\ <<"response", r>>[1] = "response"
        BY SMT DEF Message
      <4>2. Submit(r, <<"response", r>>)
        BY <3>1, Zenon DEF SubmitResponse
      <4> QED BY <2>1, <4>1, <4>2, SubmitRanked, Zenon
    <3>2. CASE SubmitCall(r)
      <4>1. <<"request", r>> \in Message
        BY SMT DEF Message
      <4>2. Submit(r, <<"request", r>>) /\ pc[r] = "submit"
        BY <3>2, Zenon DEF SubmitCall
      <4>3. call[r].task = task[r]
        BY <1>5, <4>2, Zenon DEF CallRanked, Evaluated
      <4> QED BY <2>1, <2>2, <4>1, <4>2, <4>3, SubmitRanked, Zenon
    <3> QED BY <1>8, <3>1, <3>2, Zenon
  <2>5. Ranked(task, rank)'
    BY <1>1, <1>2, <2>1, <2>3, <2>4, StaysRanked, Zenon
  <2> QED BY <1>6, <2>5, Zenon
<1>9. CASE StoreLast(r)
  <2>1. /\ pc[r] = "store" /\ pc'[r] = "submit" /\ UNCHANGED <<parent, call, ledger>>
        /\ lastEvent' = [lastEvent EXCEPT ![call[r].task] = r]
    BY <1>4, <1>9, Zenon DEF StoreLast, GoTo
  <2>2. pc[r] \in Evaluated /\ pc[r] \in {"parent", "store"} /\ pc'[r] \notin Young
    BY <2>1, SMT DEF Evaluated, Young
  <2>3. call[r].task \in Task /\ call[r].task = task[r]
    BY <1>5, <2>2, Zenon DEF CallRanked, InterceptorInv, CallOK
  <2>4. \A q \in Request : Ages(q) /\ CallStays(q)
    BY <1>2, <1>3, <2>1, <2>2, Zenon DEF CallStays
  <2>5. \E q \in Request, t \in Task : /\ lastEvent' = [lastEvent EXCEPT ![t] = q]
                                       /\ task[q] = t /\ pc'[q] \notin Young
    BY <2>1, <2>2, <2>3, Zenon
  <2>6. Ranked(task, rank)'
    BY <1>1, <1>2, <2>1, <2>4, <2>5, StaysRanked, Zenon
  <2> QED BY <1>6, <2>6, Zenon
<1>10. CASE LoadParent(r)
  <2>1. /\ pc[r] = "parent" /\ pc'[r] = "store" /\ UNCHANGED <<lastEvent, call, ledger>>
        /\ parent' = [parent EXCEPT ![r] = lastEvent[call[r].task]]
    BY <1>4, <1>10, Zenon DEF LoadParent, GoTo
  <2>2. pc[r] \in Evaluated /\ pc[r] \in {"parent", "store"}
    BY <2>1, SMT DEF Evaluated
  <2>3. call[r].task \in Task
    BY <2>2, Zenon DEF InterceptorInv, CallOK
  <2>4. \A q \in Request : Ages(q) /\ CallStays(q)
    BY <1>2, <1>3, <2>1, <2>2, Zenon DEF CallStays
  <2>5. \E next \in [Request -> Nat] : Ranked(task, next)'
    BY <1>1, <1>2, <2>1, <2>3, <2>4, ParentRanked, Zenon
  <2> QED BY <1>1, <2>5, Zenon DEF TraceInv
<1>11. CASE InspectRequest(r)
  <2>1. pc[r] = "inspect" /\ UNCHANGED <<parent, lastEvent, ledger>>
    BY <1>11, Zenon DEF InspectRequest, taskVars
  <2>2. CASE pc'[r] \notin Evaluated
    <3>1. \A q \in Request : Ages(q) /\ CallStays(q)
      BY <1>2, <1>3, <2>2, Zenon DEF CallStays
    <3>2. Ranked(task, rank)'
      BY <1>1, <1>2, <2>1, <3>1, StaysRanked, Zenon
    <3> QED BY <1>6, <3>2, Zenon
  <2>3. CASE pc'[r] \in Evaluated
    <3>1. PICK t : t = call'[r].task
      BY Zenon
    <3>2. t \in TaskId
      BY <3>1, InterceptorStepKeeps, Zenon DEF InterceptorInv, CallOK, InterceptorNext
    <3>3. Ranked([task EXCEPT ![r] = t], rank)'
      BY <1>1, <1>2, <1>3, <2>1, <3>1, <3>2, TaskRanked, Zenon
    <3>4. [task EXCEPT ![r] = t] \in [Request -> TaskId]
      BY <1>1, <3>2, Zenon
    <3> QED BY <1>1, <3>3, <3>4, Zenon DEF TraceInv
  <2> QED BY <2>2, <2>3, Zenon
<1>12. CASE EvaluateRule(r)
  <2>1. pc[r] = "evaluate" /\ UNCHANGED <<parent, lastEvent, ledger>>
    BY <1>12, Zenon DEF EvaluateRule, EvaluateRuleOf, taskVars
  <2>2. CallStays(r)
    <3>1. CASE GoTo(r, "aborted")
      <4>1. "aborted" \notin Evaluated
        BY SMT DEF Evaluated
      <4> QED BY <1>4, <3>1, <4>1, Zenon DEF CallStays, GoTo
    <3>2. CASE call' = call \/ \E i : call' = [call EXCEPT ![r] = AtRule(call[r], i)]
      <4>1. \A i : AtRule(call[r], i).task = call[r].task
        BY Zenon DEF AtRule
      <4>2. call'[r] = call[r] \/ \E i : call'[r] = AtRule(call[r], i)
        BY <1>2, <3>2, Zenon DEF Shape
      <4>3. call'[r].task = call[r].task
        BY <4>1, <4>2, Zenon
      <4> QED BY <2>1, <4>3, ChosenFacts, Zenon DEF CallStays
    <3> QED BY <1>12, <3>1, <3>2, Zenon DEF EvaluateRule, EvaluateRuleOf, Panic
  <2>3. \A q \in Request : Ages(q) /\ CallStays(q)
    BY <1>2, <1>3, <2>2, Zenon
  <2>4. Ranked(task, rank)'
    BY <1>1, <1>2, <2>1, <2>3, StaysRanked, Zenon
  <2> QED BY <1>6, <2>4, Zenon
<1> QED BY <1>7, <1>8, <1>9, <1>10, <1>11, <1>12, Zenon DEF RequestStep

LEMMA TraceInvStep ==
  InterceptorInv /\ PolicyKept /\ TraceInv /\ [InterceptorNext]_interceptorVars => TraceInv'
<1> SUFFICES ASSUME InterceptorInv, PolicyKept, TraceInv, [InterceptorNext]_interceptorVars
             PROVE  TraceInv'
  OBVIOUS
<1>1. ASSUME UNCHANGED <<pc, call, parent, lastEvent, ledger>> PROVE TraceInv'
  <2>1. PICK task \in [Request -> TaskId], rank \in [Request -> Nat] : Ranked(task, rank)
    BY Zenon DEF TraceInv
  <2>2. \A q \in Request : Ages(q) /\ CallStays(q)
    BY <1>1, Zenon DEF Ages, CallStays
  <2>3. Shape /\ UNCHANGED <<parent, lastEvent, ledger>>
    BY <1>1, ShapeHolds, Zenon
  <2>4. Ranked(task, rank)'
    BY <2>1, <2>2, <2>3, StaysRanked, Zenon
  <2> QED BY <2>1, <2>4, Zenon DEF TraceInv
<1>2. CASE TurnUnhealthy \/ UNCHANGED interceptorVars
  BY <1>1, <1>2, Zenon DEF TurnUnhealthy, interceptorVars, localVars, taskVars
<1>3. ASSUME NEW p \in Policies, Reload(p) PROVE TraceInv'
  BY <1>1, <1>3, Zenon DEF Reload, taskVars
<1> QED BY <1>2, <1>3, RequestKeepsTrace, Zenon DEF InterceptorNext

LEMMA TraceInvInit == InterceptorInit => TraceInv
<1> SUFFICES ASSUME InterceptorInit PROVE TraceInv
  OBVIOUS
<1>1. /\ \A r \in Request : pc[r] = "new" /\ parent[r] = NoEvent
      /\ \A t \in Task : lastEvent[t] = NoEvent
      /\ ledger = <<>>
  BY Zenon DEF InterceptorInit
<1>2. "new" \notin Evaluated /\ DOMAIN ledger = {}
  BY <1>1, SMT DEF Evaluated
<1>3. \A task, rank : Ranked(task, rank)
  BY <1>1, <1>2, Zenon DEF Ranked, CallRanked, LastRanked
<1>4. [r \in Request |-> NoTask] \in [Request -> TaskId] /\ [r \in Request |-> 0] \in [Request -> Nat]
  BY SMT DEF TaskId
<1> QED BY <1>3, <1>4, Zenon DEF TraceInv

(* Parents never form a cycle, and a parent is a call of the same task     *)
(* (server.go:225-236).                                                    *)
THEOREM ParentsAreRanked == InterceptorSpec => []TraceInv
BY TraceInvInit, TraceInvStep, InterceptorInvariant, PolicyIsKept, PTL DEF InterceptorSpec

(* A call has one event in the ledger.                                     *)
LEMMA CallsHaveOneEvent ==
  ASSUME InterceptorInv, NEW task, NEW rank, Ranked(task, rank), NEW t
  PROVE  OneEach(GetEventsByTaskID(t))
<1> DEFINE E == GetEventsByTaskID(t)
<1>1. ASSUME NEW e \in E
      PROVE  /\ e \in Event /\ e.of = e.id
             /\ \A r \in Request : e.id = <<"request", r>> => e.task = task[r] /\ e.parent = parent[r]
  <2>1. PICK i \in DOMAIN ledger : e = ledger[i]
    BY <1>1, Zenon DEF GetEventsByTaskID
  <2>2. ledger \in Seq(Event) /\ e.of = e.id
    BY <2>1, Zenon DEF InterceptorInv, CallOK, RecordsOwnBody
  <2>3. e \in Event
    BY <2>1, <2>2, LenProperties, ElementOfSeq, Zenon
  <2> QED BY <2>1, <2>2, <2>3, Zenon DEF Ranked, EventRanked
<1> HIDE DEF E
<1>2. \A e \in E : \A r : e.id = <<"request", r>> => r \in Request
  <2>1. ASSUME NEW e \in E, NEW r, e.id = <<"request", r>> PROVE r \in Request
    <3>1. e.id \in Message
      BY <1>1, SMT DEF Event
    <3> QED BY <2>1, <3>1, SMT DEF Message
  <2> QED BY <2>1, Zenon
<1>3. ASSUME NEW e \in E, NEW f \in E, NEW r, e.id = <<"request", r>>, f.id = <<"request", r>>
      PROVE  e = f
  <2>1. /\ e \in Event /\ f \in Event
        /\ e.id = f.id /\ e.of = f.of /\ e.task = f.task /\ e.parent = f.parent
    <3>1. r \in Request
      BY <1>2, <1>3, Zenon
    <3>2. e \in Event /\ e.of = e.id /\ e.task = task[r] /\ e.parent = parent[r]
      BY <1>1, <1>3, <3>1, Zenon
    <3>3. f \in Event /\ f.of = f.id /\ f.task = task[r] /\ f.parent = parent[r]
      BY <1>1, <1>3, <3>1, Zenon
    <3>4. e.id = f.id
      BY <1>3, Zenon
    <3> QED BY <3>2, <3>3, <3>4, Zenon
  <2> QED BY <2>1, SMT DEF Event
<1>4. NoEvent \notin Request
  BY InterceptorAssumption, Zenon DEF InterceptorAssumption
<1> QED BY <1>2, <1>3, <1>4, Zenon DEF OneEach, E

(* The walk from the roots comes to each event all of whose ancestors were *)
(* read.                                                                   *)
LEMMA AncestorsLeadTo ==
  ASSUME ledger \in Seq(Event), parent \in [Request -> Request \cup {NoEvent}],
         NEW task \in [Request -> TaskId], NEW rank \in [Request -> Nat], Ranked(task, rank),
         NEW t, OneEach(GetEventsByTaskID(t)), ~Trace(t).panics,
         NEW r \in Request, \A a \in Ancestors(r) : Fetched(t, a)
  PROVE  \A e \in GetEventsByTaskID(t) : e.id = <<"request", r>> => e \in Trace(t).shown
<1> DEFINE E == GetEventsByTaskID(t)
           Tree == Trace(t).shown
           Shown(q) == \A e \in E : e.id = <<"request", q>> => e \in Tree
           A == Ancestors(r)
<1>1. /\ r \in A /\ A \subseteq Request
      /\ \A q \in A : parent[q] # NoEvent => parent[q] \in A
  BY AncestorsAreClosed, Zenon
<1>2. Roots(E) \subseteq Tree /\ \A e \in Tree : Children(E, e) \subseteq Tree
  BY TreeIsClosed, Zenon
<1>3. \A e \in E : \A q \in Request : e.id = <<"request", q>> => e.parent = parent[q]
  <2>1. \A e \in E : EventRanked(task, e)
    BY Zenon DEF Ranked, GetEventsByTaskID
  <2> HIDE DEF E
  <2> QED BY <2>1, Zenon DEF EventRanked
<1>7. \A a \in A : \E e \in E : e.id = <<"request", a>>
  BY Zenon DEF Fetched
<1> HIDE DEF A, Tree, E
<1>4. ASSUME NEW q \in A, parent[q] # NoEvent => Shown(parent[q]) PROVE Shown(q)
  <2> SUFFICES ASSUME NEW e \in E, e.id = <<"request", q>>
               PROVE  e \in Tree
    BY Zenon
  <2>1. e.parent = parent[q]
    BY <1>1, <1>3, Zenon
  <2>2. CASE parent[q] = NoEvent
    BY <1>2, <2>1, <2>2, Zenon DEF Roots
  <2>3. CASE parent[q] # NoEvent
    <3>1. PICK f \in E : f.id = <<"request", parent[q]>>
      BY <1>1, <1>7, <2>3, Zenon
    <3>2. f \in Tree
      BY <1>4, <2>3, <3>1, Zenon
    <3>3. e \in Children(E, f)
      BY <2>1, <3>1, Zenon DEF Children
    <3> QED BY <1>2, <3>2, <3>3, Zenon
  <2> QED BY <2>2, <2>3, Zenon
<1> HIDE DEF Shown
<1>5. ASSUME NEW q \in A, ~Shown(q) PROVE FALSE
  <2> DEFINE T == {rank[p] : p \in {x \in A : ~Shown(x)}}
  <2>1. T \in SUBSET Nat /\ T # {}
    BY <1>1, <1>5, Zenon
  <2> HIDE DEF T
  <2>2. PICK n \in T : \A m \in T : ~(m < n)
    BY <2>1, LeastNumber, Zenon
  <2>3. PICK p \in A : ~Shown(p) /\ n = rank[p]
    BY <2>2, Zenon DEF T
  <2>4. parent[p] # NoEvent => Shown(parent[p])
    <3>1. parent[p] # NoEvent => parent[p] \in A /\ rank[parent[p]] < rank[p]
      BY <1>1, <2>3, Zenon DEF Ranked, CallRanked
    <3>2. parent[p] # NoEvent /\ ~Shown(parent[p]) => rank[parent[p]] \in T
      BY <3>1, Zenon DEF T
    <3> QED BY <2>2, <2>3, <3>1, <3>2, Zenon
  <2> QED BY <1>4, <2>3, <2>4, Zenon
<1>6. Shown(r)
  BY <1>1, <1>5, Zenon
<1> QED BY <1>6, Zenon DEF Shown, Tree, E

(* For any number of requests, any limits and every order in which         *)
(* requests load, store and record, a trace that does not end in a panic   *)
(* shows each event that was read and whose ancestors were read            *)
(* (server.go:225-236, events.go:270-317, trace.go:100-207).               *)
THEOREM TracesShowDescendants == InterceptorSpec => []TraceShowsDescendants
<1>1. ASSUME InterceptorInv, TraceInv PROVE TraceShowsDescendants
  <2>1. PICK task \in [Request -> TaskId], rank \in [Request -> Nat] : Ranked(task, rank)
    BY <1>1, Zenon DEF TraceInv
  <2>2. ledger \in Seq(Event) /\ parent \in [Request -> Request \cup {NoEvent}]
    BY <1>1, Zenon DEF InterceptorInv, InterceptorTypeOK, CallOK
  <2> SUFFICES ASSUME NEW t \in Task, ~Trace(t).panics, NEW e \in GetEventsByTaskID(t),
                      e.id[1] = "request" => \A a \in Ancestors(e.id[2]) : Fetched(t, a)
               PROVE  e \in Trace(t).shown
    BY Zenon DEF TraceShowsDescendants
  <2>3. OneEach(GetEventsByTaskID(t))
    BY <1>1, <2>1, CallsHaveOneEvent, Zenon
  <2>4. e.id \in Message /\ EventRanked(task, e)
    <3>1. PICK i \in DOMAIN ledger : e = ledger[i]
      BY Zenon DEF GetEventsByTaskID
    <3>2. e \in Event
      BY <2>2, <3>1, LenProperties, ElementOfSeq, Zenon
    <3>3. e.id \in Message
      BY <3>2, SMT DEF Event
    <3> QED BY <2>1, <3>1, <3>3, Zenon DEF Ranked
  <2>5. CASE e.id[1] = "response"
    <3>1. e \in Roots(GetEventsByTaskID(t))
      BY <2>4, <2>5, Zenon DEF EventRanked, Roots
    <3> QED BY <2>2, <2>3, <3>1, TreeIsClosed, Zenon
  <2>6. CASE e.id[1] # "response"
    <3>1. PICK r \in Request : e.id = <<"request", r>>
      BY <2>4, <2>6, SMT DEF Message
    <3>2. e.id[1] = "request" /\ e.id[2] = r
      BY <3>1, SMT
    <3>3. \A a \in Ancestors(r) : Fetched(t, a)
      BY <3>2, Zenon
    <3> QED BY <2>1, <2>2, <2>3, <3>1, <3>3, AncestorsLeadTo, Zenon
  <2> QED BY <2>5, <2>6, Zenon
<1> QED BY <1>1, InterceptorInvariant, ParentsAreRanked, PTL
=============================================================================
