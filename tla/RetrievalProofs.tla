---------------------------- MODULE RetrievalProofs ---------------------------
(***************************************************************************)
(* Theorems about Chunking and Retrieval, for every text, table, library    *)
(* and question: type correctness; chunking loses nothing and nearly keeps  *)
(* its cap; the graph only adds to an answer; a context fills its budget.   *)
(* Both modules compute with folds.  Induction here is over a set of        *)
(* numbers (a set of numbers that is not empty has a least one); each fold  *)
(* is unfolded once into "nothing" and "one element more", and the rest of  *)
(* the argument uses these two.                                             *)
(***************************************************************************)
EXTENDS Retrieval, WellFoundedInduction, FiniteSetTheorems, TLAPS

-----------------------------------------------------------------------------
(* Induction. *)

\* A set of numbers that is not empty has a least one.
LEMMA LeastNumber ==
  ASSUME NEW T, T \subseteq Nat, T # {}
  PROVE  \E x \in T : \A y \in T : x <= y
  <1>1. IsWellFoundedOn(OpToRel(<, Nat), Nat)  BY NatLessThanWellFounded
  <1>2. PICK x \in T : \A y \in T : ~(<<y, x>> \in OpToRel(<, Nat))
    BY <1>1, WFMin
  <1>3. \A y \in T : ~(y < x)
    BY <1>2 DEF OpToRel
  <1>4. \A y \in T : x \in Nat /\ y \in Nat  OBVIOUS
  <1>5. \A y \in T : x <= y  BY <1>3, <1>4
  <1> QED  BY <1>2, <1>5

\* A set that has 0 and every number's successor up to n has n.
LEMMA Induction ==
  ASSUME NEW n \in Nat, NEW S, 0 \in S, \A k \in 0 .. n - 1 : k \in S => k + 1 \in S
  PROVE  \A k \in 0 .. n : k \in S
  <1> DEFINE T == (0 .. n) \ S
  <1>1. SUFFICES ASSUME T # {} PROVE FALSE  OBVIOUS
  <1>2. PICK x \in T : \A y \in T : x <= y
    <2>1. T \subseteq Nat  OBVIOUS
    <2> HIDE DEF T
    <2> QED  BY <1>1, <2>1, LeastNumber
  <1>3. x # 0 /\ x - 1 \in 0 .. n - 1  BY <1>2
  <1>4. x - 1 \in S  BY <1>2, <1>3
  <1> QED  BY <1>2, <1>3, <1>4

\* The greatest of some numbers up to n.
LEMMA GreatestNumber ==
  ASSUME NEW n \in Nat, NEW d, d \subseteq 0 .. n, d # {}
  PROVE  \E x \in d : \A y \in d : y <= x
  <1> DEFINE T == {x \in Nat : n - x \in d}
  <1>1. \A y \in d : n - y \in T /\ y \in Nat  OBVIOUS
  <1>2. T # {}  BY <1>1
  <1>3. PICK x \in T : \A y \in T : x <= y
    <2>1. T \subseteq Nat  OBVIOUS
    <2> HIDE DEF T
    <2> QED  BY <1>2, <2>1, LeastNumber
  <1>4. n - x \in d /\ \A y \in d : n - x >= y  BY <1>1, <1>3
  <1> QED  BY <1>4

\* Max picks it, and leaves numbers below it.
LEMMA MaxOf ==
  ASSUME NEW n \in Nat, NEW d, d \subseteq 1 .. n, d # {}
  PROVE  /\ Max(d) \in d
         /\ \A y \in d : y <= Max(d)
         /\ d \ {Max(d)} \subseteq 1 .. n
  <1>1. d \subseteq 0 .. n  OBVIOUS
  <1>2. PICK x \in d : \A y \in d : y <= x  BY <1>1, GreatestNumber
  <1>3. \A y \in d : x >= y  BY <1>1, <1>2
  <1>4. Max(d) \in d /\ \A y \in d : Max(d) >= y  BY <1>2, <1>3 DEF Max
  <1> QED  BY <1>1, <1>4

-----------------------------------------------------------------------------
(* Folds.  FoldLeft takes the indices of a sequence off their set, the        *)
(* greatest first; its steps are those of a function G of the value so far    *)
(* and an index.                                                              *)

\* g is the fold of the step G over the sets of indices up to n.
Folding(g, n, A, base, G) ==
  /\ g \in [SUBSET (1 .. n) -> A]
  /\ \A d \in SUBSET (1 .. n) : g[d] = IF d = {} THEN base ELSE G[<<g[d \ {Max(d)}], Max(d)>>]

\* The recursion has a solution.
LEMMA FoldExists ==
  ASSUME NEW n \in Nat, NEW A, NEW base \in A, NEW G \in [A \X (1 .. n) -> A]
  PROVE  \E g : Folding(g, n, A, base, G)
  <1> DEFINE Good(g, k) == \A d \in SUBSET (1 .. k) :
                             g[d] = IF d = {} THEN base ELSE G[<<g[d \ {Max(d)}], Max(d)>>]
             P(k) == \E g \in [SUBSET (1 .. k) -> A] : Good(g, k)
             S == {k \in 0 .. n : P(k)}
  <1>1. P(0)
    <2>1. Good([d \in SUBSET (1 .. 0) |-> base], 0)  BY MaxOf
    <2>2. [d \in SUBSET (1 .. 0) |-> base] \in [SUBSET (1 .. 0) -> A]  OBVIOUS
    <2> QED  BY <2>1, <2>2
  <1>2. ASSUME NEW k \in 0 .. n - 1, P(k)  PROVE P(k + 1)
    <2>1. PICK g \in [SUBSET (1 .. k) -> A] : Good(g, k)  BY <1>2
    <2> DEFINE h == [d \in SUBSET (1 .. k + 1) |->
                       IF k + 1 \in d THEN G[<<g[d \ {k + 1}], k + 1>>] ELSE g[d]]
    <2>2. \A d \in SUBSET (1 .. k + 1) : /\ k + 1 \in d => d \ {k + 1} \in SUBSET (1 .. k)
                                         /\ k + 1 \notin d => d \in SUBSET (1 .. k)
      OBVIOUS
    <2>3. h \in [SUBSET (1 .. k + 1) -> A]
      <3>1. ASSUME NEW d \in SUBSET (1 .. k + 1)  PROVE h[d] \in A
        <4>1. CASE k + 1 \in d
          <5>1. g[d \ {k + 1}] \in A /\ k + 1 \in 1 .. n  BY <2>2, <4>1
          <5> QED  BY <4>1, <5>1
        <4>2. CASE k + 1 \notin d  BY <2>2, <4>2
        <4> QED  BY <4>1, <4>2
      <3> QED  BY <3>1
    <2>4. ASSUME NEW d \in SUBSET (1 .. k + 1)
          PROVE  h[d] = IF d = {} THEN base ELSE G[<<h[d \ {Max(d)}], Max(d)>>]
      <3>1. CASE d = {}
        <4>1. h[d] = g[d] /\ d \in SUBSET (1 .. k)  BY <3>1
        <4> QED  BY <2>1, <3>1, <4>1
      <3>2. CASE k + 1 \in d
        <4>1. d \subseteq 1 .. k + 1 /\ k + 1 \in Nat /\ d # {}  BY <3>2
        <4>2. Max(d) \in d /\ \A y \in d : y <= Max(d)  BY <4>1, MaxOf
        <4>3. Max(d) \in 1 .. k + 1 /\ k + 1 <= Max(d)  BY <3>2, <4>2
        <4>4. Max(d) = k + 1  BY <4>3
        <4>5. h[d \ {k + 1}] = g[d \ {k + 1}]  BY <2>2, <3>2
        <4> QED  BY <3>2, <4>4, <4>5
      <3>3. CASE k + 1 \notin d /\ d # {}
        <4>1. d \in SUBSET (1 .. k)  BY <2>2, <3>3
        <4>2. Max(d) \in d /\ d \ {Max(d)} \in SUBSET (1 .. k)
          <5>1. k \in Nat /\ d \subseteq 1 .. k  BY <4>1
          <5> QED  BY <3>3, <5>1, MaxOf
        <4>3. h[d] = g[d] /\ h[d \ {Max(d)}] = g[d \ {Max(d)}]  BY <4>1, <4>2
        <4> QED  BY <2>1, <3>3, <4>1, <4>3
      <3> QED  BY <3>1, <3>2, <3>3
    <2> HIDE DEF h
    <2> QED  BY <2>3, <2>4
  <1> HIDE DEF P
  <1>3. 0 \in S /\ \A k \in 0 .. n - 1 : k \in S => k + 1 \in S  BY <1>1, <1>2
  <1> HIDE DEF S
  <1>4. n \in S  BY <1>3, Induction
  <1>5. P(n)  BY <1>4 DEF S
  <1> QED  BY <1>5 DEF P, Folding

\* The greatest of an initial segment is its last.
LEMMA Segment ==
  ASSUME NEW n \in Nat, NEW k \in 1 .. n
  PROVE  /\ 1 .. k \in SUBSET (1 .. n) /\ 1 .. k # {}
         /\ Max(1 .. k) = k
         /\ (1 .. k) \ {Max(1 .. k)} = 1 .. k - 1
  <1> DEFINE d == 1 .. k
  <1>1. k \in Nat /\ d \subseteq 1 .. n /\ d # {} /\ k \in d  OBVIOUS
  <1>2. \A y \in d : y \in Nat /\ y <= k  OBVIOUS
  <1>3. d \ {k} = 1 .. k - 1  OBVIOUS
  <1> HIDE DEF d
  <1>4. Max(d) \in d /\ k <= Max(d)  BY <1>1, MaxOf
  <1>5. Max(d) \in Nat /\ Max(d) <= k  BY <1>2, <1>4
  <1>6. Max(d) = k  BY <1>1, <1>4, <1>5
  <1> QED  BY <1>1, <1>3, <1>6 DEF d

\* As a fold, if f has kept to A so far.
Unfolding(f, n, A, base, G) ==
  /\ f = [d \in SUBSET (1 .. n) |-> f[d]] /\ f[{}] = base
  /\ \A d \in SUBSET (1 .. n) :
       d # {} /\ f[d \ {Max(d)}] \in A => f[d] = G[<<f[d \ {Max(d)}], Max(d)>>]

\* Then it keeps to A.
LEMMA FoldTyped ==
  ASSUME NEW n \in Nat, NEW A, NEW base \in A, NEW G \in [A \X (1 .. n) -> A], NEW f,
         Unfolding(f, n, A, base, G)
  PROVE  Folding(f, n, A, base, G)
  <1> USE DEF Unfolding
  <1> DEFINE S == {k \in 0 .. n : \A d \in SUBSET (1 .. k) : f[d] \in A}
  <1>1. 0 \in S
    <2>1. \A d \in SUBSET (1 .. 0) : d = {}  OBVIOUS
    <2>2. \A d \in SUBSET (1 .. 0) : f[d] \in A  BY <2>1
    <2>3. 0 \in 0 .. n  OBVIOUS
    <2> QED  BY <2>2, <2>3
  <1>2. ASSUME NEW k \in 0 .. n - 1, k \in S  PROVE k + 1 \in S
    <2>1. ASSUME NEW d \in SUBSET (1 .. k + 1)  PROVE f[d] \in A
      <3>1. CASE d = {}  BY <3>1
      <3>2. CASE d # {}
        <4>1. d \subseteq 1 .. k + 1 /\ k + 1 \in Nat /\ d \in SUBSET (1 .. n)  OBVIOUS
        <4>2. Max(d) \in d /\ \A y \in d : y <= Max(d)  BY <3>2, <4>1, MaxOf
        <4>3. d \ {Max(d)} \in SUBSET (1 .. k)  BY <4>1, <4>2
        <4>4. f[d \ {Max(d)}] \in A  BY <1>2, <4>3
        <4>5. f[d] = G[<<f[d \ {Max(d)}], Max(d)>>] /\ Max(d) \in 1 .. n  BY <3>2, <4>1, <4>2, <4>4
        <4> QED  BY <4>4, <4>5
      <3> QED  BY <3>1, <3>2
    <2>2. k + 1 \in 0 .. n  OBVIOUS
    <2> QED  BY <2>1, <2>2
  <1> HIDE DEF S
  <1>3. n \in S  BY <1>1, <1>2, Induction
  <1>4. \A d \in SUBSET (1 .. n) : f[d] \in A  BY <1>3 DEF S
  <1>5. ASSUME NEW d \in SUBSET (1 .. n), d # {}  PROVE f[d] = G[<<f[d \ {Max(d)}], Max(d)>>]
    <2>1. d \ {Max(d)} \in SUBSET (1 .. n)  OBVIOUS
    <2> QED  BY <1>4, <1>5, <2>1
  <1> QED  BY <1>4, <1>5 DEF Folding

\* H takes the n steps of G, and has one more, the m-th.
Longer(H, m, G, n, A) == m = n + 1 /\ \A a \in A, k \in 1 .. n : G[<<a, k>>] = H[<<a, k>>]

\* The fold of a sequence one longer takes one step more.
LEMMA FoldAppend ==
  ASSUME NEW n \in Nat, NEW m, NEW A, NEW base, NEW G, NEW H, NEW g, NEW h,
         Folding(g, n, A, base, G), Folding(h, m, A, base, H),
         Longer(H, m, G, n, A)
  PROVE  h[1 .. m] = H[<<g[1 .. n], m>>]
  <1>0. m = n + 1 /\ \A a \in A, k \in 1 .. n : G[<<a, k>>] = H[<<a, k>>]  BY DEF Longer
  <1> DEFINE S == {k \in 0 .. n : h[1 .. k] = g[1 .. k]}
  <1>1. 0 \in S
    <2>1. 1 .. 0 = {} /\ {} \in SUBSET (1 .. n) /\ {} \in SUBSET (1 .. n + 1) /\ 0 \in 0 .. n  OBVIOUS
    <2> QED  BY <1>0, <2>1 DEF Folding
  <1>2. ASSUME NEW k \in 1 .. n + 1  PROVE h[1 .. k] = H[<<h[1 .. k - 1], k>>]
    <2>1. n + 1 \in Nat  OBVIOUS
    <2>2. 1 .. k \in SUBSET (1 .. n + 1) /\ 1 .. k # {} /\ Max(1 .. k) = k
          /\ (1 .. k) \ {Max(1 .. k)} = 1 .. k - 1
      BY <2>1, Segment
    <2> QED  BY <1>0, <2>2 DEF Folding
  <1>3. ASSUME NEW k \in 1 .. n  PROVE g[1 .. k] = G[<<g[1 .. k - 1], k>>]
    <2>1. 1 .. k \in SUBSET (1 .. n) /\ 1 .. k # {} /\ Max(1 .. k) = k
          /\ (1 .. k) \ {Max(1 .. k)} = 1 .. k - 1
      BY Segment
    <2> QED  BY <2>1 DEF Folding
  <1>4. ASSUME NEW k \in 0 .. n - 1, k \in S  PROVE k + 1 \in S
    <2>1. k + 1 \in 1 .. n /\ k + 1 \in 1 .. n + 1 /\ (k + 1) - 1 = k /\ 1 .. k \in SUBSET (1 .. n)
          /\ k + 1 \in 0 .. n
      OBVIOUS
    <2>2. h[1 .. k + 1] = H[<<h[1 .. k], k + 1>>] /\ g[1 .. k + 1] = G[<<g[1 .. k], k + 1>>]
      BY <1>2, <1>3, <2>1
    <2>3. g[1 .. k] \in A /\ h[1 .. k] = g[1 .. k]  BY <1>4, <2>1 DEF Folding
    <2> QED  BY <1>0, <2>1, <2>2, <2>3
  <1> HIDE DEF S
  <1>5. n \in S  BY <1>1, <1>4, Induction
  <1>6. h[1 .. n] = g[1 .. n]  BY <1>5 DEF S
  <1>7. n + 1 \in 1 .. n + 1 /\ (n + 1) - 1 = n  OBVIOUS
  <1> QED  BY <1>0, <1>2, <1>6, <1>7 DEF Folding

\* A set of sequences that has the empty one and every longer one has all.
LEMMA SeqInduction ==
  ASSUME NEW P, NEW S, <<>> \in S,
         \A s \in Seq(P), p \in P : s \in S => Append(s, p) \in S
  PROVE  \A s \in Seq(P) : s \in S
  <1> SUFFICES ASSUME NEW s \in Seq(P)  PROVE s \in S  OBVIOUS
  <1> DEFINE n == Len(s)
             T == {k \in 0 .. n : SubSeq(s, 1, k) \in S}
  <1>1. n \in Nat /\ SubSeq(s, 1, 0) = <<>> /\ SubSeq(s, 1, n) = s  OBVIOUS
  <1>2. 0 \in T
    <2>1. SubSeq(s, 1, 0) = <<>>  OBVIOUS
    <2>2. SubSeq(s, 1, 0) \in S  BY <2>1
    <2>3. 0 \in 0 .. n  BY <1>1
    <2> HIDE DEF n
    <2> QED  BY <2>2, <2>3
  <1>3. ASSUME NEW k \in 0 .. n - 1, k \in T  PROVE k + 1 \in T
    <2>1. SubSeq(s, 1, k) \in Seq(P) /\ s[k + 1] \in P /\ k + 1 \in 0 .. n  OBVIOUS
    <2>2. SubSeq(s, 1, k + 1) = Append(SubSeq(s, 1, k), s[k + 1])  OBVIOUS
    <2>3. SubSeq(s, 1, k) \in S  BY <1>3
    <2> QED  BY <2>1, <2>2, <2>3
  <1> HIDE DEF T, n
  <1>4. n \in T  BY <1>1, <1>2, <1>3, Induction
  <1> QED  BY <1>1, <1>4 DEF T

-----------------------------------------------------------------------------
(* The folds of the model, element by element. *)

\* What Kept folds.
KeptStep(s, S, P) == [x \in Seq(P) \X (1 .. Len(s)) |-> IF s[x[2]] \in S THEN Append(x[1], s[x[2]]) ELSE x[1]]

\* Kept is a fold.
LEMMA KeptFold ==
  ASSUME NEW P, NEW s \in Seq(P), NEW S
  PROVE  /\ KeptStep(s, S, P) \in [Seq(P) \X (1 .. Len(s)) -> Seq(P)]
         /\ \E f : Folding(f, Len(s), Seq(P), <<>>, KeptStep(s, S, P)) /\ f[1 .. Len(s)] = Kept(s, S)
  <1> DEFINE n == Len(s)
             A == Seq(P)
             base == <<>>
             Step(sofar, p) == IF p \in S THEN Append(sofar, p) ELSE sofar
             G == KeptStep(s, S, P)
             Good(h) == h = [d \in SUBSET (1 .. n) |-> IF d = {} THEN base ELSE Step(h[d \ {Max(d)}], s[Max(d)])]
             f == CHOOSE h : Good(h)
  <1>1. n \in Nat /\ DOMAIN s = 1 .. n /\ base \in A  OBVIOUS
  <1>2. G \in [A \X (1 .. n) -> A]  BY DEF KeptStep
  <1>3. \A a \in A, k \in 1 .. n : G[<<a, k>>] = Step(a, s[k])  BY DEF KeptStep
  <1>4. Kept(s, S) = f[1 .. n]
    BY <1>1 DEF Kept, FoldLeft, MapThenFoldSet
  <1> HIDE DEF n, A, base, Step, G
  <1>5. \A d \in SUBSET (1 .. n) : d # {} => Max(d) \in 1 .. n /\ d \ {Max(d)} \in SUBSET (1 .. n)
    BY <1>1, MaxOf
  <1>6. PICK g : Folding(g, n, A, base, G)
    BY <1>1, <1>2, FoldExists
  <1>7. Good(g)
    <2>1. \A d \in SUBSET (1 .. n) : d # {} => G[<<g[d \ {Max(d)}], Max(d)>>] = Step(g[d \ {Max(d)}], s[Max(d)])
      BY <1>3, <1>5, <1>6 DEF Folding
    <2> QED  BY <1>6, <2>1 DEF Folding
  <1>8. Good(f)
    <2> HIDE DEF Good
    <2> QED  BY <1>7
  <1> HIDE DEF f
  <1>9. /\ f = [d \in SUBSET (1 .. n) |-> f[d]] /\ f[{}] = base
        /\ \A d \in SUBSET (1 .. n) : d # {} => f[d] = Step(f[d \ {Max(d)}], s[Max(d)])
    <2>1. {} \in SUBSET (1 .. n)  OBVIOUS
    <2> QED  BY <1>8, <2>1
  <1> HIDE DEF Good
  <1>10. Unfolding(f, n, A, base, G)
    BY <1>3, <1>5, <1>9 DEF Unfolding
  <1>11. Folding(f, n, A, base, G)
    BY <1>1, <1>2, <1>10, FoldTyped
  <1> QED  BY <1>2, <1>4, <1>11 DEF n, A, base, G

\* Kept of nothing.
LEMMA KeptEmpty ==
  ASSUME NEW S
  PROVE  Kept(<<>>, S) = <<>>
  <1> DEFINE P == {}
             none == <<>>
             base == <<>>
  <1>1. none \in Seq(P) /\ Len(none) = 0 /\ 1 .. 0 = {} /\ {} \in SUBSET {}  OBVIOUS
  <1>2. PICK f : Folding(f, Len(none), Seq(P), base, KeptStep(none, S, P)) /\ f[1 .. Len(none)] = Kept(none, S)
    <2>1. \A p \in P : FALSE  OBVIOUS
    <2> HIDE DEF none, P
    <2> QED  BY <1>1, <2>1, KeptFold DEF none, base
  <1>3. f[{}] = base
    <2> HIDE DEF none, base
    <2> QED  BY <1>1, <1>2 DEF Folding
  <1> HIDE DEF none, base
  <1> QED  BY <1>1, <1>2, <1>3 DEF none, base

\* Kept goes over a sequence element by element.
LEMMA KeptAppend ==
  ASSUME NEW P, NEW S, NEW s \in Seq(P), NEW p \in P
  PROVE  /\ Kept(s, S) \in Seq(P)
         /\ p \in S => Kept(Append(s, p), S) = Append(Kept(s, S), p)
         /\ p \notin S => Kept(Append(s, p), S) = Kept(s, S)
  <1> DEFINE t == Append(s, p)
             n == Len(s)
             m == Len(t)
             A == Seq(P)
             base == <<>>
             G == KeptStep(s, S, P)
             H == KeptStep(t, S, P)
  <1>1. t \in Seq(P) /\ m = n + 1 /\ n \in Nat /\ m \in 1 .. m /\ t[m] = p
    OBVIOUS
  <1>2. \A k \in 1 .. n : t[k] = s[k]  OBVIOUS
  <1>3. PICK g : Folding(g, n, A, base, G) /\ g[1 .. n] = Kept(s, S)
    <2> HIDE DEF base, G
    <2> QED  BY KeptFold DEF base, G
  <1>4. PICK h : Folding(h, m, A, base, H) /\ h[1 .. m] = Kept(t, S)
    <2> HIDE DEF base, H, t
    <2> QED  BY <1>1, KeptFold DEF base, H
  <1>5. Longer(H, m, G, n, A)
    <2> HIDE DEF t
    <2> QED  BY <1>1, <1>2 DEF KeptStep, Longer
  <1>6. Kept(s, S) \in A
    <2>1. 1 .. n \in SUBSET (1 .. n)  OBVIOUS
    <2> HIDE DEF A, G, base
    <2> QED  BY <1>3, <2>1 DEF Folding
  <1>7. H[<<Kept(s, S), m>>] = IF p \in S THEN Append(Kept(s, S), p) ELSE Kept(s, S)
    <2> HIDE DEF t
    <2> QED  BY <1>1, <1>6 DEF KeptStep
  <1> HIDE DEF n, m, A, base, G, H, t
  <1>8. h[1 .. m] = H[<<g[1 .. n], m>>]
    BY <1>1, <1>3, <1>4, <1>5, FoldAppend
  <1> QED  BY <1>3, <1>4, <1>6, <1>7, <1>8 DEF A, t
\* What Total folds.
TotalStep(s) == [x \in Nat \X (1 .. Len(s)) |-> x[1] + (s[x[2]].tokens + 1)]

\* Total is a fold.
LEMMA TotalFold ==
  ASSUME NEW P, NEW s \in Seq(P), \A p \in P : p.tokens \in Nat
  PROVE  /\ TotalStep(s) \in [Nat \X (1 .. Len(s)) -> Nat]
         /\ \E f : Folding(f, Len(s), Nat, 0, TotalStep(s)) /\ f[1 .. Len(s)] = Total(s)
  <1> DEFINE n == Len(s)
             A == Nat
             base == 0
             Step(sofar, p) == sofar + (p.tokens + 1)
             G == TotalStep(s)
             Good(h) == h = [d \in SUBSET (1 .. n) |-> IF d = {} THEN base ELSE Step(h[d \ {Max(d)}], s[Max(d)])]
             f == CHOOSE h : Good(h)
  <1>1. n \in Nat /\ DOMAIN s = 1 .. n /\ base \in A  OBVIOUS
  <1>2. G \in [A \X (1 .. n) -> A]  BY DEF TotalStep
  <1>3. \A a \in A, k \in 1 .. n : G[<<a, k>>] = Step(a, s[k])  BY DEF TotalStep
  <1>4. Total(s) = f[1 .. n]
    BY <1>1 DEF Total, BlockTokens, FoldLeft, MapThenFoldSet
  <1> HIDE DEF n, A, base, Step, G
  <1>5. \A d \in SUBSET (1 .. n) : d # {} => Max(d) \in 1 .. n /\ d \ {Max(d)} \in SUBSET (1 .. n)
    BY <1>1, MaxOf
  <1>6. PICK g : Folding(g, n, A, base, G)
    BY <1>1, <1>2, FoldExists
  <1>7. Good(g)
    <2>1. \A d \in SUBSET (1 .. n) : d # {} => G[<<g[d \ {Max(d)}], Max(d)>>] = Step(g[d \ {Max(d)}], s[Max(d)])
      BY <1>3, <1>5, <1>6 DEF Folding
    <2> QED  BY <1>6, <2>1 DEF Folding
  <1>8. Good(f)
    <2> HIDE DEF Good
    <2> QED  BY <1>7
  <1> HIDE DEF f
  <1>9. /\ f = [d \in SUBSET (1 .. n) |-> f[d]] /\ f[{}] = base
        /\ \A d \in SUBSET (1 .. n) : d # {} => f[d] = Step(f[d \ {Max(d)}], s[Max(d)])
    <2>1. {} \in SUBSET (1 .. n)  OBVIOUS
    <2> QED  BY <1>8, <2>1
  <1> HIDE DEF Good
  <1>10. Unfolding(f, n, A, base, G)
    BY <1>3, <1>5, <1>9 DEF Unfolding
  <1>11. Folding(f, n, A, base, G)
    BY <1>1, <1>2, <1>10, FoldTyped
  <1> QED  BY <1>2, <1>4, <1>11 DEF n, A, base, G

\* Total of nothing.
LEMMA TotalEmpty == Total(<<>>) = 0
  <1> DEFINE P == {}
             none == <<>>
             base == 0
  <1>1. none \in Seq(P) /\ Len(none) = 0 /\ 1 .. 0 = {} /\ {} \in SUBSET {}  OBVIOUS
  <1>2. PICK f : Folding(f, Len(none), Nat, base, TotalStep(none)) /\ f[1 .. Len(none)] = Total(none)
    <2>1. \A p \in P : FALSE  OBVIOUS
    <2> HIDE DEF none, P
    <2> QED  BY <1>1, <2>1, TotalFold DEF none, base
  <1>3. f[{}] = base
    <2> HIDE DEF none, base
    <2> QED  BY <1>1, <1>2 DEF Folding
  <1> HIDE DEF none, base
  <1> QED  BY <1>1, <1>2, <1>3 DEF none, base

\* Total goes over a sequence element by element.
LEMMA TotalAppend ==
  ASSUME NEW P, \A p \in P : p.tokens \in Nat, NEW s \in Seq(P), NEW p \in P
  PROVE  /\ Total(s) \in Nat
         /\ Total(Append(s, p)) = Total(s) + (p.tokens + 1)
  <1> DEFINE t == Append(s, p)
             n == Len(s)
             m == Len(t)
             A == Nat
             base == 0
             G == TotalStep(s)
             H == TotalStep(t)
  <1>1. t \in Seq(P) /\ m = n + 1 /\ n \in Nat /\ m \in 1 .. m /\ t[m] = p
    OBVIOUS
  <1>2. \A k \in 1 .. n : t[k] = s[k]  OBVIOUS
  <1>3. PICK g : Folding(g, n, A, base, G) /\ g[1 .. n] = Total(s)
    <2> HIDE DEF base, G
    <2> QED  BY TotalFold DEF base, G
  <1>4. PICK h : Folding(h, m, A, base, H) /\ h[1 .. m] = Total(t)
    <2> HIDE DEF base, H, t
    <2> QED  BY <1>1, TotalFold DEF base, H
  <1>5. Longer(H, m, G, n, A)
    <2> HIDE DEF t
    <2> QED  BY <1>1, <1>2 DEF TotalStep, Longer
  <1>6. Total(s) \in A
    <2>1. 1 .. n \in SUBSET (1 .. n)  OBVIOUS
    <2> HIDE DEF A, G, base
    <2> QED  BY <1>3, <2>1 DEF Folding
  <1>7. H[<<Total(s), m>>] = Total(s) + (p.tokens + 1)
    <2> HIDE DEF t
    <2> QED  BY <1>1, <1>6 DEF TotalStep
  <1> HIDE DEF n, m, A, base, G, H, t
  <1>8. h[1 .. m] = H[<<g[1 .. n], m>>]
    BY <1>1, <1>3, <1>4, <1>5, FoldAppend
  <1> QED  BY <1>3, <1>4, <1>6, <1>7, <1>8 DEF A, t

\* What Tokens folds.
TokensStep(s, doc) == [x \in Nat \X (1 .. Len(s)) |-> x[1] + doc.weights[s[x[2]]]]

\* Tokens is a fold.
LEMMA TokensFold ==
  ASSUME NEW P, NEW s \in Seq(P), NEW doc, \A p \in P : doc.weights[p] \in Nat
  PROVE  /\ TokensStep(s, doc) \in [Nat \X (1 .. Len(s)) -> Nat]
         /\ \E f : Folding(f, Len(s), Nat, 0, TokensStep(s, doc)) /\ f[1 .. Len(s)] = Tokens(doc, s)
  <1> DEFINE n == Len(s)
             A == Nat
             base == 0
             Step(sofar, p) == sofar + doc.weights[p]
             G == TokensStep(s, doc)
             Good(h) == h = [d \in SUBSET (1 .. n) |-> IF d = {} THEN base ELSE Step(h[d \ {Max(d)}], s[Max(d)])]
             f == CHOOSE h : Good(h)
  <1>1. n \in Nat /\ DOMAIN s = 1 .. n /\ base \in A  OBVIOUS
  <1>2. G \in [A \X (1 .. n) -> A]  BY DEF TokensStep
  <1>3. \A a \in A, k \in 1 .. n : G[<<a, k>>] = Step(a, s[k])  BY DEF TokensStep
  <1>4. Tokens(doc, s) = f[1 .. n]
    BY <1>1 DEF Tokens, FoldLeft, MapThenFoldSet
  <1> HIDE DEF n, A, base, Step, G
  <1>5. \A d \in SUBSET (1 .. n) : d # {} => Max(d) \in 1 .. n /\ d \ {Max(d)} \in SUBSET (1 .. n)
    BY <1>1, MaxOf
  <1>6. PICK g : Folding(g, n, A, base, G)
    BY <1>1, <1>2, FoldExists
  <1>7. Good(g)
    <2>1. \A d \in SUBSET (1 .. n) : d # {} => G[<<g[d \ {Max(d)}], Max(d)>>] = Step(g[d \ {Max(d)}], s[Max(d)])
      BY <1>3, <1>5, <1>6 DEF Folding
    <2> QED  BY <1>6, <2>1 DEF Folding
  <1>8. Good(f)
    <2> HIDE DEF Good
    <2> QED  BY <1>7
  <1> HIDE DEF f
  <1>9. /\ f = [d \in SUBSET (1 .. n) |-> f[d]] /\ f[{}] = base
        /\ \A d \in SUBSET (1 .. n) : d # {} => f[d] = Step(f[d \ {Max(d)}], s[Max(d)])
    <2>1. {} \in SUBSET (1 .. n)  OBVIOUS
    <2> QED  BY <1>8, <2>1
  <1> HIDE DEF Good
  <1>10. Unfolding(f, n, A, base, G)
    BY <1>3, <1>5, <1>9 DEF Unfolding
  <1>11. Folding(f, n, A, base, G)
    BY <1>1, <1>2, <1>10, FoldTyped
  <1> QED  BY <1>2, <1>4, <1>11 DEF n, A, base, G

\* Tokens of nothing.
LEMMA TokensEmpty ==
  ASSUME NEW doc
  PROVE  Tokens(doc, <<>>) = 0
  <1> DEFINE P == {}
             none == <<>>
             base == 0
  <1>1. none \in Seq(P) /\ Len(none) = 0 /\ 1 .. 0 = {} /\ {} \in SUBSET {}  OBVIOUS
  <1>2. PICK f : Folding(f, Len(none), Nat, base, TokensStep(none, doc)) /\ f[1 .. Len(none)] = Tokens(doc, none)
    <2>1. \A p \in P : FALSE  OBVIOUS
    <2> HIDE DEF none, P
    <2> QED  BY <1>1, <2>1, TokensFold DEF none, base
  <1>3. f[{}] = base
    <2> HIDE DEF none, base
    <2> QED  BY <1>1, <1>2 DEF Folding
  <1> HIDE DEF none, base
  <1> QED  BY <1>1, <1>2, <1>3 DEF none, base

\* Tokens goes over a sequence element by element.
LEMMA TokensAppend ==
  ASSUME NEW P, NEW doc, \A p \in P : doc.weights[p] \in Nat, NEW s \in Seq(P), NEW p \in P
  PROVE  /\ Tokens(doc, s) \in Nat
         /\ Tokens(doc, Append(s, p)) = Tokens(doc, s) + doc.weights[p]
  <1> DEFINE t == Append(s, p)
             n == Len(s)
             m == Len(t)
             A == Nat
             base == 0
             G == TokensStep(s, doc)
             H == TokensStep(t, doc)
  <1>1. t \in Seq(P) /\ m = n + 1 /\ n \in Nat /\ m \in 1 .. m /\ t[m] = p
    OBVIOUS
  <1>2. \A k \in 1 .. n : t[k] = s[k]  OBVIOUS
  <1>3. PICK g : Folding(g, n, A, base, G) /\ g[1 .. n] = Tokens(doc, s)
    <2> HIDE DEF base, G
    <2> QED  BY TokensFold DEF base, G
  <1>4. PICK h : Folding(h, m, A, base, H) /\ h[1 .. m] = Tokens(doc, t)
    <2> HIDE DEF base, H, t
    <2> QED  BY <1>1, TokensFold DEF base, H
  <1>5. Longer(H, m, G, n, A)
    <2> HIDE DEF t
    <2> QED  BY <1>1, <1>2 DEF TokensStep, Longer
  <1>6. Tokens(doc, s) \in A
    <2>1. 1 .. n \in SUBSET (1 .. n)  OBVIOUS
    <2> HIDE DEF A, G, base
    <2> QED  BY <1>3, <2>1 DEF Folding
  <1>7. H[<<Tokens(doc, s), m>>] = Tokens(doc, s) + doc.weights[p]
    <2> HIDE DEF t
    <2> QED  BY <1>1, <1>6 DEF TokensStep
  <1> HIDE DEF n, m, A, base, G, H, t
  <1>8. h[1 .. m] = H[<<g[1 .. n], m>>]
    BY <1>1, <1>3, <1>4, <1>5, FoldAppend
  <1> QED  BY <1>3, <1>4, <1>6, <1>7, <1>8 DEF A, t

\* Contexts of chunks of P, and the empty one.
Context(P) == [used : Seq(P), total : Nat, truncated : BOOLEAN]
NoContext  == [used |-> <<>>, total |-> 0, truncated |-> FALSE]

\* A turn of the loop makes a context of a context.
LEMMA BlockAdded ==
  ASSUME NEW P, NEW budget \in Nat, NEW c \in Context(P), NEW p \in P, p.tokens \in Nat
  PROVE  /\ AddBlock(c, p, budget) \in Context(P)
         /\ LET next == AddBlock(c, p, budget)
                over == c.total + (p.tokens + 1) > budget
            IN /\ over => next.used = c.used /\ next.total = c.total /\ next.truncated
               /\ ~over => /\ next.used = Append(c.used, p) /\ next.total = c.total + (p.tokens + 1)
                           /\ next.truncated = c.truncated
  <1>1. c.used \in Seq(P) /\ c.total \in Nat /\ c.truncated \in BOOLEAN
    BY DEF Context
  <1> DEFINE sum  == c.total + (p.tokens + 1)
             more == Append(c.used, p)
  <1>2. more \in Seq(P) /\ sum \in Nat  BY <1>1
  <1>3. AddBlock(c, p, budget) = IF sum > budget THEN [c EXCEPT !.truncated = TRUE]
                                 ELSE [c EXCEPT !.used = more, !.total = sum]
    BY DEF AddBlock, BlockTokens
  <1> HIDE DEF sum, more
  <1> DEFINE cut   == [c EXCEPT !.truncated = TRUE]
             added == [c EXCEPT !.used = more, !.total = sum]
  <1>4. cut \in Context(P) /\ cut.used = c.used /\ cut.total = c.total /\ cut.truncated
    BY <1>1 DEF Context
  <1>5. added \in Context(P) /\ added.used = more /\ added.total = sum /\ added.truncated = c.truncated
    BY <1>1, <1>2 DEF Context
  <1> HIDE DEF cut, added
  <1>6. AddBlock(c, p, budget) = IF sum > budget THEN cut ELSE added
    BY <1>3 DEF cut, added
  <1> QED  BY <1>4, <1>5, <1>6 DEF sum, more

\* What Blocks folds.
BlocksStep(s, budget, P) == [x \in Context(P) \X (1 .. Len(s)) |-> AddBlock(x[1], s[x[2]], budget)]

\* Blocks is a fold.
LEMMA BlocksFold ==
  ASSUME NEW P, NEW s \in Seq(P), NEW budget \in Nat, \A p \in P : p.tokens \in Nat
  PROVE  /\ BlocksStep(s, budget, P) \in [Context(P) \X (1 .. Len(s)) -> Context(P)]
         /\ \E f : Folding(f, Len(s), Context(P), NoContext, BlocksStep(s, budget, P)) /\ f[1 .. Len(s)] = Blocks(s, budget)
  <1> DEFINE n == Len(s)
             A == Context(P)
             base == NoContext
             Step(sofar, p) == AddBlock(sofar, p, budget)
             G == BlocksStep(s, budget, P)
             Good(h) == h = [d \in SUBSET (1 .. n) |-> IF d = {} THEN base ELSE Step(h[d \ {Max(d)}], s[Max(d)])]
             f == CHOOSE h : Good(h)
  <1>1. n \in Nat /\ DOMAIN s = 1 .. n /\ base \in A  BY DEF Context, NoContext
  <1>2. G \in [A \X (1 .. n) -> A]
    <2>1. \A k \in 1 .. n : s[k] \in P /\ s[k].tokens \in Nat  OBVIOUS
    <2>2. \A a \in A, k \in 1 .. n : AddBlock(a, s[k], budget) \in A
      <3> HIDE DEF n
      <3> QED  BY <2>1, BlockAdded
    <2> HIDE DEF A, n
    <2> QED  BY <2>2 DEF BlocksStep, A, n
  <1>3. \A a \in A, k \in 1 .. n : G[<<a, k>>] = Step(a, s[k])  BY DEF BlocksStep
  <1>4. Blocks(s, budget) = f[1 .. n]
    BY <1>1 DEF Blocks, NoContext, FoldLeft, MapThenFoldSet
  <1> HIDE DEF n, A, base, Step, G
  <1>5. \A d \in SUBSET (1 .. n) : d # {} => Max(d) \in 1 .. n /\ d \ {Max(d)} \in SUBSET (1 .. n)
    BY <1>1, MaxOf
  <1>6. PICK g : Folding(g, n, A, base, G)
    BY <1>1, <1>2, FoldExists
  <1>7. Good(g)
    <2>1. \A d \in SUBSET (1 .. n) : d # {} => G[<<g[d \ {Max(d)}], Max(d)>>] = Step(g[d \ {Max(d)}], s[Max(d)])
      BY <1>3, <1>5, <1>6 DEF Folding
    <2> QED  BY <1>6, <2>1 DEF Folding
  <1>8. Good(f)
    <2> HIDE DEF Good
    <2> QED  BY <1>7
  <1> HIDE DEF f
  <1>9. /\ f = [d \in SUBSET (1 .. n) |-> f[d]] /\ f[{}] = base
        /\ \A d \in SUBSET (1 .. n) : d # {} => f[d] = Step(f[d \ {Max(d)}], s[Max(d)])
    <2>1. {} \in SUBSET (1 .. n)  OBVIOUS
    <2> QED  BY <1>8, <2>1
  <1> HIDE DEF Good
  <1>10. Unfolding(f, n, A, base, G)
    BY <1>3, <1>5, <1>9 DEF Unfolding
  <1>11. Folding(f, n, A, base, G)
    BY <1>1, <1>2, <1>10, FoldTyped
  <1> QED  BY <1>2, <1>4, <1>11 DEF n, A, base, G

\* Blocks of nothing.
LEMMA BlocksEmpty ==
  ASSUME NEW budget \in Nat
  PROVE  Blocks(<<>>, budget) = NoContext
  <1> DEFINE P == {}
             none == <<>>
             base == NoContext
  <1>1. none \in Seq(P) /\ Len(none) = 0 /\ 1 .. 0 = {} /\ {} \in SUBSET {}  OBVIOUS
  <1>2. PICK f : Folding(f, Len(none), Context(P), base, BlocksStep(none, budget, P)) /\ f[1 .. Len(none)] = Blocks(none, budget)
    <2>1. \A p \in P : FALSE  OBVIOUS
    <2> HIDE DEF none, P
    <2> QED  BY <1>1, <2>1, BlocksFold DEF none, base
  <1>3. f[{}] = base
    <2> HIDE DEF none, base
    <2> QED  BY <1>1, <1>2 DEF Folding
  <1> HIDE DEF none, base
  <1> QED  BY <1>1, <1>2, <1>3 DEF none, base

\* Blocks goes over a sequence element by element.
LEMMA BlocksAppend ==
  ASSUME NEW P, NEW budget \in Nat, \A p \in P : p.tokens \in Nat, NEW s \in Seq(P), NEW p \in P
  PROVE  /\ Blocks(s, budget) \in Context(P)
         /\ Blocks(Append(s, p), budget) = AddBlock(Blocks(s, budget), p, budget)
  <1> DEFINE t == Append(s, p)
             n == Len(s)
             m == Len(t)
             A == Context(P)
             base == NoContext
             G == BlocksStep(s, budget, P)
             H == BlocksStep(t, budget, P)
  <1>1. t \in Seq(P) /\ m = n + 1 /\ n \in Nat /\ m \in 1 .. m /\ t[m] = p
    OBVIOUS
  <1>2. \A k \in 1 .. n : t[k] = s[k]  OBVIOUS
  <1>3. PICK g : Folding(g, n, A, base, G) /\ g[1 .. n] = Blocks(s, budget)
    <2> HIDE DEF base, G
    <2> QED  BY BlocksFold DEF base, G
  <1>4. PICK h : Folding(h, m, A, base, H) /\ h[1 .. m] = Blocks(t, budget)
    <2> HIDE DEF base, H, t
    <2> QED  BY <1>1, BlocksFold DEF base, H
  <1>5. Longer(H, m, G, n, A)
    <2> HIDE DEF t
    <2> QED  BY <1>1, <1>2 DEF BlocksStep, Longer
  <1>6. Blocks(s, budget) \in A
    <2>1. 1 .. n \in SUBSET (1 .. n)  OBVIOUS
    <2> HIDE DEF A, G, base
    <2> QED  BY <1>3, <2>1 DEF Folding
  <1>7. H[<<Blocks(s, budget), m>>] = AddBlock(Blocks(s, budget), p, budget)
    <2> HIDE DEF t
    <2> QED  BY <1>1, <1>6 DEF BlocksStep
  <1> HIDE DEF n, m, A, base, G, H, t
  <1>8. h[1 .. m] = H[<<g[1 .. n], m>>]
    BY <1>1, <1>3, <1>4, <1>5, FoldAppend
  <1> QED  BY <1>3, <1>4, <1>6, <1>7, <1>8 DEF A, t

-----------------------------------------------------------------------------
(* What assemble_context does. *)

\* The elements of a sequence are in its set, and one more is added by Append.
LEMMA ToSetAppend ==
  ASSUME NEW P, NEW s \in Seq(P), NEW p \in P
  PROVE  ToSet(Append(s, p)) = ToSet(s) \cup {p}
  <1> DEFINE t == Append(s, p)
             n == Len(s)
  <1>1. n \in Nat /\ DOMAIN s = 1 .. n /\ DOMAIN t = 1 .. n + 1 /\ t[n + 1] = p /\ \A k \in 1 .. n : t[k] = s[k]
    OBVIOUS
  <1> HIDE DEF t, n
  <1>2. ASSUME NEW q \in ToSet(t)  PROVE q \in ToSet(s) \cup {p}
    <2>1. PICK k \in 1 .. n + 1 : t[k] = q  BY <1>1, <1>2 DEF ToSet
    <2>2. k \in 1 .. n \/ k = n + 1  BY <1>1
    <2> QED  BY <1>1, <2>1, <2>2 DEF ToSet
  <1>3. ASSUME NEW q \in ToSet(s) \cup {p}  PROVE q \in ToSet(t)
    <2>1. CASE q = p
      <3>1. n + 1 \in DOMAIN t /\ t[n + 1] = q  BY <1>1, <2>1
      <3> QED  BY <3>1 DEF ToSet
    <2>2. CASE q \in ToSet(s)
      <3>1. PICK k \in 1 .. n : s[k] = q  BY <1>1, <2>2 DEF ToSet
      <3>2. k \in DOMAIN t /\ t[k] = q  BY <1>1, <3>1
      <3> QED  BY <3>2 DEF ToSet
    <2> QED  BY <1>3, <2>1, <2>2
  <1> QED  BY <1>2, <1>3 DEF t

\* What is asked of a context c of the chunks s.
Fills(c, s, budget, P) ==
  /\ c \in Context(P)
  /\ Total(c.used) = c.total /\ c.total <= budget
  /\ \A p \in ToSet(s) \ ToSet(c.used) : c.total + BlockTokens(p) > budget
  /\ c.truncated => Len(c.used) < Len(s)
  /\ ~c.truncated => c.used = s

\* The loop of assemble_context keeps to it.
LEMMA BlocksFills ==
  ASSUME NEW P, NEW budget \in Nat, \A p \in P : p.tokens \in Nat, NEW s \in Seq(P)
  PROVE  Fills(Blocks(s, budget), s, budget, P)
  <1> DEFINE S == {t \in Seq(P) : Fills(Blocks(t, budget), t, budget, P)}
  <1>1. <<>> \in S
    <2>1. Blocks(<<>>, budget) = NoContext  BY BlocksEmpty
    <2>2. Total(<<>>) = 0  BY TotalEmpty
    <2>3. /\ NoContext \in Context(P) /\ NoContext.used = <<>> /\ NoContext.total = 0
          /\ NoContext.truncated = FALSE
      BY DEF NoContext, Context
    <2>4. ToSet(<<>>) = {}  BY DEF ToSet
    <2>5. Fills(NoContext, <<>>, budget, P)  BY <2>2, <2>3, <2>4 DEF Fills
    <2> QED  BY <2>1, <2>5
  <1>2. ASSUME NEW t \in Seq(P), NEW p \in P, t \in S
        PROVE  Append(t, p) \in S
    <2> DEFINE c == Blocks(t, budget)
               d == AddBlock(c, p, budget)
               u == Append(t, p)
    <2>1. Fills(c, t, budget, P)  BY <1>2
    <2>2. Blocks(u, budget) = d  BY BlocksAppend
    <2>3. u \in Seq(P) /\ Len(u) = Len(t) + 1 /\ p.tokens \in Nat /\ Len(t) \in Nat  OBVIOUS
    <2>4. ToSet(u) = ToSet(t) \cup {p}  BY ToSetAppend
    <2>5. /\ c \in Context(P) /\ c.used \in Seq(P) /\ c.total \in Nat /\ c.truncated \in BOOLEAN
          /\ Len(c.used) \in Nat
      BY <2>1 DEF Fills, Context
    <2> HIDE DEF c, u
    <2>6. /\ d \in Context(P)
          /\ c.total + (p.tokens + 1) > budget => d.used = c.used /\ d.total = c.total /\ d.truncated
          /\ ~(c.total + (p.tokens + 1) > budget) =>
               /\ d.used = Append(c.used, p) /\ d.total = c.total + (p.tokens + 1)
               /\ d.truncated = c.truncated
      BY <2>3, <2>5, BlockAdded
    <2> HIDE DEF d
    <2>7. \A q \in ToSet(t) : q.tokens \in Nat
      BY <2>3 DEF ToSet
    <2>8. Fills(d, u, budget, P)
      <3>1. CASE c.total + (p.tokens + 1) > budget
        <4>1. d.used = c.used /\ d.total = c.total /\ d.truncated  BY <2>6, <3>1
        <4>2. \A q \in ToSet(u) \ ToSet(d.used) : d.total + BlockTokens(q) > budget
          BY <2>1, <2>4, <3>1, <4>1 DEF Fills, BlockTokens
        <4>3. Len(d.used) < Len(u)
          <5>1. c.truncated => Len(c.used) < Len(t)  BY <2>1 DEF Fills
          <5>2. ~c.truncated => Len(c.used) = Len(t)  BY <2>1 DEF Fills
          <5> QED  BY <2>3, <2>5, <4>1, <5>1, <5>2
        <4>4. Total(d.used) = d.total /\ d.total <= budget  BY <2>1, <4>1 DEF Fills
        <4> QED  BY <2>6, <4>1, <4>2, <4>3, <4>4 DEF Fills
      <3>2. CASE ~(c.total + (p.tokens + 1) > budget)
        <4>1. d.used = Append(c.used, p) /\ d.total = c.total + (p.tokens + 1) /\ d.truncated = c.truncated
          BY <2>6, <3>2
        <4>2. Total(d.used) = d.total /\ d.total <= budget
          <5>1. Total(Append(c.used, p)) = Total(c.used) + (p.tokens + 1)  BY <2>5, TotalAppend
          <5>2. Total(c.used) = c.total  BY <2>1 DEF Fills
          <5> QED  BY <2>3, <2>5, <3>2, <4>1, <5>1, <5>2
        <4>3. ToSet(d.used) = ToSet(c.used) \cup {p}  BY <2>5, <4>1, ToSetAppend
        <4>4. ASSUME NEW q \in ToSet(u) \ ToSet(d.used)  PROVE d.total + BlockTokens(q) > budget
          <5>1. q \in ToSet(t) \ ToSet(c.used)  BY <2>4, <4>3
          <5>2. c.total + BlockTokens(q) > budget  BY <2>1, <5>1 DEF Fills
          <5>3. BlockTokens(q) \in Nat  BY <2>7, <5>1 DEF BlockTokens
          <5> QED  BY <2>3, <2>5, <4>1, <5>2, <5>3
        <4>5. c.truncated => Len(d.used) < Len(u)
          <5>1. c.truncated => Len(c.used) < Len(t)  BY <2>1 DEF Fills
          <5>2. Len(d.used) = Len(c.used) + 1  BY <2>5, <4>1
          <5> QED  BY <2>3, <2>5, <5>1, <5>2
        <4>6. ~c.truncated => d.used = u
          BY <2>1, <4>1 DEF Fills, u
        <4> QED  BY <2>6, <4>1, <4>2, <4>4, <4>5, <4>6 DEF Fills
      <3> QED  BY <3>1, <3>2
    <2> QED  BY <2>2, <2>3, <2>8 DEF u
  <1> HIDE DEF S
  <1>3. s \in S  BY <1>1, <1>2, SeqInduction
  <1> QED  BY <1>3 DEF S

-----------------------------------------------------------------------------
(* The order of a sequence, as a relation between its elements. *)

\* p comes before q in s.
Before(s, p, q) == \E i, j \in DOMAIN s : i < j /\ s[i] = p /\ s[j] = q

\* Nothing is before anything in the empty sequence.
LEMMA BeforeEmpty == ToSet(<<>>) = {} /\ \A p, q : ~Before(<<>>, p, q)
  BY DEF ToSet, Before

\* What is appended comes last.
LEMMA BeforeAppend ==
  ASSUME NEW P, NEW s \in Seq(P), NEW r \in P, NEW p, NEW q
  PROVE  Before(Append(s, r), p, q) <=> Before(s, p, q) \/ (p \in ToSet(s) /\ q = r)
  <1> DEFINE t == Append(s, r)
             n == Len(s)
  <1>1. n \in Nat /\ DOMAIN s = 1 .. n /\ DOMAIN t = 1 .. n + 1 /\ t[n + 1] = r /\ \A k \in 1 .. n : t[k] = s[k]
    OBVIOUS
  <1> HIDE DEF t, n
  <1>2. ASSUME Before(t, p, q)  PROVE Before(s, p, q) \/ (p \in ToSet(s) /\ q = r)
    <2>1. PICK i, j \in 1 .. n + 1 : i < j /\ t[i] = p /\ t[j] = q  BY <1>1, <1>2 DEF Before
    <2>2. i \in 1 .. n /\ (j \in 1 .. n \/ j = n + 1)  BY <1>1, <2>1
    <2>3. CASE j \in 1 .. n
      <3>1. s[i] = p /\ s[j] = q /\ i \in DOMAIN s /\ j \in DOMAIN s  BY <1>1, <2>1, <2>2, <2>3
      <3>2. i < j  BY <2>1
      <3>3. Before(s, p, q)  BY <3>1, <3>2 DEF Before
      <3> QED  BY <3>3
    <2>4. CASE j = n + 1
      <3>1. s[i] = p /\ i \in DOMAIN s /\ q = r  BY <1>1, <2>1, <2>2, <2>4
      <3> QED  BY <3>1 DEF ToSet
    <2> QED  BY <2>2, <2>3, <2>4
  <1>3. ASSUME Before(s, p, q)  PROVE Before(t, p, q)
    <2>1. PICK i, j \in 1 .. n : i < j /\ s[i] = p /\ s[j] = q  BY <1>1, <1>3 DEF Before
    <2>2. i \in DOMAIN t /\ j \in DOMAIN t /\ t[i] = p /\ t[j] = q  BY <1>1, <2>1
    <2> QED  BY <2>1, <2>2 DEF Before
  <1>4. ASSUME p \in ToSet(s), q = r  PROVE Before(t, p, q)
    <2>1. PICK i \in 1 .. n : s[i] = p  BY <1>1, <1>4 DEF ToSet
    <2>2. i \in DOMAIN t /\ n + 1 \in DOMAIN t /\ i < n + 1 /\ t[i] = p /\ t[n + 1] = q
      BY <1>1, <1>4, <2>1
    <2> QED  BY <2>2 DEF Before
  <1> QED  BY <1>2, <1>3, <1>4 DEF t

\* Of two elements one comes first, and only elements do.
LEMMA BeforeTotal ==
  ASSUME NEW P, NEW s \in Seq(P), NEW p, NEW q
  PROVE  /\ Before(s, p, q) => p \in ToSet(s) /\ q \in ToSet(s)
         /\ p \in ToSet(s) /\ q \in ToSet(s) /\ p # q => Before(s, p, q) \/ Before(s, q, p)
  <1>1. Before(s, p, q) => p \in ToSet(s) /\ q \in ToSet(s)  BY DEF Before, ToSet
  <1>2. ASSUME p \in ToSet(s), q \in ToSet(s), p # q  PROVE Before(s, p, q) \/ Before(s, q, p)
    <2>1. PICK i \in DOMAIN s : s[i] = p  BY <1>2 DEF ToSet
    <2>2. PICK j \in DOMAIN s : s[j] = q  BY <1>2 DEF ToSet
    <2>3. i < j \/ j < i
      <3>1. DOMAIN s = 1 .. Len(s) /\ Len(s) \in Nat  OBVIOUS
      <3> QED  BY <1>2, <2>1, <2>2, <3>1
    <2> QED  BY <2>1, <2>2, <2>3 DEF Before
  <1> QED  BY <1>1, <1>2

\* The same for a concatenation.
LEMMA BeforeJoin ==
  ASSUME NEW P, NEW s \in Seq(P), NEW t \in Seq(P)
  PROVE  /\ ToSet(s \o t) = ToSet(s) \cup ToSet(t)
         /\ \A p, q : Before(s \o t, p, q) <=>
              Before(s, p, q) \/ Before(t, p, q) \/ (p \in ToSet(s) /\ q \in ToSet(t))
  <1> DEFINE Joins(u) == /\ ToSet(s \o u) = ToSet(s) \cup ToSet(u)
                         /\ \A p, q : Before(s \o u, p, q) <=>
                              Before(s, p, q) \/ Before(u, p, q) \/ (p \in ToSet(s) /\ q \in ToSet(u))
             S == {u \in Seq(P) : Joins(u)}
  <1>1. <<>> \in S
    <2>1. s \o <<>> = s  OBVIOUS
    <2>2. Joins(<<>>)
      <3> DEFINE none == <<>>
      <3>1. ToSet(none) = {} /\ \A p, q : ~Before(none, p, q)  BY BeforeEmpty
      <3>2. s \o none = s  BY <2>1
      <3> HIDE DEF none
      <3>3. ToSet(s \o none) = ToSet(s) \cup ToSet(none)  BY <3>1, <3>2
      <3>4. ASSUME NEW p, NEW q
            PROVE  Before(s \o none, p, q) <=>
                     Before(s, p, q) \/ Before(none, p, q) \/ (p \in ToSet(s) /\ q \in ToSet(none))
        <4>1. ~Before(none, p, q) /\ q \notin ToSet(none)  BY <3>1
        <4> QED  BY <3>2, <4>1
      <3>5. Joins(none)  BY <3>3, <3>4
      <3> QED  BY <3>5 DEF none
    <2> HIDE DEF Joins
    <2>3. <<>> \in Seq(P)  OBVIOUS
    <2> QED  BY <2>2, <2>3
  <1>2. ASSUME NEW u \in Seq(P), NEW r \in P, u \in S
        PROVE  Append(u, r) \in S
    <2> DEFINE su == s \o u
               ur == Append(u, r)
    <2>1. su \in Seq(P) /\ ur \in Seq(P) /\ s \o ur = Append(su, r)  OBVIOUS
    <2>2. Joins(u)  BY <1>2
    <2>3. ToSet(s \o ur) = ToSet(s) \cup ToSet(ur)
      <3>1. ToSet(s \o ur) = ToSet(su) \cup {r}
        <4> HIDE DEF su, ur
        <4> QED  BY <2>1, ToSetAppend
      <3>2. ToSet(ur) = ToSet(u) \cup {r}  BY ToSetAppend
      <3> HIDE DEF ur
      <3> QED  BY <2>2, <3>1, <3>2
    <2>4. ASSUME NEW p, NEW q
          PROVE  Before(s \o ur, p, q) <=>
                   Before(s, p, q) \/ Before(ur, p, q) \/ (p \in ToSet(s) /\ q \in ToSet(ur))
      <3>1. Before(s \o ur, p, q) <=> Before(su, p, q) \/ (p \in ToSet(su) /\ q = r)
        <4> HIDE DEF su, ur
        <4> QED  BY <2>1, BeforeAppend
      <3>2. Before(ur, p, q) <=> Before(u, p, q) \/ (p \in ToSet(u) /\ q = r)  BY BeforeAppend
      <3>3. ToSet(ur) = ToSet(u) \cup {r}  BY ToSetAppend
      <3>4. /\ Before(su, p, q) <=> Before(s, p, q) \/ Before(u, p, q) \/ (p \in ToSet(s) /\ q \in ToSet(u))
            /\ ToSet(su) = ToSet(s) \cup ToSet(u)
        BY <2>2
      <3> HIDE DEF su, ur
      <3>5. /\ p \in ToSet(su) <=> p \in ToSet(s) \/ p \in ToSet(u)
            /\ q \in ToSet(ur) <=> q \in ToSet(u) \/ q = r
        BY <3>3, <3>4
      <3>6. CASE q = r  BY <3>1, <3>2, <3>4, <3>5, <3>6
      <3>7. CASE q # r  BY <3>1, <3>2, <3>4, <3>5, <3>7
      <3> QED  BY <3>6, <3>7
    <2>5. Joins(ur)  BY <2>3, <2>4
    <2> HIDE DEF Joins
    <2> QED  BY <2>1, <2>5
  <1> HIDE DEF S
  <1>3. t \in S  BY <1>1, <1>2, SeqInduction
  <1>4. Joins(t)  BY <1>3 DEF S
  <1> QED  BY <1>4

\* Kept keeps the elements of S, in their order.
LEMMA KeptIs ==
  ASSUME NEW P, NEW S, NEW s \in Seq(P)
  PROVE  /\ Kept(s, S) \in Seq(P)
         /\ ToSet(Kept(s, S)) = ToSet(s) \cap S
         /\ \A p, q : Before(Kept(s, S), p, q) <=> Before(s, p, q) /\ p \in S /\ q \in S
  <1> DEFINE Keeps(k, u) == /\ k \in Seq(P)
                            /\ ToSet(k) = ToSet(u) \cap S
                            /\ \A p, q : Before(k, p, q) <=> Before(u, p, q) /\ p \in S /\ q \in S
             T == {u \in Seq(P) : Keeps(Kept(u, S), u)}
  <1>1. <<>> \in T
    <2>1. Kept(<<>>, S) = <<>>  BY KeptEmpty
    <2>2. <<>> \in Seq(P)  OBVIOUS
    <2>3. Keeps(<<>>, <<>>)  BY <2>2, BeforeEmpty
    <2> HIDE DEF Keeps
    <2> QED  BY <2>1, <2>2, <2>3
  <1>2. ASSUME NEW u \in Seq(P), NEW r \in P, u \in T
        PROVE  Append(u, r) \in T
    <2> DEFINE k  == Kept(u, S)
               ur == Append(u, r)
               kr == Append(k, r)
    <2>1. ur \in Seq(P)  OBVIOUS
    <2>2. Keeps(k, u)  BY <1>2
    <2>3. (r \in S => Kept(ur, S) = kr) /\ (r \notin S => Kept(ur, S) = k)
      BY KeptAppend
    <2>4. k \in Seq(P)  BY <2>2
    <2> HIDE DEF k
    <2>5. kr \in Seq(P)  BY <2>4
    <2>6. ToSet(ur) = ToSet(u) \cup {r} /\ ToSet(kr) = ToSet(k) \cup {r}
      BY <2>4, ToSetAppend
    <2>7. \A p, q : /\ Before(ur, p, q) <=> Before(u, p, q) \/ (p \in ToSet(u) /\ q = r)
                    /\ Before(kr, p, q) <=> Before(k, p, q) \/ (p \in ToSet(k) /\ q = r)
      BY <2>4, BeforeAppend
    <2> HIDE DEF ur, kr
    <2>8. CASE r \in S
      <3>1. ToSet(kr) = ToSet(ur) \cap S  BY <2>2, <2>6, <2>8
      <3>2. \A p, q : Before(kr, p, q) <=> Before(ur, p, q) /\ p \in S /\ q \in S
        BY <2>2, <2>7, <2>8
      <3>3. Keeps(kr, ur)  BY <2>5, <3>1, <3>2
      <3> HIDE DEF Keeps
      <3> QED  BY <2>1, <2>3, <2>8, <3>3 DEF ur
    <2>9. CASE r \notin S
      <3>1. ToSet(k) = ToSet(ur) \cap S  BY <2>2, <2>6, <2>9
      <3>2. ASSUME NEW p, NEW q  PROVE Before(k, p, q) <=> Before(ur, p, q) /\ p \in S /\ q \in S
        <4>1. Before(k, p, q) <=> Before(u, p, q) /\ p \in S /\ q \in S  BY <2>2
        <4>2. Before(ur, p, q) <=> Before(u, p, q) \/ (p \in ToSet(u) /\ q = r)  BY <2>7
        <4>3. CASE q = r  BY <2>9, <4>1, <4>2, <4>3
        <4>4. CASE q # r  BY <4>1, <4>2, <4>4
        <4> QED  BY <4>3, <4>4
      <3>3. Keeps(k, ur)  BY <2>4, <3>1, <3>2
      <3> HIDE DEF Keeps
      <3> QED  BY <2>1, <2>3, <2>9, <3>3 DEF ur
    <2> QED  BY <2>8, <2>9
  <1> HIDE DEF T
  <1>3. s \in T  BY <1>1, <1>2, SeqInduction
  <1>4. Keeps(Kept(s, S), s)  BY <1>3 DEF T
  <1> QED  BY <1>4

\* Increasing numbers from 1 on are nowhere below their places.
LEMMA Increasing ==
  ASSUME NEW m \in Nat, NEW f, \A i \in 1 .. m : f[i] \in Nat /\ f[i] >= 1,
         \A i, j \in 1 .. m : i < j => f[i] < f[j]
  PROVE  \A i \in 1 .. m : f[i] >= i
  <1> DEFINE S == {k \in 0 .. m : k = 0 \/ f[k] >= k}
  <1>1. 0 \in S  OBVIOUS
  <1>2. ASSUME NEW k \in 0 .. m - 1, k \in S  PROVE k + 1 \in S
    <2>1. k + 1 \in 1 .. m /\ f[k + 1] \in Nat /\ f[k + 1] >= 1  OBVIOUS
    <2>2. CASE k = 0  BY <2>1, <2>2
    <2>3. CASE k # 0
      <3>1. k \in 1 .. m /\ k < k + 1  BY <2>3
      <3>2. f[k] \in Nat /\ f[k] < f[k + 1]  BY <2>1, <3>1
      <3>3. f[k] >= k  BY <1>2, <2>3
      <3>4. f[k + 1] >= k + 1  BY <2>1, <3>1, <3>2, <3>3
      <3> QED  BY <2>1, <3>4
    <2> QED  BY <2>2, <2>3
  <1> HIDE DEF S
  <1>3. \A k \in 0 .. m : k \in S  BY <1>1, <1>2, Induction
  <1>4. ASSUME NEW i \in 1 .. m  PROVE f[i] >= i
    <2>1. i \in S /\ i # 0  BY <1>3
    <2> QED  BY <2>1 DEF S
  <1> QED  BY <1>4

\* Where the elements of a are in b, whose order is the same.
Places(f, a, b) ==
  /\ f \in [DOMAIN a -> DOMAIN b]
  /\ \A i \in DOMAIN a : b[f[i]] = a[i]
  /\ \A i, j \in DOMAIN a : i < j => f[i] < f[j]

\* Nothing is in s twice.
Single(s) == \A i, j \in DOMAIN s : s[i] = s[j] => i = j

\* What is in a sequence twice is before itself.
LEMMA SingleIs ==
  ASSUME NEW P, NEW s \in Seq(P)
  PROVE  Single(s) <=> \A p : ~Before(s, p, p)
  <1>1. ASSUME Single(s), NEW p, Before(s, p, p)  PROVE FALSE
    BY <1>1 DEF Single, Before
  <1>2. ASSUME \A p : ~Before(s, p, p), NEW i \in DOMAIN s, NEW j \in DOMAIN s, s[i] = s[j]  PROVE i = j
    <2>1. DOMAIN s = 1 .. Len(s) /\ Len(s) \in Nat  OBVIOUS
    <2>2. ~(i < j) /\ ~(j < i)  BY <1>2 DEF Before
    <2> QED  BY <2>1, <2>2
  <1> QED  BY <1>1, <1>2 DEF Single

\* Sequences of the same elements in the same order have places in each other.
LEMMA HavePlaces ==
  ASSUME NEW P, NEW a \in Seq(P), NEW b \in Seq(P), Single(b), ToSet(a) \subseteq ToSet(b),
         \A p, q : Before(a, p, q) => Before(b, p, q)
  PROVE  \E f : Places(f, a, b)
  <1> DEFINE f == [i \in DOMAIN a |-> CHOOSE j \in DOMAIN b : b[j] = a[i]]
  <1>1. ASSUME NEW i \in DOMAIN a  PROVE f[i] \in DOMAIN b /\ b[f[i]] = a[i]
    <2>1. a[i] \in ToSet(b)  BY DEF ToSet
    <2>2. \E j \in DOMAIN b : b[j] = a[i]  BY <2>1 DEF ToSet
    <2> QED  BY <2>2
  <1>2. f \in [DOMAIN a -> DOMAIN b]
    <2>1. f = [i \in DOMAIN a |-> f[i]]  OBVIOUS
    <2> HIDE DEF f
    <2> QED  BY <1>1, <2>1
  <1> HIDE DEF f
  <1>3. ASSUME NEW i \in DOMAIN a, NEW j \in DOMAIN a, i < j  PROVE f[i] < f[j]
    <2>1. Before(a, a[i], a[j])  BY <1>3 DEF Before
    <2>2. Before(b, a[i], a[j])  BY <2>1
    <2>3. PICK k, l \in DOMAIN b : k < l /\ b[k] = a[i] /\ b[l] = a[j]  BY <2>2 DEF Before
    <2>4. k = f[i] /\ l = f[j]  BY <1>1, <2>3 DEF Single
    <2> QED  BY <2>3, <2>4
  <1> QED  BY <1>1, <1>2, <1>3 DEF Places

\* Then one is the beginning of the other.
LEMMA IsBeginning ==
  ASSUME NEW P, NEW a \in Seq(P), NEW b \in Seq(P), NEW f, NEW g, Places(f, a, b), Places(g, b, a), Single(a)
  PROVE  Len(a) <= Len(b) /\ \A i \in 1 .. Len(a) : b[i] = a[i]
  <1> DEFINE m == Len(a)
             n == Len(b)
  <1>1. m \in Nat /\ n \in Nat /\ DOMAIN a = 1 .. m /\ DOMAIN b = 1 .. n  OBVIOUS
  <1> HIDE DEF m, n
  <1>2. /\ \A i \in 1 .. m : f[i] \in 1 .. n /\ b[f[i]] = a[i]
        /\ \A i, j \in 1 .. m : i < j => f[i] < f[j]
    BY <1>1 DEF Places
  <1>3. /\ \A i \in 1 .. n : g[i] \in 1 .. m /\ a[g[i]] = b[i]
        /\ \A i, j \in 1 .. n : i < j => g[i] < g[j]
    BY <1>1 DEF Places
  <1>4. \A i \in 1 .. m : f[i] \in Nat /\ f[i] >= 1  BY <1>1, <1>2
  <1>5. \A i \in 1 .. n : g[i] \in Nat /\ g[i] >= 1  BY <1>1, <1>3
  <1>6. \A i \in 1 .. m : f[i] >= i  BY <1>1, <1>2, <1>4, Increasing
  <1>7. \A i \in 1 .. n : g[i] >= i  BY <1>1, <1>3, <1>5, Increasing
  <1>8. ASSUME NEW i \in 1 .. m  PROVE f[i] = i
    <2>1. f[i] \in 1 .. n /\ a[g[f[i]]] = a[i] /\ g[f[i]] \in 1 .. m  BY <1>2, <1>3
    <2>2. g[f[i]] = i  BY <1>1, <2>1 DEF Single
    <2>3. i >= f[i] /\ f[i] >= i  BY <1>6, <1>7, <2>1, <2>2
    <2> QED  BY <1>1, <2>1, <2>3
  <1>9. \A i \in 1 .. m : i \in 1 .. n /\ b[i] = a[i]  BY <1>2, <1>8
  <1>10. m <= n
    <2>1. CASE m = 0  BY <1>1, <2>1
    <2>2. CASE m # 0
      <3>1. m \in 1 .. m  BY <1>1, <2>2
      <3> QED  BY <1>1, <1>9, <3>1
    <2> QED  BY <2>1, <2>2
  <1> QED  BY <1>9, <1>10 DEF m, n

\* And they are the same.
LEMMA SameOrder ==
  ASSUME NEW P, NEW a \in Seq(P), NEW b \in Seq(P), Single(a), ToSet(a) = ToSet(b),
         \A p, q : Before(a, p, q) <=> Before(b, p, q)
  PROVE  a = b
  <1>1. Single(b)
    <2>1. \A p : ~Before(b, p, p)  BY SingleIs
    <2> QED  BY <2>1, SingleIs
  <1>2. PICK f : Places(f, a, b)  BY <1>1, HavePlaces
  <1>3. PICK g : Places(g, b, a)  BY HavePlaces
  <1>4. Len(a) <= Len(b) /\ \A i \in 1 .. Len(a) : b[i] = a[i]
    BY <1>2, <1>3, IsBeginning
  <1>5. Len(b) <= Len(a)
    BY <1>1, <1>2, <1>3, IsBeginning
  <1>6. Len(a) = Len(b)
    BY <1>4, <1>5
  <1> QED  BY <1>4, <1>6

-----------------------------------------------------------------------------
(* FlattenSeq, whose function goes over a sequence of sequences. *)

\* What FlattenSeq folds.
FlattenStep(ss, P) == [x \in Seq(P) \X (1 .. Len(ss)) |-> IF x[2] = 1 THEN ss[x[2]] ELSE x[1] \o ss[x[2]]]

\* The function of FlattenSeq.
Flattens(f, ss) == f = [i \in 1 .. Len(ss) |-> IF i = 1 THEN ss[i] ELSE f[i - 1] \o ss[i]]

\* There is one.
LEMMA FlattenExists ==
  ASSUME NEW P, NEW ss \in Seq(Seq(P))
  PROVE  \E f : Flattens(f, ss)
  <1> DEFINE n == Len(ss)
             A == Seq(P)
             base == <<>>
             G == FlattenStep(ss, P)
  <1>1. n \in Nat /\ base \in A /\ \A k \in 1 .. n : ss[k] \in A  OBVIOUS
  <1>2. G \in [A \X (1 .. n) -> A]
    <2>1. \A a \in A, k \in 1 .. n : a \o ss[k] \in A  OBVIOUS
    <2> HIDE DEF A
    <2> QED  BY <1>1, <2>1 DEF FlattenStep, A
  <1>3. \A a \in A, k \in 1 .. n : /\ k = 1 => G[<<a, k>>] = ss[k]
                                   /\ k # 1 => G[<<a, k>>] = a \o ss[k]
    BY DEF FlattenStep
  <1> HIDE DEF n, A, base, G
  <1>4. PICK g : Folding(g, n, A, base, G)  BY <1>1, <1>2, FoldExists
  <1> DEFINE f == [i \in 1 .. n |-> g[1 .. i]]
             Step(h, i) == IF i = 1 THEN ss[i] ELSE h[i - 1] \o ss[i]
  <1>5. ASSUME NEW i \in 1 .. n  PROVE f[i] = Step(f, i)
    <2>1. 1 .. i \in SUBSET (1 .. n) /\ 1 .. i # {} /\ Max(1 .. i) = i /\ (1 .. i) \ {Max(1 .. i)} = 1 .. i - 1
      BY <1>1, Segment
    <2>2. g[1 .. i] = G[<<g[1 .. i - 1], i>>] /\ 1 .. i - 1 \in SUBSET (1 .. n)
      BY <1>4, <2>1 DEF Folding
    <2>3. g[1 .. i - 1] \in A  BY <1>4, <2>2 DEF Folding
    <2>4. CASE i = 1  BY <1>3, <2>2, <2>3, <2>4
    <2>5. CASE i # 1
      <3>1. i - 1 \in 1 .. n  BY <1>1, <2>5
      <3>2. f[i - 1] = g[1 .. i - 1] /\ f[i] = g[1 .. i]  BY <3>1
      <3> HIDE DEF f
      <3> QED  BY <1>3, <2>2, <2>3, <2>5, <3>2
    <2> QED  BY <2>4, <2>5
  <1>6. f = [i \in 1 .. n |-> f[i]]  OBVIOUS
  <1> HIDE DEF f
  <1>7. f = [i \in 1 .. n |-> Step(f, i)]  BY <1>5, <1>6
  <1> QED  BY <1>7 DEF Flattens, n

\* FlattenSeq of nothing.
LEMMA FlattenEmpty == FlattenSeq(<<>>) = <<>>
  BY DEF FlattenSeq

\* The values of f, one for each sequence of ss.
Flat(f, ss, P) ==
  /\ Len(ss) # 0 => FlattenSeq(ss) = f[Len(ss)]
  /\ \A i \in 1 .. Len(ss) : /\ f[i] \in Seq(P)
                             /\ i = 1 => f[i] = ss[i]
                             /\ i # 1 => f[i] = f[i - 1] \o ss[i]

\* FlattenSeq takes its value at the last sequence, and each value from the one before.
LEMMA FlattenSteps ==
  ASSUME NEW P, NEW ss \in Seq(Seq(P))
  PROVE  \E f : Flat(f, ss, P)
  <1> DEFINE n == Len(ss)
             f == CHOOSE h : Flattens(h, ss)
  <1>1. n \in Nat /\ \A k \in 1 .. n : ss[k] \in Seq(P)  OBVIOUS
  <1>2. n # 0 => FlattenSeq(ss) = f[n]  BY DEF FlattenSeq, Flattens
  <1>3. Flattens(f, ss)  BY FlattenExists
  <1> HIDE DEF f
  <1>4. \A i \in 1 .. n : /\ i = 1 => f[i] = ss[i]
                          /\ i # 1 => f[i] = f[i - 1] \o ss[i]
    BY <1>3 DEF Flattens
  <1> HIDE DEF n
  <1> DEFINE S == {k \in 0 .. n : k = 0 \/ f[k] \in Seq(P)}
  <1>5. 0 \in S  BY <1>1
  <1>6. ASSUME NEW k \in 0 .. n - 1, k \in S  PROVE k + 1 \in S
    <2>1. k + 1 \in 1 .. n /\ k + 1 \in 0 .. n /\ (k + 1) - 1 = k  BY <1>1
    <2>2. f[k + 1] \in Seq(P)
      <3>1. CASE k = 0
        <4>1. k + 1 = 1 => f[k + 1] = ss[k + 1]  BY <1>4, <2>1
        <4>2. k + 1 = 1  BY <3>1
        <4> QED  BY <1>1, <2>1, <4>1, <4>2
      <3>2. CASE k # 0
        <4>1. f[k] \in Seq(P)  BY <1>6, <3>2
        <4>2. k + 1 # 1  BY <3>2
        <4>3. f[k + 1] = f[k] \o ss[k + 1]  BY <1>4, <2>1, <4>2
        <4> QED  BY <1>1, <2>1, <4>1, <4>3
      <3> QED  BY <3>1, <3>2
    <2> QED  BY <2>1, <2>2
  <1> HIDE DEF S
  <1>7. \A k \in 0 .. n : k \in S  BY <1>1, <1>5, <1>6, Induction
  <1>8. \A i \in 1 .. n : f[i] \in Seq(P)
    <2>1. \A i \in 1 .. n : i \in 0 .. n /\ i # 0  BY <1>1
    <2> QED  BY <1>7, <2>1 DEF S
  <1>9. Flat(f, ss, P)  BY <1>2, <1>4, <1>8 DEF n, Flat
  <1> QED  BY <1>9

\* FlattenSeq goes over a sequence element by element.
LEMMA FlattenAppend ==
  ASSUME NEW P, NEW ss \in Seq(Seq(P)), NEW t \in Seq(P)
  PROVE  /\ FlattenSeq(ss) \in Seq(P)
         /\ FlattenSeq(Append(ss, t)) = FlattenSeq(ss) \o t
  <1> DEFINE n == Len(ss)
             tt == Append(ss, t)
             m == Len(tt)
  <1>1. n \in Nat /\ m = n + 1 /\ tt \in Seq(Seq(P)) /\ tt[m] = t /\ \A k \in 1 .. n : tt[k] = ss[k]
    OBVIOUS
  <1>2. n = 0 => ss = <<>>  OBVIOUS
  <1>3. PICK f : Flat(f, ss, P)  BY FlattenSteps
  <1>4. PICK h : Flat(h, tt, P)
    <2> HIDE DEF tt
    <2> QED  BY <1>1, FlattenSteps
  <1>5. /\ n # 0 => FlattenSeq(ss) = f[n]
        /\ \A i \in 1 .. n : /\ f[i] \in Seq(P)
                             /\ i = 1 => f[i] = ss[i]
                             /\ i # 1 => f[i] = f[i - 1] \o ss[i]
    BY <1>3 DEF Flat
  <1>6. /\ m # 0 => FlattenSeq(tt) = h[m]
        /\ \A i \in 1 .. m : /\ h[i] \in Seq(P)
                             /\ i = 1 => h[i] = tt[i]
                             /\ i # 1 => h[i] = h[i - 1] \o tt[i]
    <2> HIDE DEF tt
    <2> QED  BY <1>4 DEF Flat
  <1> HIDE DEF n, m, tt
  <1>7. CASE n = 0
    <2>1. FlattenSeq(ss) = <<>>  BY <1>2, <1>7, FlattenEmpty
    <2>2. FlattenSeq(tt) = t  BY <1>1, <1>6, <1>7
    <2>3. <<>> \o t = t /\ <<>> \in Seq(P)  OBVIOUS
    <2> QED  BY <2>1, <2>2, <2>3 DEF tt
  <1>8. CASE n # 0
    <2> DEFINE S == {k \in 0 .. n : k = 0 \/ h[k] = f[k]}
    <2>1. 0 \in S  BY <1>1
    <2>2. ASSUME NEW k \in 0 .. n - 1, k \in S  PROVE k + 1 \in S
      <3>1. k + 1 \in 1 .. n /\ k + 1 \in 1 .. m /\ k + 1 \in 0 .. n /\ (k + 1) - 1 = k  BY <1>1
      <3>2. CASE k = 0
        <4>0. k + 1 = 1 => h[k + 1] = tt[k + 1] /\ f[k + 1] = ss[k + 1] /\ tt[k + 1] = ss[k + 1]
          BY <1>1, <1>5, <1>6, <3>1
        <4>1. h[k + 1] = f[k + 1]  BY <3>2, <1>1, <4>0
        <4> QED  BY <3>1, <4>1
      <3>3. CASE k # 0
        <4>1. h[k] = f[k]  BY <2>2, <3>3
        <4>2. k + 1 # 1  BY <3>3
        <4>3. h[k + 1] = h[k] \o tt[k + 1] /\ f[k + 1] = f[k] \o ss[k + 1]  BY <1>5, <1>6, <3>1, <4>2
        <4>4. h[k + 1] = f[k + 1]  BY <1>1, <3>1, <4>1, <4>3
        <4> QED  BY <3>1, <4>4
      <3> QED  BY <3>2, <3>3
    <2> HIDE DEF S
    <2>3. \A k \in 0 .. n : k \in S  BY <1>1, <2>1, <2>2, Induction
    <2>4. n \in S /\ n \in 1 .. n /\ m \in 1 .. m /\ m # 1 /\ m - 1 = n /\ m # 0  BY <1>1, <1>8, <2>3
    <2>5. h[n] = f[n]  BY <1>8, <2>4 DEF S
    <2>6. FlattenSeq(tt) = h[m] /\ h[m] = h[n] \o t  BY <1>1, <1>6, <2>4
    <2> QED  BY <1>5, <1>8, <2>4, <2>5, <2>6 DEF tt
  <1> QED  BY <1>7, <1>8

-----------------------------------------------------------------------------
(* The answer to a question. *)

\* Whether p, of the elements T, is to be before q when s is sorted.
Ahead(s, T, p, q) ==
  /\ p \in T /\ q \in T
  /\ p.score > q.score \/ (p.score = q.score /\ Before(s, p, q))

\* chunks.sort: by falling scores, and as in s among equals.
LEMMA SortedIs ==
  ASSUME NEW P, \A p \in P : p.score \in 1 .. MaxScore, NEW s \in Seq(P)
  PROVE  /\ Sorted(s) \in Seq(P)
         /\ ToSet(Sorted(s)) = ToSet(s)
         /\ \A p, q : Before(Sorted(s), p, q) <=> Ahead(s, ToSet(s), p, q)
  <1> DEFINE Level(i)  == {p \in ToSet(s) : p.score = MaxScore + 1 - i}
             Part(i)   == Kept(s, Level(i))
             Parts(k)  == [i \in 1 .. k |-> Part(i)]
             Top(k)    == {p \in ToSet(s) : p.score >= MaxScore + 1 - k}
             Falls(w, T) == /\ w \in Seq(P) /\ ToSet(w) = T
                            /\ \A p, q : Before(w, p, q) <=> Ahead(s, T, p, q)
             S == {k \in 0 .. MaxScore : Falls(FlattenSeq(Parts(k)), Top(k))}
  <1>1. MaxScore \in Nat  BY BudgetsAssumption
  <1>2. \A p \in ToSet(s) : p.score \in 1 .. MaxScore  BY DEF ToSet
  <1>3. 0 \in S
    <2>1. Parts(0) = <<>>  OBVIOUS
    <2>2. Top(0) = {}  BY <1>1, <1>2
    <2>3. <<>> \in Seq(P)  OBVIOUS
    <2>4. Falls(<<>>, {})
      <3> DEFINE none == <<>>
      <3>1. none \in Seq(P) /\ ToSet(none) = {} /\ \A p, q : ~Before(none, p, q)
        BY BeforeEmpty
      <3> HIDE DEF none
      <3>2. Falls(none, {})  BY <3>1 DEF Ahead
      <3> HIDE DEF Falls
      <3> QED  BY <3>2 DEF none
    <2>5. 0 \in 0 .. MaxScore  BY <1>1
    <2> HIDE DEF Falls, Parts, Top
    <2>6. Falls(FlattenSeq(Parts(0)), Top(0))  BY <2>1, <2>2, <2>4, FlattenEmpty
    <2> QED  BY <2>5, <2>6
  <1>4. ASSUME NEW k \in 0 .. MaxScore - 1, k \in S  PROVE k + 1 \in S
    <2> DEFINE w == FlattenSeq(Parts(k))
               t == Part(k + 1)
               L == Level(k + 1)
               c == MaxScore - k
    <2>1. Falls(w, Top(k))  BY <1>4
    <2>2. /\ t \in Seq(P) /\ ToSet(t) = ToSet(s) \cap L
          /\ \A p, q : Before(t, p, q) <=> Before(s, p, q) /\ p \in L /\ q \in L
      <3> HIDE DEF L, Level
      <3> QED  BY KeptIs DEF L
    <2>3. \A i \in 1 .. k : Part(i) \in Seq(P)
      <3> HIDE DEF Level
      <3> QED  BY KeptIs
    <2>4. Parts(k) \in Seq(Seq(P)) /\ Parts(k + 1) = Append(Parts(k), t)
      <3> HIDE DEF Part
      <3>1. k \in Nat  BY <1>1
      <3> QED  BY <2>2, <2>3, <3>1
    <2>5. FlattenSeq(Parts(k + 1)) = w \o t
      <3> HIDE DEF Parts, t
      <3> QED  BY <2>2, <2>4, FlattenAppend
    <2>6. c \in Nat /\ MaxScore + 1 - (k + 1) = c /\ MaxScore + 1 - k = c + 1 /\ k + 1 \in 0 .. MaxScore
      BY <1>1
    <2>7. w \in Seq(P) /\ ToSet(w) = Top(k) /\ \A p, q : Before(w, p, q) <=> Ahead(s, Top(k), p, q)
      BY <2>1
    <2>8. /\ \A p : p \in Top(k) <=> p \in ToSet(s) /\ p.score > c
          /\ \A p : p \in Top(k + 1) <=> p \in ToSet(s) /\ p.score >= c
          /\ \A p : p \in L <=> p \in ToSet(s) /\ p.score = c
      BY <1>2, <2>6
    <2> HIDE DEF w, t, L, c, Top, Part, Parts, Level
    <2>9. /\ ToSet(w \o t) = ToSet(w) \cup ToSet(t) /\ w \o t \in Seq(P)
          /\ \A p, q : Before(w \o t, p, q) <=>
               Before(w, p, q) \/ Before(t, p, q) \/ (p \in ToSet(w) /\ q \in ToSet(t))
      BY <2>2, <2>7, BeforeJoin
    <2>10. ToSet(w \o t) = Top(k + 1)
      <3>1. \A p : p \in ToSet(w \o t) <=> p \in Top(k) \/ (p \in ToSet(s) /\ p \in L)
        BY <2>2, <2>7, <2>9
      <3>2. \A p \in ToSet(s) : p.score >= c <=> p.score > c \/ p.score = c
        BY <1>2, <2>6
      <3>3. \A p : p \in ToSet(w \o t) <=> p \in Top(k + 1)  BY <2>8, <3>1, <3>2
      <3> QED  BY <3>3
    <2>11. ASSUME NEW p, NEW q  PROVE Before(w \o t, p, q) <=> Ahead(s, Top(k + 1), p, q)
      <3>1. Before(w \o t, p, q) <=>
              \/ Ahead(s, Top(k), p, q)
              \/ Before(s, p, q) /\ p \in L /\ q \in L
              \/ p \in Top(k) /\ q \in L /\ q \in ToSet(s)
        BY <2>2, <2>7, <2>9
      <3>2. CASE p \in ToSet(s) /\ q \in ToSet(s)
        <4>1. p.score \in Nat /\ q.score \in Nat  BY <1>1, <1>2, <3>2
        <4>2. /\ p \in Top(k) <=> p.score > c
              /\ q \in Top(k) <=> q.score > c
              /\ p \in Top(k + 1) <=> p.score >= c
              /\ q \in Top(k + 1) <=> q.score >= c
              /\ p \in L <=> p.score = c
              /\ q \in L <=> q.score = c
          BY <2>8, <3>2
        <4> QED  BY <2>6, <3>1, <3>2, <4>1, <4>2 DEF Ahead
      <3>3. CASE ~(p \in ToSet(s) /\ q \in ToSet(s))
        BY <2>8, <3>1, <3>3 DEF Ahead
      <3> QED  BY <3>2, <3>3
    <2>12. Falls(FlattenSeq(Parts(k + 1)), Top(k + 1))
      BY <2>5, <2>9, <2>10, <2>11
    <2> HIDE DEF Falls
    <2> QED  BY <2>6, <2>12
  <1> HIDE DEF S
  <1>5. MaxScore \in S
    <2>1. MaxScore \in 0 .. MaxScore  BY <1>1
    <2> QED  BY <1>1, <1>3, <1>4, <2>1, Induction
  <1>6. Falls(FlattenSeq(Parts(MaxScore)), Top(MaxScore))  BY <1>5 DEF S
  <1>7. Sorted(s) = FlattenSeq(Parts(MaxScore))  BY DEF Sorted
  <1>8. Top(MaxScore) = ToSet(s)  BY <1>1, <1>2
  <1> HIDE DEF Parts, Top
  <1> QED  BY <1>6, <1>7, <1>8

\* What a search finds: some chunks by falling scores, none of them twice.
Found(s, P) == s \in Seq(P) /\ Single(s) /\ Descending(s)

\* What falls along the places falls along the order.
LEMMA DescendingIs ==
  ASSUME NEW s
  PROVE  Descending(s) <=> \A p, q : Before(s, p, q) => p.score >= q.score
  BY DEF Descending, Before

\* The chunks of an answer: those of both searches once each, sorted, and those of the
\* first in the order it found them.
LEMMA AnswerHasHits ==
  ASSUME NEW P, \A p \in P : p.score \in 1 .. MaxScore, NEW hits, NEW extras,
         Found(hits, P), Found(extras, P)
  PROVE  LET chunks == Sorted(Joined(hits, extras)) IN
         /\ Found(chunks, P)
         /\ ToSet(chunks) = ToSet(hits) \cup ToSet(extras)
         /\ Kept(chunks, ToSet(hits)) = hits
  <1> DEFINE H == ToSet(hits)
             fresh == ToSet(extras) \ H
             rest == Kept(extras, fresh)
             all == hits \o rest
             chunks == Sorted(all)
             kept == Kept(chunks, H)
  <1>1. hits \in Seq(P) /\ extras \in Seq(P) /\ Single(hits) /\ Single(extras) /\ Descending(hits)
    BY DEF Found
  <1>2. /\ rest \in Seq(P) /\ ToSet(rest) = fresh
        /\ \A p, q : Before(rest, p, q) => Before(extras, p, q) /\ p \in fresh
    <2> HIDE DEF fresh
    <2>1. ToSet(rest) = ToSet(extras) \cap fresh /\ rest \in Seq(P)
          /\ \A p, q : Before(rest, p, q) <=> Before(extras, p, q) /\ p \in fresh /\ q \in fresh
      BY <1>1, KeptIs
    <2> QED  BY <2>1 DEF fresh
  <1>3. Joined(hits, extras) = all  BY DEF Joined
  <1>4. H \cap fresh = {} /\ H \cup fresh = ToSet(hits) \cup ToSet(extras)  OBVIOUS
  <1> HIDE DEF rest, fresh
  <1>5. /\ all \in Seq(P) /\ ToSet(all) = H \cup fresh
        /\ \A p, q : Before(all, p, q) <=>
             Before(hits, p, q) \/ Before(rest, p, q) \/ (p \in H /\ q \in fresh)
    BY <1>1, <1>2, BeforeJoin
  <1> HIDE DEF all
  <1>6. /\ chunks \in Seq(P) /\ ToSet(chunks) = ToSet(all)
        /\ \A p, q : Before(chunks, p, q) <=> Ahead(all, ToSet(all), p, q)
    BY <1>5, SortedIs
  <1> HIDE DEF chunks
  <1>7. /\ kept \in Seq(P) /\ ToSet(kept) = ToSet(chunks) \cap H
        /\ \A p, q : Before(kept, p, q) <=> Before(chunks, p, q) /\ p \in H /\ q \in H
    <2> HIDE DEF H
    <2> QED  BY <1>6, KeptIs
  <1> HIDE DEF kept
  <1>8. \A p \in P : p.score \in Nat
    <2>1. MaxScore \in Nat  BY BudgetsAssumption
    <2> QED  BY <2>1
  <1>9. \A p \in ToSet(all) : p \in P  BY <1>5 DEF ToSet
  <1>10. /\ \A p : ~Before(hits, p, p)
         /\ \A p : ~Before(extras, p, p)
         /\ \A p, q : Before(hits, p, q) => p.score >= q.score
         /\ \A p, q : Before(hits, p, q) => p \in H /\ q \in H
    BY <1>1, SingleIs, DescendingIs, BeforeTotal
  <1> HIDE DEF H
  <1>11. Single(chunks)
    <2>1. ASSUME NEW p, Before(chunks, p, p)  PROVE FALSE
      <3>1. p \in ToSet(all) /\ (p.score > p.score \/ Before(all, p, p))  BY <1>6, <2>1 DEF Ahead
      <3>2. p.score \in Nat  BY <1>8, <1>9, <3>1
      <3>3. Before(all, p, p)  BY <3>1, <3>2
      <3> QED  BY <1>2, <1>4, <1>5, <1>10, <3>3
    <2> QED  BY <1>6, <2>1, SingleIs
  <1>12. Descending(chunks)
    <2>1. ASSUME NEW p, NEW q, Before(chunks, p, q)  PROVE p.score >= q.score
      <3>1. p \in ToSet(all) /\ q \in ToSet(all) /\ (p.score > q.score \/ p.score = q.score)
        BY <1>6, <2>1 DEF Ahead
      <3>2. p.score \in Nat /\ q.score \in Nat  BY <1>8, <1>9, <3>1
      <3> QED  BY <3>1, <3>2
    <2> QED  BY <2>1, DescendingIs
  <1>13. \A p, q : Before(hits, p, q) <=> Before(kept, p, q)
    <2>1. ASSUME NEW p, NEW q, Before(hits, p, q)  PROVE Before(kept, p, q)
      <3>1. p \in H /\ q \in H /\ p.score >= q.score /\ p \in ToSet(all) /\ q \in ToSet(all)
        BY <1>5, <1>10, <2>1
      <3>2. p.score \in Nat /\ q.score \in Nat  BY <1>8, <1>9, <3>1
      <3>3. p.score > q.score \/ p.score = q.score  BY <3>1, <3>2
      <3>4. Before(all, p, q)  BY <1>5, <2>1
      <3>5. Before(chunks, p, q)  BY <1>6, <3>1, <3>3, <3>4 DEF Ahead
      <3> QED  BY <1>7, <3>1, <3>5
    <2>2. ASSUME NEW p, NEW q, Before(kept, p, q)  PROVE Before(hits, p, q)
      <3>1. p \in H /\ q \in H /\ Before(chunks, p, q)  BY <1>7, <2>2
      <3>2. p \in ToSet(all) /\ q \in ToSet(all)  BY <1>5, <3>1
      <3>3. p.score > q.score \/ (p.score = q.score /\ Before(all, p, q))  BY <1>6, <3>1 DEF Ahead
      <3>4. p.score \in Nat /\ q.score \in Nat  BY <1>8, <1>9, <3>2
      <3>5. CASE p.score > q.score
        <4>1. p # q /\ ~(q.score >= p.score)  BY <3>4, <3>5
        <4>2. Before(hits, p, q) \/ Before(hits, q, p)  BY <1>1, <3>1, <4>1, BeforeTotal DEF H
        <4> QED  BY <1>10, <4>1, <4>2
      <3>6. CASE Before(all, p, q)
        <4>1. q \notin fresh /\ p \notin fresh  BY <1>4, <3>1
        <4> QED  BY <1>2, <1>5, <3>6, <4>1
      <3> QED  BY <3>3, <3>5, <3>6
    <2> QED  BY <2>1, <2>2
  <1>14. ToSet(hits) = ToSet(kept)  BY <1>5, <1>6, <1>7 DEF H
  <1>15. hits = kept  BY <1>1, <1>7, <1>13, <1>14, SameOrder
  <1> QED  BY <1>3, <1>4, <1>5, <1>6, <1>11, <1>12, <1>15 DEF Found, chunks, kept, all, H

-----------------------------------------------------------------------------
(* Arithmetic of windows and batches. *)

\* Products keep order.
LEMMA Products ==
  ASSUME NEW a \in Nat, NEW b \in Nat, NEW c \in Nat, a <= b
  PROVE  a * c <= b * c /\ a * c \in Nat /\ b * c \in Nat
  OBVIOUS

\* Division with what is left over.
LEMMA Division ==
  ASSUME NEW a \in Nat, NEW b \in Nat \ {0}
  PROVE  /\ a \div b \in Nat
         /\ (a \div b) * b <= a
         /\ a < (a \div b) * b + b
  OBVIOUS

\* How many steps of b it takes to reach a.
LEMMA StepsTo ==
  ASSUME NEW a \in Nat, NEW b \in Nat \ {0}
  PROVE  LET count == (a + b - 1) \div b IN
         /\ count \in Nat /\ a <= count * b
         /\ \A k \in 1 .. count : (k - 1) * b \in Nat /\ (k - 1) * b < a
         /\ \A p \in 0 .. a - 1 : p \div b + 1 \in 1 .. count
  <1> DEFINE count == (a + b - 1) \div b
  <1>1. a + b - 1 \in Nat  OBVIOUS
  <1>2. count \in Nat /\ count * b <= a + b - 1 /\ a + b - 1 < count * b + b
    <2> DEFINE x == a + b - 1
    <2> HIDE DEF x
    <2>1. x \in Nat  BY <1>1 DEF x
    <2>2. x \div b \in Nat /\ (x \div b) * b <= x /\ x < (x \div b) * b + b  BY <2>1, Division
    <2> QED  BY <2>2 DEF x
  <1> HIDE DEF count
  <1>3. count * b \in Nat  BY <1>2
  <1>4. a <= count * b  BY <1>2, <1>3
  <1>5. ASSUME NEW k \in 1 .. count  PROVE (k - 1) * b \in Nat /\ (k - 1) * b < a
    <2>1. k - 1 \in Nat /\ k \in Nat /\ k <= count  BY <1>2
    <2>2. k * b <= count * b  BY <1>2, <2>1, Products
    <2>3. (k - 1) * b + b = k * b /\ (k - 1) * b \in Nat /\ k * b \in Nat  BY <2>1
    <2> QED  BY <1>2, <1>3, <2>2, <2>3
  <1>6. ASSUME NEW p \in 0 .. a - 1  PROVE p \div b + 1 \in 1 .. count
    <2>1. p \in Nat /\ p < a  OBVIOUS
    <2>2. p \div b \in Nat /\ (p \div b) * b <= p  BY <2>1, Division
    <2> DEFINE d == p \div b
    <2> HIDE DEF d
    <2>3. d \in Nat /\ d * b <= p /\ d * b \in Nat  BY <2>2 DEF d
    <2>4. d < count
      <3>1. SUFFICES ASSUME count <= d  PROVE FALSE  BY <1>2, <2>3
      <3>2. count * b <= d * b  BY <1>2, <2>3, <3>1, Products
      <3> QED  BY <1>3, <1>4, <2>1, <2>3, <3>2
    <2> QED  BY <1>2, <2>3, <2>4 DEF d
  <1> QED  BY <1>2, <1>4, <1>5, <1>6 DEF count

-----------------------------------------------------------------------------
(* Texts and spans of their words. *)

\* A text of n words.
IsText(doc, n) ==
  /\ n \in Nat \ {0}
  /\ doc.kind = "text" /\ Len(doc.weights) = n
  /\ \A p \in 1 .. n : doc.weights[p] \in Nat
  /\ 1 \in doc.starts /\ doc.starts \subseteq 1 .. n /\ doc.heads \subseteq doc.starts

\* The words from one to another.
LEMMA SpanIs ==
  ASSUME NEW n \in Nat, NEW f \in 1 .. n + 1, NEW l \in 0 .. n, f <= l + 1
  PROVE  /\ Span(f, l) \in Seq(1 .. n) /\ Len(Span(f, l)) = l - f + 1
         /\ \A i \in 1 .. l - f + 1 : Span(f, l)[i] = f + i - 1
         /\ ToSet(Span(f, l)) = f .. l
  <1> DEFINE s == Span(f, l)
             m == l - f + 1
  <1>1. m \in Nat /\ \A i \in 1 .. m : f + i - 1 \in f .. l /\ f + i - 1 \in 1 .. n  OBVIOUS
  <1>2. \A p \in f .. l : p - f + 1 \in 1 .. m /\ f + (p - f + 1) - 1 = p  OBVIOUS
  <1>3. s = [i \in 1 .. m |-> f + i - 1]  BY DEF Span
  <1> HIDE DEF s, m
  <1>4. s \in Seq(1 .. n) /\ Len(s) = m /\ DOMAIN s = 1 .. m /\ \A i \in 1 .. m : s[i] = f + i - 1
    BY <1>1, <1>3
  <1>5. ToSet(s) = f .. l
    <2>1. ASSUME NEW p \in ToSet(s)  PROVE p \in f .. l
      <3>1. PICK i \in 1 .. m : s[i] = p  BY <1>4, <2>1 DEF ToSet
      <3> QED  BY <1>1, <1>4, <3>1
    <2>2. ASSUME NEW p \in f .. l  PROVE p \in ToSet(s)
      <3>1. p - f + 1 \in DOMAIN s /\ s[p - f + 1] = p  BY <1>2, <1>4
      <3> QED  BY <3>1 DEF ToSet
    <2> QED  BY <2>1, <2>2
  <1> QED  BY <1>4, <1>5 DEF s, m

\* A part of a span is a span.
LEMMA SpanCut ==
  ASSUME NEW n \in Nat, NEW f \in 1 .. n + 1, NEW l \in 0 .. n, f <= l + 1,
         NEW a \in 1 .. l - f + 2, NEW b \in 0 .. l - f + 1, a <= b + 1
  PROVE  SubSeq(Span(f, l), a, b) = Span(f + a - 1, f + b - 1)
  <1> DEFINE s == Span(f, l)
             t == SubSeq(s, a, b)
             u == Span(f + a - 1, f + b - 1)
             m == b - a + 1
  <1>1. f + a - 1 \in 1 .. n + 1 /\ f + b - 1 \in 0 .. n /\ f + a - 1 <= (f + b - 1) + 1
        /\ (f + b - 1) - (f + a - 1) + 1 = m /\ m \in Nat
    OBVIOUS
  <1>2. s \in Seq(1 .. n) /\ Len(s) = l - f + 1 /\ \A i \in 1 .. l - f + 1 : s[i] = f + i - 1
    BY SpanIs
  <1>3. u \in Seq(1 .. n) /\ Len(u) = m /\ \A i \in 1 .. m : u[i] = (f + a - 1) + i - 1
    BY <1>1, SpanIs
  <1> HIDE DEF s, u
  <1>4. t \in Seq(1 .. n) /\ Len(t) = m /\ \A i \in 1 .. m : t[i] = s[a + i - 1]
    BY <1>1, <1>2
  <1> HIDE DEF t
  <1>5. \A i \in 1 .. m : t[i] = u[i]
    <2>1. \A i \in 1 .. m : a + i - 1 \in 1 .. l - f + 1 /\ f + (a + i - 1) - 1 = (f + a - 1) + i - 1  OBVIOUS
    <2> HIDE DEF m
    <2> QED  BY <1>2, <1>3, <1>4, <2>1
  <1>6. t = u  BY <1>3, <1>4, <1>5
  <1> QED  BY <1>6 DEF t, u, s

\* Sequences are equal when their elements are.
LEMMA SeqEqual ==
  ASSUME NEW P, NEW s \in Seq(P), NEW t \in Seq(P), NEW k \in Nat, Len(s) = k, Len(t) = k,
         \A i \in 1 .. k : s[i] = t[i]
  PROVE  s = t
  OBVIOUS

\* Adjacent spans make one.
LEMMA SpanJoin ==
  ASSUME NEW n \in Nat, NEW f \in 1 .. n + 1, NEW l \in 0 .. n, NEW m \in 0 .. n, f <= l + 1, l <= m
  PROVE  Span(f, l) \o Span(l + 1, m) = Span(f, m)
  <1> DEFINE s == Span(f, l)
             t == Span(l + 1, m)
             u == Span(f, m)
  <1>1. s \in Seq(1 .. n) /\ Len(s) = l - f + 1 /\ \A i \in 1 .. l - f + 1 : s[i] = f + i - 1
    BY SpanIs
  <1>2. t \in Seq(1 .. n) /\ Len(t) = m - (l + 1) + 1 /\ \A i \in 1 .. m - (l + 1) + 1 : t[i] = (l + 1) + i - 1
    <2>1. l + 1 \in 1 .. n + 1 /\ l + 1 <= m + 1  OBVIOUS
    <2> QED  BY <2>1, SpanIs
  <1>3. u \in Seq(1 .. n) /\ Len(u) = m - f + 1 /\ \A i \in 1 .. m - f + 1 : u[i] = f + i - 1
    <2>1. f <= m + 1  OBVIOUS
    <2> QED  BY <2>1, SpanIs
  <1> HIDE DEF s, t, u
  <1>4. s \o t \in Seq(1 .. n) /\ Len(s \o t) = m - f + 1
    <2>1. s \in Seq(1 .. n) /\ t \in Seq(1 .. n)  BY <1>1, <1>2
    <2>2. s \o t \in Seq(1 .. n) /\ Len(s \o t) = Len(s) + Len(t)  BY <2>1
    <2> QED  BY <1>1, <1>2, <2>2
  <1>5. ASSUME NEW i \in 1 .. m - f + 1  PROVE (s \o t)[i] = u[i]
    <2>1. CASE i <= l - f + 1
      <3>1. i \in 1 .. Len(s) /\ (s \o t)[i] = s[i]  BY <1>1, <1>2, <2>1
      <3> QED  BY <1>1, <1>3, <3>1
    <2>2. CASE ~(i <= l - f + 1)
      <3>0. Len(s) = l - f + 1 /\ Len(t) = m - l  BY <1>1, <1>2
      <3>1. i - (l - f + 1) \in 1 .. Len(t) /\ (s \o t)[i] = t[i - Len(s)]
        <4>1. s \in Seq(1 .. n) /\ t \in Seq(1 .. n)  BY <1>1, <1>2
        <4>2. i \in Len(s) + 1 .. Len(s) + Len(t)  BY <2>2, <3>0
        <4>3. (s \o t)[i] = t[i - Len(s)]  BY <4>1, <4>2
        <4> QED  BY <2>2, <3>0, <4>3
      <3>2. (l + 1) + (i - (l - f + 1)) - 1 = f + i - 1  OBVIOUS
      <3> QED  BY <1>1, <1>2, <1>3, <3>1, <3>2
    <2> QED  BY <2>1, <2>2
  <1>6. s \o t = u
    <2>1. m - f + 1 \in Nat  OBVIOUS
    <2> QED  BY <1>3, <1>4, <1>5, <2>1, SeqEqual
  <1> QED  BY <1>6 DEF s, t, u

\* Tokens are counted in numbers.
LEMMA TokensType ==
  ASSUME NEW doc, NEW n, IsText(doc, n), NEW words \in Seq(1 .. n)
  PROVE  Tokens(doc, words) \in Nat
  <1>1. 1 \in 1 .. n /\ \A p \in 1 .. n : doc.weights[p] \in Nat  BY DEF IsText
  <1> QED  BY <1>1, TokensAppend

\* What is kept of a piece: its first word at least, and else as many as fit.
LEMMA TrimIs ==
  ASSUME NEW doc, NEW words, NEW m \in Nat \ {0}, Len(words) = m
  PROVE  \E t \in 1 .. m :
           /\ Trim(doc, words) = SubSeq(words, 1, t)
           /\ t = 1 \/ Tokens(doc, SubSeq(words, 1, t)) <= Cap
           /\ \A k \in 1 .. m : Tokens(doc, SubSeq(words, 1, k)) <= Cap => k <= t
  <1> DEFINE fits == {k \in 1 .. m : k = 1 \/ Tokens(doc, SubSeq(words, 1, k)) <= Cap}
             t == CHOOSE k \in fits : \A i \in fits : i <= k
  <1>1. 1 \in fits /\ fits \subseteq 0 .. m  OBVIOUS
  <1>2. Trim(doc, words) = SubSeq(words, 1, t)  BY DEF Trim
  <1>3. t \in fits /\ \A i \in fits : i <= t
    <2> HIDE DEF fits
    <2>1. \E k \in fits : \A i \in fits : i <= k
      <3>1. fits # {}  BY <1>1
      <3> QED  BY <1>1, <3>1, GreatestNumber
    <2> QED  BY <2>1
  <1> HIDE DEF t
  <1> QED  BY <1>2, <1>3

-----------------------------------------------------------------------------
(* Pieces of a text. *)

\* Words from f on, none after m: all up to the next window, when no words are too heavy.
Piece(doc, words, f, m) ==
  \E l \in f .. m : /\ words = Span(f, l)
                    /\ l = f \/ Tokens(doc, words) <= Cap
                    /\ Even(doc) => \A p \in f .. m : p < f + Stride => p <= l

\* What is left of a window when it has been trimmed.
LEMMA WindowIs ==
  ASSUME NEW doc, NEW n, IsText(doc, n), NEW m \in 1 .. n, NEW f \in 1 .. m, NEW e \in f .. m,
         \A p \in f .. m : p < f + Stride => p <= e
  PROVE  Piece(doc, Trim(doc, Span(f, e)), f, m)
  <1> DEFINE s == Span(f, e)
             c == e - f + 1
  <1>1. n \in Nat /\ Len(doc.weights) = n  BY DEF IsText
  <1>2. c \in Nat \ {0} /\ f \in 1 .. n + 1 /\ e \in 0 .. n /\ f <= e + 1 /\ e \in Nat /\ f \in Nat
    BY <1>1
  <1>3. Len(s) = c
    <2> HIDE DEF c
    <2> QED  BY <1>1, <1>2, SpanIs DEF c
  <1>4. ASSUME NEW k \in 1 .. c  PROVE SubSeq(s, 1, k) = Span(f, f + k - 1)
    <2>1. 1 \in 1 .. e - f + 2 /\ k \in 0 .. e - f + 1 /\ 1 <= k + 1 /\ f + 1 - 1 = f  BY <1>2
    <2>2. SubSeq(Span(f, e), 1, k) = Span(f + 1 - 1, f + k - 1)
      <3> HIDE DEF s, c
      <3> QED  BY <1>1, <1>2, <2>1, SpanCut
    <2> QED  BY <2>1, <2>2
  <1> HIDE DEF s
  <1>5. PICK t \in 1 .. c : /\ Trim(doc, s) = SubSeq(s, 1, t)
                            /\ t = 1 \/ Tokens(doc, SubSeq(s, 1, t)) <= Cap
                            /\ \A k \in 1 .. c : Tokens(doc, SubSeq(s, 1, k)) <= Cap => k <= t
    <2> HIDE DEF c
    <2> QED  BY <1>2, <1>3, TrimIs
  <1> DEFINE l == f + t - 1
  <1>6. l \in f .. m /\ Trim(doc, s) = Span(f, l) /\ (l = f \/ Tokens(doc, Span(f, l)) <= Cap)
    <2>1. l \in f .. m /\ (t = 1 => l = f)  BY <1>2
    <2>2. SubSeq(s, 1, t) = Span(f, l)  BY <1>4
    <2> HIDE DEF l
    <2> QED  BY <1>5, <2>1, <2>2
  <1>7. ASSUME Even(doc), NEW p \in f .. m, p < f + Stride  PROVE p <= l
    <2> DEFINE k == p - f + 1
    <2>1. p <= e  BY <1>7
    <2>2. k \in 1 .. c /\ f + k - 1 = p  BY <1>2, <2>1
    <2>3. SubSeq(s, 1, k) = Span(f, p)
      <3> HIDE DEF k, c
      <3> QED  BY <1>4, <2>2
    <2>4. f \in 1 .. n /\ p \in 1 .. n /\ f <= p  BY <1>1
    <2>5. Tokens(doc, Span(f, p)) <= Cap  BY <1>1, <1>7, <2>4 DEF Even
    <2>6. k <= t
      <3> HIDE DEF k, c
      <3> QED  BY <1>5, <2>2, <2>3, <2>5
    <2> QED  BY <1>2, <2>2, <2>6
  <1> HIDE DEF l
  <1> QED  BY <1>6, <1>7 DEF Piece, s

\* Where the k-th window starts.
Start(b, k) == b + (k - 1) * Stride + 1

\* _split_tokens: a window every Stride words, to the end of the text.
LEMMA SplitIs ==
  ASSUME NEW doc, NEW n, IsText(doc, n), NEW b \in 0 .. n, NEW m \in b .. n
  PROVE  LET pieces == Split(doc, Span(b + 1, m))
             count  == (m - b + Stride - 1) \div Stride
         IN /\ count \in Nat /\ pieces = [k \in 1 .. count |-> pieces[k]]
            /\ \A k \in 1 .. count : Start(b, k) \in b + 1 .. m /\ Piece(doc, pieces[k], Start(b, k), m)
            /\ \A p \in b + 1 .. m : \E k \in 1 .. count : Start(b, k) <= p /\ p < Start(b, k) + Stride
  <1> DEFINE s == Span(b + 1, m)
             a == m - b
             count == (a + Stride - 1) \div Stride
             Till(k) == IF (k - 1) * Stride + Window < a THEN (k - 1) * Stride + Window ELSE a
             pieces == Split(doc, s)
  <1>1. n \in Nat /\ Stride \in Nat \ {0} /\ Window \in Nat /\ Stride <= Window /\ a \in Nat
        /\ b \in Nat /\ m \in Nat /\ m <= n
    BY WindowAssumption DEF IsText
  <1>2. Len(s) = a
    <2>1. b + 1 \in 1 .. n + 1 /\ m \in 0 .. n /\ b + 1 <= m + 1 /\ m - (b + 1) + 1 = a  BY <1>1
    <2> HIDE DEF a
    <2> QED  BY <1>1, <2>1, SpanIs, SMTT(30)
  <1>3. /\ count \in Nat
        /\ \A k \in 1 .. count : (k - 1) * Stride \in Nat /\ (k - 1) * Stride < a
        /\ \A p \in 0 .. a - 1 : p \div Stride + 1 \in 1 .. count
    <2> HIDE DEF a
    <2> QED  BY <1>1, StepsTo
  <1>4. pieces = [k \in 1 .. count |-> Trim(doc, SubSeq(s, (k - 1) * Stride + 1, Till(k)))]
    <2> HIDE DEF s, a
    <2> QED  BY <1>2 DEF Split
  <1> HIDE DEF s, count, pieces
  <1>5. ASSUME NEW k \in 1 .. count
        PROVE  Start(b, k) \in b + 1 .. m /\ Piece(doc, pieces[k], Start(b, k), m)
    <2> DEFINE x == (k - 1) * Stride
               f == b + x + 1
               y == Till(k)
               e == b + y
    <2>1. x \in Nat /\ x < a  BY <1>3
    <2>2. y = (IF x + Window < a THEN x + Window ELSE a) /\ f = Start(b, k)  BY DEF Start
    <2>3. pieces[k] = Trim(doc, SubSeq(s, x + 1, y))  BY <1>4
    <2> HIDE DEF x, y
    <2>4. y \in Nat /\ x < y /\ y <= a /\ (y = x + Window \/ y = a)  BY <1>1, <2>1, <2>2
    <2>5. m \in 1 .. n /\ f \in 1 .. m /\ e \in f .. m /\ f \in b + 1 .. m  BY <1>1, <2>1, <2>4
    <2>6. \A p \in f .. m : p < f + Stride => p <= e  BY <1>1, <2>1, <2>4
    <2>7. SubSeq(s, x + 1, y) = Span(f, e)
      <3>1. /\ b + 1 \in 1 .. n + 1 /\ m \in 0 .. n /\ b + 1 <= m + 1
            /\ x + 1 \in 1 .. m - (b + 1) + 2 /\ y \in 0 .. m - (b + 1) + 1 /\ x + 1 <= y + 1
            /\ (b + 1) + (x + 1) - 1 = f /\ (b + 1) + y - 1 = e
        BY <1>1, <2>1, <2>4
      <3> HIDE DEF f, e
      <3>2. SubSeq(Span(b + 1, m), x + 1, y) = Span((b + 1) + (x + 1) - 1, (b + 1) + y - 1)
        BY <1>1, <3>1, SpanCut
      <3> QED  BY <3>1, <3>2 DEF s
    <2> HIDE DEF f, e
    <2>8. Piece(doc, Trim(doc, Span(f, e)), f, m)  BY <2>5, <2>6, WindowIs
    <2> QED  BY <2>2, <2>3, <2>5, <2>7, <2>8
  <1>6. ASSUME NEW p \in b + 1 .. m
        PROVE  \E k \in 1 .. count : Start(b, k) <= p /\ p < Start(b, k) + Stride
    <2> DEFINE q == p - b - 1
               d == q \div Stride
    <2>1. q \in 0 .. a - 1 /\ q \in Nat  BY <1>1
    <2>2. d + 1 \in 1 .. count  BY <1>3, <2>1
    <2>3. d \in Nat /\ d * Stride <= q /\ q < d * Stride + Stride
      <3> HIDE DEF q
      <3> QED  BY <1>1, <2>1, Division
    <2>4. d * Stride \in Nat /\ (d + 1) - 1 = d  BY <1>1, <2>3
    <2> HIDE DEF d
    <2>5. Start(b, d + 1) = b + d * Stride + 1  BY <2>3, <2>4 DEF Start
    <2>6. Start(b, d + 1) <= p /\ p < Start(b, d + 1) + Stride  BY <1>1, <2>3, <2>4, <2>5
    <2> QED  BY <2>2, <2>6
  <1>7. pieces = [k \in 1 .. count |-> pieces[k]]  BY <1>4
  <1> QED  BY <1>3, <1>5, <1>6, <1>7 DEF s, count, pieces

-----------------------------------------------------------------------------
(* Chunks laid on a text. *)

\* Chunks of a text of n words.
Chunk(n) == [words : Seq(1 .. n), ref : Nat]

\* A part of the text from lo to hi, within the cap or a single word.
OnSpan(doc, words, lo, hi) ==
  \E f \in lo + 1 .. hi : \E l \in f .. hi : words = Span(f, l) /\ (l = f \/ Tokens(doc, words) <= Cap)

\* Chunks of the text from lo to hi, in its order; all of it, when no words are too heavy.
Laid(doc, out, lo, hi, n) ==
  /\ out \in Seq(Chunk(n))
  /\ \A i \in DOMAIN out : OnSpan(doc, out[i].words, lo, hi) /\ out[i].words[1] \in lo + 1 .. hi
  /\ \A i, j \in DOMAIN out : i < j => out[i].words[1] < out[j].words[1]
  /\ Even(doc) => \A p \in lo + 1 .. hi : \E i \in DOMAIN out : p \in ToSet(out[i].words)

\* Chunks of one part and of the next are chunks of both.
LEMMA LaidJoin ==
  ASSUME NEW doc, NEW n \in Nat, NEW b \in 0 .. n, NEW m \in b .. n, NEW s, NEW t,
         Laid(doc, s, 0, b, n), Laid(doc, t, b, m, n)
  PROVE  Laid(doc, s \o t, 0, m, n)
  <1> DEFINE u == s \o t
             k == Len(s)
  <1>1. s \in Seq(Chunk(n)) /\ t \in Seq(Chunk(n)) /\ k \in Nat /\ Len(t) \in Nat  BY DEF Laid
  <1>2. u \in Seq(Chunk(n)) /\ Len(u) = k + Len(t)  BY <1>1
  <1>3. DOMAIN u = 1 .. k + Len(t) /\ DOMAIN s = 1 .. k /\ DOMAIN t = 1 .. Len(t)  BY <1>1, <1>2
  <1>4. \A i \in DOMAIN s : i \in DOMAIN u /\ u[i] = s[i]  BY <1>1, <1>3
  <1>5. \A i \in DOMAIN t : i + k \in DOMAIN u /\ u[i + k] = t[i]
    <2>1. ASSUME NEW i \in DOMAIN t  PROVE i + k \in DOMAIN u /\ u[i + k] = t[i]
      <3>1. i + k \in 1 .. k + Len(t) /\ ~(i + k <= k) /\ (i + k) - k = i  BY <1>1, <1>3
      <3> QED  BY <1>1, <1>3, <3>1
    <2> QED  BY <2>1
  <1>6. \A i \in DOMAIN u : i \in DOMAIN s \/ (i - k \in DOMAIN t /\ i = (i - k) + k)
    BY <1>1, <1>3
  <1>7. b \in Nat /\ m \in Nat /\ b <= m  OBVIOUS
  <1> HIDE DEF u, k
  <1>8. ASSUME NEW i \in DOMAIN u
        PROVE  OnSpan(doc, u[i].words, 0, m) /\ u[i].words[1] \in 0 + 1 .. m
    <2>1. CASE i \in DOMAIN s
      <3>1. OnSpan(doc, s[i].words, 0, b) /\ s[i].words[1] \in 0 + 1 .. b  BY <2>1 DEF Laid
      <3>2. OnSpan(doc, s[i].words, 0, m)
        <4> DEFINE In(f, l) == s[i].words = Span(f, l) /\ (l = f \/ Tokens(doc, s[i].words) <= Cap)
        <4>1. \E f \in 0 + 1 .. b : \E l \in f .. b : In(f, l)  BY <3>1 DEF OnSpan
        <4> HIDE DEF In
        <4>2. PICK f \in 0 + 1 .. b : \E l \in f .. b : In(f, l)  BY <4>1
        <4>3. PICK l \in f .. b : In(f, l)  BY <4>2
        <4>4. f \in 0 + 1 .. m /\ l \in f .. m  BY <1>7
        <4> QED  BY <4>3, <4>4 DEF OnSpan, In
      <3> QED  BY <1>4, <1>7, <2>1, <3>1, <3>2
    <2>2. CASE i - k \in DOMAIN t /\ i = (i - k) + k
      <3> DEFINE j == i - k
      <3>1. u[i] = t[j] /\ OnSpan(doc, t[j].words, b, m) /\ t[j].words[1] \in b + 1 .. m
        BY <1>5, <2>2 DEF Laid
      <3> HIDE DEF j
      <3>2. OnSpan(doc, t[j].words, 0, m)
        <4> DEFINE In(f, l) == t[j].words = Span(f, l) /\ (l = f \/ Tokens(doc, t[j].words) <= Cap)
        <4>1. \E f \in b + 1 .. m : \E l \in f .. m : In(f, l)  BY <3>1 DEF OnSpan
        <4> HIDE DEF In
        <4>2. PICK f \in b + 1 .. m : \E l \in f .. m : In(f, l)  BY <4>1
        <4>3. PICK l \in f .. m : In(f, l)  BY <4>2
        <4>4. f \in 0 + 1 .. m /\ l \in f .. m  BY <1>7
        <4> QED  BY <4>3, <4>4 DEF OnSpan, In
      <3> QED  BY <1>7, <3>1, <3>2
    <2> QED  BY <1>6, <2>1, <2>2
  <1>9. ASSUME NEW i \in DOMAIN u, NEW j \in DOMAIN u, i < j  PROVE u[i].words[1] < u[j].words[1]
    <2>1. CASE i \in DOMAIN s /\ j \in DOMAIN s
      BY <1>4, <1>9, <2>1 DEF Laid
    <2>2. CASE i \in DOMAIN s /\ j - k \in DOMAIN t /\ j = (j - k) + k
      <3> DEFINE x == j - k
      <3>1. u[i] = s[i] /\ u[j] = t[x] /\ x \in DOMAIN t  BY <1>4, <1>5, <2>2
      <3>2. s[i].words[1] \in 0 + 1 .. b /\ t[x].words[1] \in b + 1 .. m  BY <2>2, <3>1 DEF Laid
      <3> HIDE DEF x
      <3> QED  BY <1>7, <3>1, <3>2
    <2>3. CASE i - k \in DOMAIN t /\ i = (i - k) + k /\ j - k \in DOMAIN t /\ j = (j - k) + k
      <3> DEFINE x == i - k
                 y == j - k
      <3>1. u[i] = t[x] /\ u[j] = t[y] /\ x \in DOMAIN t /\ y \in DOMAIN t  BY <1>5, <2>3
      <3>2. x < y  BY <1>1, <1>3, <1>9
      <3> HIDE DEF x, y
      <3> QED  BY <3>1, <3>2 DEF Laid
    <2>4. CASE i - k \in DOMAIN t /\ i = (i - k) + k /\ j \in DOMAIN s
      <3>1. FALSE  BY <1>1, <1>3, <1>9, <2>4
      <3> QED  BY <3>1
    <2> QED  BY <1>6, <2>1, <2>2, <2>3, <2>4
  <1>10. ASSUME Even(doc), NEW p \in 0 + 1 .. m  PROVE \E i \in DOMAIN u : p \in ToSet(u[i].words)
    <2>1. CASE p \in 0 + 1 .. b
      <3>1. PICK i \in DOMAIN s : p \in ToSet(s[i].words)  BY <1>10, <2>1 DEF Laid
      <3> QED  BY <1>4, <3>1
    <2>2. CASE p \in b + 1 .. m
      <3>1. PICK i \in DOMAIN t : p \in ToSet(t[i].words)  BY <1>10, <2>2 DEF Laid
      <3>2. i + k \in DOMAIN u /\ u[i + k] = t[i]  BY <1>5
      <3> QED  BY <3>1, <3>2
    <2> QED  BY <1>7, <2>1, <2>2
  <1>11. Laid(doc, u, 0, m, n)  BY <1>2, <1>8, <1>9, <1>10 DEF Laid
  <1> QED  BY <1>11 DEF u

\* The pieces of what is buffered are laid on it.
LEMMA SplitLaid ==
  ASSUME NEW doc, NEW n, IsText(doc, n), NEW b \in 0 .. n, NEW m \in b .. n, NEW ref \in Nat
  PROVE  LET pieces == Split(doc, Span(b + 1, m))
         IN Laid(doc, [k \in DOMAIN pieces |-> [words |-> pieces[k], ref |-> ref]], b, m, n)
  <1> DEFINE pieces == Split(doc, Span(b + 1, m))
             count  == (m - b + Stride - 1) \div Stride
             out    == [k \in DOMAIN pieces |-> [words |-> pieces[k], ref |-> ref]]
  <1>1. /\ count \in Nat /\ pieces = [k \in 1 .. count |-> pieces[k]]
        /\ \A k \in 1 .. count : Start(b, k) \in b + 1 .. m /\ Piece(doc, pieces[k], Start(b, k), m)
        /\ \A p \in b + 1 .. m : \E k \in 1 .. count : Start(b, k) <= p /\ p < Start(b, k) + Stride
    <2> HIDE DEF pieces
    <2> QED  BY SplitIs DEF pieces
  <1> HIDE DEF pieces, count
  <1>2. DOMAIN pieces = 1 .. count  BY <1>1
  <1>3. n \in Nat /\ b \in Nat /\ m \in Nat /\ m <= n /\ Stride \in Nat \ {0}  BY WindowAssumption DEF IsText
  <1>4. ASSUME NEW k \in 1 .. count
        PROVE  /\ pieces[k] \in Seq(1 .. n) /\ pieces[k][1] = Start(b, k)
               /\ OnSpan(doc, pieces[k], b, m)
               /\ Even(doc) => \A p \in Start(b, k) .. m : p < Start(b, k) + Stride => p \in ToSet(pieces[k])
    <2> DEFINE f == Start(b, k)
    <2>1. f \in b + 1 .. m /\ Piece(doc, pieces[k], f, m)  BY <1>1
    <2> HIDE DEF f
    <2>2. PICK l \in f .. m : /\ pieces[k] = Span(f, l)
                              /\ l = f \/ Tokens(doc, pieces[k]) <= Cap
                              /\ Even(doc) => \A p \in f .. m : p < f + Stride => p <= l
      BY <2>1 DEF Piece
    <2>3. f \in 1 .. n + 1 /\ l \in 0 .. n /\ f <= l + 1 /\ 1 \in 1 .. l - f + 1 /\ f + 1 - 1 = f  BY <1>3, <2>1
    <2>4. /\ Span(f, l) \in Seq(1 .. n) /\ Span(f, l)[1] = f /\ ToSet(Span(f, l)) = f .. l
      <3>1. \A i \in 1 .. l - f + 1 : Span(f, l)[i] = f + i - 1  BY <1>3, <2>3, SpanIs
      <3>2. Span(f, l)[1] = f + 1 - 1  BY <2>3, <3>1
      <3>3. n \in Nat /\ f \in 1 .. n + 1 /\ l \in 0 .. n /\ f <= l + 1  BY <1>3, <2>3
      <3>4. Span(f, l) \in Seq(1 .. n)  BY <3>3, SpanIs
      <3>5. ToSet(Span(f, l)) = f .. l  BY <3>3, SpanIs
      <3> QED  BY <2>3, <3>2, <3>4, <3>5
    <2>5. OnSpan(doc, pieces[k], b, m)  BY <2>1, <2>2 DEF OnSpan
    <2>6. Even(doc) => \A p \in f .. m : p < f + Stride => p \in f .. l  BY <1>3, <2>1, <2>2
    <2> QED  BY <2>2, <2>4, <2>5, <2>6 DEF f
  <1>5. \A k \in 1 .. count : out[k] = [words |-> pieces[k], ref |-> ref]  BY <1>2
  <1>6. DOMAIN out = 1 .. count /\ out \in Seq(Chunk(n))
    <2>1. \A k \in 1 .. count : pieces[k] \in Seq(1 .. n)  BY <1>4
    <2>2. \A k \in 1 .. count : [words |-> pieces[k], ref |-> ref] \in Chunk(n)  BY <2>1 DEF Chunk
    <2>3. out \in [1 .. count -> Chunk(n)]  BY <1>2, <2>2
    <2>4. count \in Nat  BY <1>1
    <2> HIDE DEF out
    <2> QED  BY <2>3, <2>4
  <1> HIDE DEF out
  <1>7. ASSUME NEW k \in 1 .. count  PROVE out[k].words = pieces[k]
    <2>1. out[k] = [words |-> pieces[k], ref |-> ref]  BY <1>5
    <2> QED  BY <2>1
  <1>8. ASSUME NEW i \in 1 .. count, NEW j \in 1 .. count, i < j  PROVE out[i].words[1] < out[j].words[1]
    <2>1. i - 1 \in Nat /\ j - 1 \in Nat /\ (i - 1) + 1 <= j - 1
      <3>1. count \in Nat  BY <1>1
      <3> QED  BY <1>8, <3>1
    <2>2. ((i - 1) + 1) * Stride <= (j - 1) * Stride  BY <1>3, <2>1, Products
    <2>3. ((i - 1) + 1) * Stride = (i - 1) * Stride + Stride /\ (i - 1) * Stride \in Nat /\ (j - 1) * Stride \in Nat
      BY <1>3, <2>1
    <2>4. Start(b, i) < Start(b, j)  BY <1>3, <2>2, <2>3 DEF Start
    <2> QED  BY <1>4, <1>7, <2>4
  <1>9. ASSUME Even(doc), NEW p \in b + 1 .. m  PROVE \E i \in 1 .. count : p \in ToSet(out[i].words)
    <2>1. PICK k \in 1 .. count : Start(b, k) <= p /\ p < Start(b, k) + Stride  BY <1>1
    <2>2. Start(b, k) \in b + 1 .. m  BY <1>1
    <2>3. p \in Start(b, k) .. m  BY <1>3, <2>1, <2>2
    <2>4. p \in ToSet(pieces[k])  BY <1>4, <1>9, <2>1, <2>3
    <2> QED  BY <1>7, <2>4
  <1>10. \A i \in 1 .. count : OnSpan(doc, out[i].words, b, m) /\ out[i].words[1] \in b + 1 .. m
    BY <1>1, <1>4, <1>7
  <1>11. Laid(doc, out, b, m, n)  BY <1>6, <1>8, <1>9, <1>10 DEF Laid
  <1> QED  BY <1>11 DEF out, pieces

-----------------------------------------------------------------------------
(* A text's sections, buffered and flushed. *)

\* Sections of a text of n words, and what has been made of some of them.
Section(n)  == [ref : Nat, words : Seq(1 .. n)]
Progress(n) == [out : Seq(Chunk(n)), buffer : Seq(1 .. n), ref : Nat]

\* A heading is a number, and so is none.
LEMMA RefAtType ==
  ASSUME NEW doc, NEW n, IsText(doc, n), NEW start
  PROVE  RefAt(doc, start) \in Nat
  <1> DEFINE above == {h \in doc.heads : h <= start}
  <1>1. n \in Nat /\ above \subseteq 0 .. n  BY DEF IsText
  <1>2. RefAt(doc, start) = IF above = {} THEN NoRef ELSE CHOOSE h \in above : \A g \in above : g <= h
    BY DEF RefAt
  <1> HIDE DEF above
  <1>3. CASE above = {}
    <2>1. RefAt(doc, start) = NoRef  BY <1>2, <1>3
    <2> QED  BY <2>1 DEF NoRef
  <1>4. CASE above # {}
    <2> DEFINE r == CHOOSE h \in above : \A g \in above : g <= h
    <2>1. \E h \in above : \A g \in above : g <= h  BY <1>1, <1>4, GreatestNumber
    <2>2. r \in above  BY <2>1
    <2> HIDE DEF r
    <2>3. RefAt(doc, start) = r
      <3>1. RefAt(doc, start) = IF above = {} THEN NoRef ELSE r  BY <1>2 DEF r
      <3> QED  BY <1>4, <3>1
    <2> QED  BY <1>1, <2>2, <2>3
  <1> QED  BY <1>3, <1>4

\* Whatever is split, the pieces are words of the text.
LEMMA SplitType ==
  ASSUME NEW doc, NEW n, IsText(doc, n), NEW words \in Seq(1 .. n)
  PROVE  Split(doc, words) \in Seq(Seq(1 .. n))
  <1> DEFINE m == Len(words)
             count == (m + Stride - 1) \div Stride
             Till(k) == IF (k - 1) * Stride + Window < m THEN (k - 1) * Stride + Window ELSE m
             Part(k) == Trim(doc, SubSeq(words, (k - 1) * Stride + 1, Till(k)))
             W == 1 .. n
  <1>1. Stride \in Nat \ {0} /\ Window \in Nat /\ Stride <= Window /\ m \in Nat  BY WindowAssumption
  <1>2. /\ count \in Nat
        /\ \A k \in 1 .. count : (k - 1) * Stride \in Nat /\ (k - 1) * Stride < m
    <2> HIDE DEF m
    <2> QED  BY <1>1, StepsTo
  <1>3. Split(doc, words) = [k \in 1 .. count |-> Part(k)]  BY DEF Split
  <1> HIDE DEF count
  <1>4. ASSUME NEW k \in 1 .. count  PROVE Part(k) \in Seq(W)
    <2> DEFINE x == (k - 1) * Stride
               y == Till(k)
               s == SubSeq(words, x + 1, y)
               c == y - x
    <2>1. x \in Nat /\ x < m  BY <1>2
    <2>2. y = IF x + Window < m THEN x + Window ELSE m  OBVIOUS
    <2>3. Part(k) = Trim(doc, s)  OBVIOUS
    <2> HIDE DEF x, y, Part
    <2>4. y \in Nat /\ x < y /\ y <= m /\ c \in Nat \ {0}  BY <1>1, <2>1, <2>2
    <2>5. s \in Seq(W) /\ Len(s) = c
      <3>1. words \in Seq(W)  OBVIOUS
      <3>2. \A i \in 1 .. c : x + i \in 1 .. m  BY <1>1, <2>1, <2>4
      <3> HIDE DEF W
      <3> QED  BY <1>1, <2>1, <2>4, <3>1
    <2> HIDE DEF s, c
    <2>6. PICK t \in 1 .. c : Trim(doc, s) = SubSeq(s, 1, t)  BY <2>4, <2>5, TrimIs
    <2> HIDE DEF W
    <2>7. SubSeq(s, 1, t) \in Seq(W)  BY <2>4, <2>5
    <2> QED  BY <2>3, <2>6, <2>7
  <1> HIDE DEF Part, W
  <1>5. [k \in 1 .. count |-> Part(k)] \in [1 .. count -> Seq(W)]  BY <1>4
  <1>6. Split(doc, words) \in Seq(Seq(W))  BY <1>2, <1>3, <1>5
  <1> QED  BY <1>6 DEF W

\* What is flushed are chunks.
LEMMA FlushedType ==
  ASSUME NEW doc, NEW n, IsText(doc, n), NEW state \in Progress(n)
  PROVE  Flushed(doc, state) \in Seq(Chunk(n))
  <1> DEFINE pieces == Split(doc, state.buffer)
             new == [k \in DOMAIN pieces |-> [words |-> pieces[k], ref |-> state.ref]]
  <1>1. state.out \in Seq(Chunk(n)) /\ state.buffer \in Seq(1 .. n) /\ state.ref \in Nat
    BY DEF Progress
  <1>2. pieces \in Seq(Seq(1 .. n))  BY <1>1, SplitType
  <1>3. Flushed(doc, state) = state.out \o new  BY DEF Flushed
  <1> HIDE DEF pieces
  <1>4. Len(pieces) \in Nat /\ DOMAIN pieces = 1 .. Len(pieces) /\ \A k \in DOMAIN pieces : pieces[k] \in Seq(1 .. n)
    BY <1>2
  <1>5. \A k \in DOMAIN pieces : [words |-> pieces[k], ref |-> state.ref] \in Chunk(n)
    BY <1>1, <1>4 DEF Chunk
  <1>6. new \in [1 .. Len(pieces) -> Chunk(n)]  BY <1>4, <1>5
  <1> HIDE DEF new
  <1>7. new \in Seq(Chunk(n))  BY <1>4, <1>6
  <1> QED  BY <1>1, <1>3, <1>7

\* A section more: flushed before, or not.
LEMMA SectionAdded ==
  ASSUME NEW doc, NEW n, IsText(doc, n), NEW state \in Progress(n), NEW section \in Section(n)
  PROVE  /\ WithSection(doc, state, section) \in Progress(n)
         /\ LET next == WithSection(doc, state, section) IN
            \/ next.out = state.out /\ next.buffer = state.buffer \o section.words
            \/ next.out = Flushed(doc, state) /\ next.buffer = section.words
  <1> DEFINE full == Tokens(doc, state.buffer) + Tokens(doc, section.words) > Target
             ref  == IF full THEN section.ref ELSE state.ref
             last == IF ref = NoRef THEN section.ref ELSE ref
             out  == IF full THEN Flushed(doc, state) ELSE state.out
             more == (IF full THEN <<>> ELSE state.buffer) \o section.words
  <1>1. /\ state.out \in Seq(Chunk(n)) /\ state.buffer \in Seq(1 .. n) /\ state.ref \in Nat
        /\ section.ref \in Nat /\ section.words \in Seq(1 .. n)
    BY DEF Progress, Section
  <1>2. Flushed(doc, state) \in Seq(Chunk(n))  BY FlushedType
  <1>3. WithSection(doc, state, section) = [out |-> out, buffer |-> more, ref |-> last]
    BY DEF WithSection
  <1>4. last \in Nat  BY <1>1
  <1>5. \/ out = state.out /\ more = state.buffer \o section.words
        \/ out = Flushed(doc, state) /\ more = section.words
    <2>1. <<>> \o section.words = section.words  BY <1>1
    <2>2. CASE full
      <3>1. out = Flushed(doc, state) /\ more = <<>> \o section.words  BY <2>2
      <3> QED  BY <2>1, <3>1
    <2>3. CASE ~full
      <3>1. out = state.out /\ more = state.buffer \o section.words  BY <2>3
      <3> QED  BY <3>1
    <2> QED  BY <2>2, <2>3
  <1> HIDE DEF out, more, last
  <1>6. out \in Seq(Chunk(n)) /\ more \in Seq(1 .. n)
    <2>1. state.buffer \o section.words \in Seq(1 .. n)  BY <1>1
    <2> QED  BY <1>1, <1>2, <1>5, <2>1
  <1> DEFINE next == [out |-> out, buffer |-> more, ref |-> last]
  <1>7. next \in Progress(n) /\ next.out = out /\ next.buffer = more  BY <1>4, <1>6 DEF Progress
  <1> HIDE DEF next
  <1>8. WithSection(doc, state, section) = next  BY <1>3 DEF next
  <1> QED  BY <1>5, <1>7, <1>8

\* Nothing buffered yet.
NoProgress == [out |-> <<>>, buffer |-> <<>>, ref |-> NoRef]

\* What Buffered folds.
BufferedStep(s, doc, size) == [x \in Progress(size) \X (1 .. Len(s)) |-> WithSection(doc, x[1], s[x[2]])]

\* Buffered is a fold.
LEMMA BufferedFold ==
  ASSUME NEW P, NEW s \in Seq(P), NEW doc, NEW size, IsText(doc, size), \A p \in P : p \in Section(size)
  PROVE  /\ BufferedStep(s, doc, size) \in [Progress(size) \X (1 .. Len(s)) -> Progress(size)]
         /\ \E f : Folding(f, Len(s), Progress(size), NoProgress, BufferedStep(s, doc, size)) /\ f[1 .. Len(s)] = Buffered(doc, s)
  <1> DEFINE n == Len(s)
             A == Progress(size)
             base == NoProgress
             Step(sofar, p) == WithSection(doc, sofar, p)
             G == BufferedStep(s, doc, size)
             Good(h) == h = [d \in SUBSET (1 .. n) |-> IF d = {} THEN base ELSE Step(h[d \ {Max(d)}], s[Max(d)])]
             f == CHOOSE h : Good(h)
  <1>1. n \in Nat /\ DOMAIN s = 1 .. n /\ base \in A  BY DEF Progress, NoProgress, NoRef
  <1>2. G \in [A \X (1 .. n) -> A]
    <2>1. \A k \in 1 .. n : s[k] \in Section(size)  OBVIOUS
    <2>2. \A a \in A, k \in 1 .. n : WithSection(doc, a, s[k]) \in A
      <3> HIDE DEF n
      <3> QED  BY <2>1, SectionAdded
    <2> HIDE DEF A, n
    <2> QED  BY <2>2 DEF BufferedStep, A, n
  <1>3. \A a \in A, k \in 1 .. n : G[<<a, k>>] = Step(a, s[k])  BY DEF BufferedStep
  <1>4. Buffered(doc, s) = f[1 .. n]
    BY <1>1 DEF Buffered, NoProgress, FoldLeft, MapThenFoldSet
  <1> HIDE DEF n, A, base, Step, G
  <1>5. \A d \in SUBSET (1 .. n) : d # {} => Max(d) \in 1 .. n /\ d \ {Max(d)} \in SUBSET (1 .. n)
    BY <1>1, MaxOf
  <1>6. PICK g : Folding(g, n, A, base, G)
    BY <1>1, <1>2, FoldExists
  <1>7. Good(g)
    <2>1. \A d \in SUBSET (1 .. n) : d # {} => G[<<g[d \ {Max(d)}], Max(d)>>] = Step(g[d \ {Max(d)}], s[Max(d)])
      BY <1>3, <1>5, <1>6 DEF Folding
    <2> QED  BY <1>6, <2>1 DEF Folding
  <1>8. Good(f)
    <2> HIDE DEF Good
    <2> QED  BY <1>7
  <1> HIDE DEF f
  <1>9. /\ f = [d \in SUBSET (1 .. n) |-> f[d]] /\ f[{}] = base
        /\ \A d \in SUBSET (1 .. n) : d # {} => f[d] = Step(f[d \ {Max(d)}], s[Max(d)])
    <2>1. {} \in SUBSET (1 .. n)  OBVIOUS
    <2> QED  BY <1>8, <2>1
  <1> HIDE DEF Good
  <1>10. Unfolding(f, n, A, base, G)
    BY <1>3, <1>5, <1>9 DEF Unfolding
  <1>11. Folding(f, n, A, base, G)
    BY <1>1, <1>2, <1>10, FoldTyped
  <1> QED  BY <1>2, <1>4, <1>11 DEF n, A, base, G

\* Buffered of nothing.
LEMMA BufferedEmpty ==
  ASSUME NEW doc, NEW size, IsText(doc, size)
  PROVE  Buffered(doc, <<>>) = NoProgress
  <1> DEFINE P == {}
             none == <<>>
             base == NoProgress
  <1>1. none \in Seq(P) /\ Len(none) = 0 /\ 1 .. 0 = {} /\ {} \in SUBSET {}  OBVIOUS
  <1>2. PICK f : Folding(f, Len(none), Progress(size), base, BufferedStep(none, doc, size)) /\ f[1 .. Len(none)] = Buffered(doc, none)
    <2>1. \A p \in P : FALSE  OBVIOUS
    <2> HIDE DEF none, P
    <2> QED  BY <1>1, <2>1, BufferedFold, ZenonT(60) DEF none, base
  <1>3. f[{}] = base
    <2> HIDE DEF none, base
    <2> QED  BY <1>1, <1>2 DEF Folding
  <1> HIDE DEF none, base
  <1> QED  BY <1>1, <1>2, <1>3 DEF none, base

\* Buffered goes over a sequence element by element.
LEMMA BufferedAppend ==
  ASSUME NEW P, NEW doc, NEW size, IsText(doc, size), \A p \in P : p \in Section(size), NEW s \in Seq(P), NEW p \in P
  PROVE  /\ Buffered(doc, s) \in Progress(size)
         /\ Buffered(doc, Append(s, p)) = WithSection(doc, Buffered(doc, s), p)
  <1> DEFINE t == Append(s, p)
             n == Len(s)
             m == Len(t)
             A == Progress(size)
             base == NoProgress
             G == BufferedStep(s, doc, size)
             H == BufferedStep(t, doc, size)
  <1>1. t \in Seq(P) /\ m = n + 1 /\ n \in Nat /\ m \in 1 .. m /\ t[m] = p
    OBVIOUS
  <1>2. \A k \in 1 .. n : t[k] = s[k]  OBVIOUS
  <1>3. PICK g : Folding(g, n, A, base, G) /\ g[1 .. n] = Buffered(doc, s)
    <2> HIDE DEF base, G
    <2> QED  BY BufferedFold DEF base, G
  <1>4. PICK h : Folding(h, m, A, base, H) /\ h[1 .. m] = Buffered(doc, t)
    <2> HIDE DEF base, H, t
    <2> QED  BY <1>1, BufferedFold DEF base, H
  <1>5. Longer(H, m, G, n, A)
    <2> HIDE DEF t
    <2> QED  BY <1>1, <1>2 DEF BufferedStep, Longer
  <1>6. Buffered(doc, s) \in A
    <2>1. 1 .. n \in SUBSET (1 .. n)  OBVIOUS
    <2> HIDE DEF A, G, base
    <2> QED  BY <1>3, <2>1 DEF Folding
  <1>7. H[<<Buffered(doc, s), m>>] = WithSection(doc, Buffered(doc, s), p)
    <2> HIDE DEF t
    <2> QED  BY <1>1, <1>6 DEF BufferedStep
  <1> HIDE DEF n, m, A, base, G, H, t
  <1>8. h[1 .. m] = H[<<g[1 .. n], m>>]
    BY <1>1, <1>3, <1>4, <1>5, FoldAppend
  <1> QED  BY <1>3, <1>4, <1>6, <1>7, <1>8 DEF A, t

\* The elements of a sequence.
LEMMA Elements ==
  ASSUME NEW P, NEW s \in Seq(P)
  PROVE  Len(s) \in Nat /\ DOMAIN s = 1 .. Len(s) /\ \A i \in 1 .. Len(s) : s[i] \in P
  OBVIOUS

\* Where the sections of a text start.
LEMMA StartsAre ==
  ASSUME NEW doc, NEW n, IsText(doc, n)
  PROVE  LET w == Kept(Span(1, n), doc.starts) IN
         /\ w \in Seq(1 .. n) /\ Len(w) \in Nat \ {0} /\ w[1] = 1
         /\ \A i, j \in 1 .. Len(w) : i < j => w[i] < w[j]
  <1> DEFINE s == Span(1, n)
             w == Kept(s, doc.starts)
             k == Len(w)
  <1>1. n \in Nat \ {0} /\ doc.starts \subseteq 1 .. n /\ 1 \in doc.starts  BY DEF IsText
  <1>2. s \in Seq(1 .. n) /\ Len(s) = n /\ (\A i \in 1 .. n : s[i] = i) /\ ToSet(s) = 1 .. n
    <2>1. 1 \in 1 .. n + 1 /\ n \in 0 .. n /\ 1 <= n + 1 /\ n - 1 + 1 = n /\ \A i \in 1 .. n : 1 + i - 1 = i
      BY <1>1
    <2>2. Span(1, n) \in Seq(1 .. n) /\ Len(Span(1, n)) = n - 1 + 1  BY <1>1, <2>1, SpanIs
    <2>3. \A i \in 1 .. n : Span(1, n)[i] = 1 + i - 1
      <3>1. 1 .. n - 1 + 1 = 1 .. n  BY <1>1
      <3>2. Span(1, n) = [i \in 1 .. n |-> 1 + i - 1]  BY <3>1 DEF Span
      <3> QED  BY <3>2
    <2>4. ToSet(Span(1, n)) = 1 .. n  BY <1>1, <2>1, SpanIs
    <2> QED  BY <2>1, <2>2, <2>3, <2>4
  <1> HIDE DEF s
  <1>3. /\ w \in Seq(1 .. n) /\ ToSet(w) = ToSet(s) \cap doc.starts
        /\ \A p, q : Before(w, p, q) <=> Before(s, p, q) /\ p \in doc.starts /\ q \in doc.starts
    BY <1>2, KeptIs
  <1> HIDE DEF w
  <1>4. k \in Nat /\ DOMAIN w = 1 .. k /\ \A i \in 1 .. k : w[i] \in 1 .. n
    <2>1. w \in Seq(1 .. n)  BY <1>3
    <2> QED  BY <2>1, Elements
  <1> HIDE DEF k
  <1>5. ASSUME NEW i \in 1 .. k, NEW j \in 1 .. k, i < j  PROVE w[i] < w[j]
    <2>1. Before(w, w[i], w[j])  BY <1>4, <1>5 DEF Before
    <2>2. Before(s, w[i], w[j])  BY <1>3, <2>1
    <2>3. PICK x, y \in DOMAIN s : x < y /\ s[x] = w[i] /\ s[y] = w[j]  BY <2>2 DEF Before
    <2>4. DOMAIN s = 1 .. n  BY <1>2
    <2> QED  BY <1>2, <2>3, <2>4
  <1>6. PICK i \in 1 .. k : w[i] = 1
    <2>1. 1 \in ToSet(w)  BY <1>1, <1>2, <1>3
    <2> QED  BY <1>4, <2>1 DEF ToSet
  <1>7. k \in Nat \ {0} /\ w[1] = 1
    <2>1. k # 0 /\ 1 \in 1 .. k  BY <1>4, <1>6
    <2>2. ~(1 < i)
      <3>1. SUFFICES ASSUME 1 < i  PROVE FALSE  OBVIOUS
      <3>2. w[1] < 1 /\ w[1] \in 1 .. n  BY <1>4, <1>5, <1>6, <2>1, <3>1
      <3> QED  BY <1>1, <3>2
    <2>3. i = 1  BY <1>4, <2>2
    <2> QED  BY <1>4, <1>6, <2>1, <2>3
  <1> QED  BY <1>3, <1>5, <1>7 DEF k, w, s

\* The words up to which the sections go.
Cuts(e, k, doc, n) ==
  /\ k \in Nat \ {0} /\ e[0] = 0 /\ e[k] = n
  /\ \A i \in 0 .. k : e[i] \in 0 .. n
  /\ \A i \in 1 .. k : e[i - 1] < e[i]
  /\ Sections(doc) \in Seq(Section(n)) /\ Len(Sections(doc)) = k
  /\ \A i \in 1 .. k : Sections(doc)[i].words = Span(e[i - 1] + 1, e[i])

\* The sections are the text, from one start to the next.
LEMMA SectionsAre ==
  ASSUME NEW doc, NEW n, IsText(doc, n)
  PROVE  \E e, k : Cuts(e, k, doc, n)
  <1> DEFINE w == Kept(Span(1, n), doc.starts)
             k == Len(w)
             Till(i) == IF i = k THEN n ELSE w[i + 1] - 1
             e == [i \in 0 .. k |-> Till(i)]
             Part(i) == [ref |-> RefAt(doc, w[i]), words |-> Span(w[i], Till(i))]
  <1>1. n \in Nat \ {0} /\ Len(doc.weights) = n  BY DEF IsText
  <1>2. Sections(doc) = [i \in 1 .. k |-> Part(i)]  BY <1>1 DEF Sections
  <1>3. /\ w \in Seq(1 .. n) /\ k \in Nat \ {0} /\ w[1] = 1
        /\ \A i, j \in 1 .. k : i < j => w[i] < w[j]
    BY StartsAre
  <1> HIDE DEF w
  <1>4. \A i \in 1 .. k : w[i] \in 1 .. n
    <2>1. w \in Seq(1 .. n)  BY <1>3
    <2> QED  BY <2>1, Elements
  <1> HIDE DEF k
  <1>5. \A i \in 0 .. k : e[i] = Till(i)  OBVIOUS
  <1>6. \A i \in 1 .. k : i - 1 \in 0 .. k /\ i - 1 # k /\ (i - 1) + 1 = i /\ i \in 0 .. k  BY <1>3
  <1>7. \A i \in 1 .. k : w[i] = e[i - 1] + 1
    <2>1. ASSUME NEW i \in 1 .. k  PROVE w[i] = e[i - 1] + 1
      <3>1. i - 1 # k /\ (i - 1) + 1 = i /\ i - 1 \in 0 .. k  BY <1>6
      <3>2. e[i - 1] = IF i - 1 = k THEN n ELSE w[(i - 1) + 1] - 1  BY <1>5, <3>1
      <3>3. e[i - 1] = w[i] - 1  BY <3>1, <3>2
      <3>4. w[i] \in Nat  BY <1>4
      <3> QED  BY <3>3, <3>4
    <2> QED  BY <2>1
  <1>8. \A i \in 1 .. k : i # k => w[i + 1] = e[i] + 1 /\ i + 1 \in 1 .. k
    <2>1. ASSUME NEW i \in 1 .. k, i # k  PROVE w[i + 1] = e[i] + 1 /\ i + 1 \in 1 .. k
      <3>1. i + 1 \in 1 .. k /\ (i + 1) - 1 = i  BY <1>3, <2>1
      <3> HIDE DEF e
      <3> QED  BY <1>7, <3>1
    <2> QED  BY <2>1
  <1>9. e[k] = n /\ e[0] = 0
    <2>1. k \in 0 .. k /\ 0 \in 0 .. k /\ 0 # k /\ 0 + 1 = 1  BY <1>3
    <2> QED  BY <1>3, <1>5, <2>1
  <1>10. \A i \in 1 .. k : e[i] = Till(i)  BY <1>5, <1>6
  <1> HIDE DEF e
  <1>11. ASSUME NEW i \in 1 .. k  PROVE e[i - 1] < e[i] /\ e[i] \in 1 .. n /\ e[i - 1] \in 0 .. n - 1
    <2>1. w[i] \in 1 .. n /\ w[i] = e[i - 1] + 1  BY <1>4, <1>7
    <2>2. e[i - 1] \in Int
      <3>1. CASE i = 1  BY <1>9, <3>1
      <3>2. CASE i # 1
        <4>1. i - 1 \in 1 .. k /\ i - 1 # k /\ (i - 1) + 1 = i  BY <1>3, <3>2
        <4>2. e[i - 1] = w[i] - 1  BY <1>10, <4>1
        <4> QED  BY <2>1, <4>2
      <3> QED  BY <3>1, <3>2
    <2>3. CASE i = k  BY <1>1, <1>9, <2>1, <2>2, <2>3
    <2>4. CASE i # k
      <3>1. i + 1 \in 1 .. k /\ w[i + 1] = e[i] + 1 /\ e[i] = w[i + 1] - 1  BY <1>8, <1>10, <2>4
      <3>2. w[i] < w[i + 1] /\ w[i + 1] \in 1 .. n
        <4>1. i < i + 1  BY <1>3
        <4> QED  BY <1>3, <1>4, <3>1, <4>1
      <3> QED  BY <1>1, <2>1, <2>2, <3>1, <3>2
    <2> QED  BY <2>3, <2>4
  <1>12. \A i \in 0 .. k : e[i] \in 0 .. n
    <2>1. ASSUME NEW i \in 0 .. k  PROVE e[i] \in 0 .. n
      <3>1. CASE i = 0  BY <1>1, <1>9, <3>1
      <3>2. CASE i # 0
        <4>1. i \in 1 .. k  BY <1>3, <3>2
        <4> QED  BY <1>1, <1>11, <4>1
      <3> QED  BY <3>1, <3>2
    <2> QED  BY <2>1
  <1>13. ASSUME NEW i \in 1 .. k
         PROVE  Part(i) \in Section(n) /\ Part(i).words = Span(e[i - 1] + 1, e[i])
    <2> DEFINE r == RefAt(doc, w[i])
               s == Span(w[i], Till(i))
    <2>1. r \in Nat  BY RefAtType
    <2>2. s = Span(e[i - 1] + 1, e[i])  BY <1>7, <1>10
    <2>3. e[i - 1] + 1 \in 1 .. n + 1 /\ e[i] \in 0 .. n /\ e[i - 1] + 1 <= e[i] + 1  BY <1>1, <1>11
    <2>4. Span(e[i - 1] + 1, e[i]) \in Seq(1 .. n)  BY <1>1, <2>3, SpanIs
    <2>5. Part(i) = [ref |-> r, words |-> s]  OBVIOUS
    <2> HIDE DEF r, s, Part
    <2> QED  BY <2>1, <2>2, <2>4, <2>5 DEF Section
  <1> HIDE DEF Part
  <1>14. Sections(doc) \in [1 .. k -> Section(n)]  BY <1>2, <1>13
  <1>15. Sections(doc) \in Seq(Section(n)) /\ Len(Sections(doc)) = k  BY <1>3, <1>14
  <1>16. \A i \in 1 .. k : Sections(doc)[i].words = Span(e[i - 1] + 1, e[i])  BY <1>2, <1>13
  <1>17. Cuts(e, k, doc, n)  BY <1>3, <1>9, <1>11, <1>12, <1>15, <1>16 DEF Cuts
  <1> QED  BY <1>17

\* Up to the m-th word all sections are laid or buffered.
Along(doc, state, m, n) ==
  /\ state \in Progress(n)
  /\ \E b \in 0 .. m : state.buffer = Span(b + 1, m) /\ Laid(doc, state.out, 0, b, n)

\* A flush lays what is buffered.
LEMMA FlushedLaid ==
  ASSUME NEW doc, NEW n, IsText(doc, n), NEW m \in 0 .. n, NEW state, Along(doc, state, m, n)
  PROVE  Laid(doc, Flushed(doc, state), 0, m, n)
  <1> DEFINE buffer == state.buffer
             pieces == Split(doc, buffer)
             new == [k \in DOMAIN pieces |-> [words |-> pieces[k], ref |-> state.ref]]
  <1>1. state.ref \in Nat /\ n \in Nat  BY DEF Along, Progress, IsText
  <1>2. PICK b \in 0 .. m : buffer = Span(b + 1, m) /\ Laid(doc, state.out, 0, b, n)  BY DEF Along
  <1>3. b \in 0 .. n /\ m \in b .. n  BY <1>1, <1>2
  <1>4. Laid(doc, new, b, m, n)
    <2> DEFINE q == Split(doc, Span(b + 1, m))
    <2>1. Laid(doc, [k \in DOMAIN q |-> [words |-> q[k], ref |-> state.ref]], b, m, n)
      BY <1>1, <1>3, SplitLaid
    <2> QED  BY <1>2, <2>1
  <1>5. Flushed(doc, state) = state.out \o new  BY DEF Flushed
  <1> HIDE DEF new
  <1> QED  BY <1>1, <1>2, <1>3, <1>4, <1>5, LaidJoin

\* One more section.
LEMMA AlongStep ==
  ASSUME NEW doc, NEW n, IsText(doc, n), NEW m \in 0 .. n, NEW state, Along(doc, state, m, n),
         NEW e \in m .. n, NEW section \in Section(n), section.words = Span(m + 1, e)
  PROVE  Along(doc, WithSection(doc, state, section), e, n)
  <1> DEFINE next == WithSection(doc, state, section)
  <1>1. n \in Nat /\ state \in Progress(n)  BY DEF IsText, Along
  <1>2. next \in Progress(n)  BY <1>1, SectionAdded
  <1>3. \/ next.out = state.out /\ next.buffer = state.buffer \o section.words
        \/ next.out = Flushed(doc, state) /\ next.buffer = section.words
    BY <1>1, SectionAdded
  <1> HIDE DEF next
  <1>4. Along(doc, next, e, n)
    <2>1. CASE next.out = state.out /\ next.buffer = state.buffer \o section.words
      <3>1. PICK b \in 0 .. m : state.buffer = Span(b + 1, m) /\ Laid(doc, state.out, 0, b, n)  BY DEF Along
      <3>2. b + 1 \in 1 .. n + 1 /\ m \in 0 .. n /\ e \in 0 .. n /\ b + 1 <= m + 1 /\ m <= e /\ b \in 0 .. e
        BY <1>1, <3>1
      <3>3. Span(b + 1, m) \o Span(m + 1, e) = Span(b + 1, e)  BY <1>1, <3>2, SpanJoin
      <3> QED  BY <1>2, <2>1, <3>1, <3>2, <3>3 DEF Along
    <2>2. CASE next.out = Flushed(doc, state) /\ next.buffer = section.words
      <3>1. Laid(doc, next.out, 0, m, n)  BY <2>2, FlushedLaid
      <3>2. m \in 0 .. e  BY <1>1
      <3> QED  BY <1>2, <2>2, <3>1, <3>2 DEF Along
    <2> QED  BY <1>3, <2>1, <2>2
  <1> QED  BY <1>4 DEF next

\* So all of it is laid in the end.
LEMMA PiecesLaid ==
  ASSUME NEW doc, NEW n, IsText(doc, n)
  PROVE  Laid(doc, Pieces(doc), 0, n, n)
  <1> DEFINE s == Sections(doc)
             P == Section(n)
  <1>1. PICK e, k : Cuts(e, k, doc, n)  BY SectionsAre
  <1>2. /\ k \in Nat \ {0} /\ e[0] = 0 /\ e[k] = n
        /\ \A i \in 0 .. k : e[i] \in 0 .. n
        /\ \A i \in 1 .. k : e[i - 1] < e[i]
        /\ s \in Seq(P) /\ Len(s) = k
        /\ \A i \in 1 .. k : s[i].words = Span(e[i - 1] + 1, e[i])
    BY <1>1 DEF Cuts
  <1>3. \A i \in 1 .. k : s[i] \in P
    <2> HIDE DEF s, P
    <2> QED  BY <1>2, Elements
  <1>4. \A p \in P : p \in Section(n)  OBVIOUS
  <1> HIDE DEF s, P
  <1> DEFINE Made(i) == Along(doc, Buffered(doc, SubSeq(s, 1, i)), e[i], n)
             S == {i \in 0 .. k : Made(i)}
  <1>5. Made(0)
    <2>1. SubSeq(s, 1, 0) = <<>>  BY <1>2
    <2>2. Buffered(doc, SubSeq(s, 1, 0)) = NoProgress  BY <2>1, BufferedEmpty
    <2>3. NoProgress \in Progress(n) /\ NoProgress.buffer = <<>> /\ NoProgress.out = <<>>
      BY DEF NoProgress, Progress, NoRef
    <2>4. Span(0 + 1, 0) = <<>>  BY DEF Span
    <2>5. Laid(doc, <<>>, 0, 0, n)
      <3>1. <<>> \in Seq(Chunk(n)) /\ DOMAIN <<>> = {}  OBVIOUS
      <3>2. \A p : p \notin 0 + 1 .. 0  OBVIOUS
      <3> DEFINE none == <<>>
      <3>3. none \in Seq(Chunk(n)) /\ DOMAIN none = {}  BY <3>1
      <3> HIDE DEF none
      <3>4. Laid(doc, none, 0, 0, n)  BY <3>2, <3>3 DEF Laid
      <3> QED  BY <3>4 DEF none
    <2>6. Along(doc, NoProgress, 0, n)
      <3>1. 0 \in 0 .. 0  OBVIOUS
      <3> QED  BY <2>3, <2>4, <2>5, <3>1 DEF Along
    <2> QED  BY <1>2, <2>2, <2>6
  <1>6. ASSUME NEW i \in 0 .. k - 1, Made(i)  PROVE Made(i + 1)
    <2>1. i + 1 \in 1 .. k /\ i \in 0 .. k /\ i + 1 \in 0 .. k /\ (i + 1) - 1 = i  BY <1>2
    <2> DEFINE t == SubSeq(s, 1, i)
    <2>2. t \in Seq(P) /\ SubSeq(s, 1, i + 1) = Append(t, s[i + 1])  BY <1>2, <1>3, <2>1
    <2>3. s[i + 1] \in P  BY <1>3, <2>1
    <2>4. Buffered(doc, Append(t, s[i + 1])) = WithSection(doc, Buffered(doc, t), s[i + 1])
      <3> HIDE DEF t
      <3> QED  BY <1>4, <2>2, <2>3, BufferedAppend
    <2>5. e[i] \in 0 .. n /\ e[i + 1] \in e[i] .. n /\ s[i + 1].words = Span(e[i] + 1, e[i + 1])
      <3>1. e[i] \in 0 .. n /\ e[i + 1] \in 0 .. n /\ e[i] < e[i + 1]  BY <1>2, <2>1
      <3>2. s[i + 1].words = Span(e[(i + 1) - 1] + 1, e[i + 1])  BY <1>2, <2>1
      <3>3. n \in Nat  BY DEF IsText
      <3> QED  BY <2>1, <3>1, <3>2, <3>3
    <2>6. Along(doc, Buffered(doc, t), e[i], n)  BY <1>6
    <2>7. s[i + 1] \in Section(n)  BY <1>4, <2>3
    <2> HIDE DEF t
    <2>8. Along(doc, WithSection(doc, Buffered(doc, t), s[i + 1]), e[i + 1], n)
      BY <2>5, <2>6, <2>7, AlongStep
    <2> QED  BY <2>2, <2>4, <2>8
  <1> HIDE DEF Made
  <1>7. k \in S
    <2>1. 0 \in S /\ \A i \in 0 .. k - 1 : i \in S => i + 1 \in S  BY <1>2, <1>5, <1>6
    <2> HIDE DEF S
    <2>2. \A i \in 0 .. k : i \in S  BY <1>2, <2>1, Induction
    <2> QED  BY <1>2, <2>2
  <1>8. Made(k)  BY <1>7
  <1>9. SubSeq(s, 1, k) = s  BY <1>2
  <1>10. Along(doc, Buffered(doc, s), n, n)  BY <1>2, <1>8, <1>9 DEF Made
  <1>11. n \in 0 .. n  BY DEF IsText
  <1>12. Laid(doc, Flushed(doc, Buffered(doc, s)), 0, n, n)  BY <1>10, <1>11, FlushedLaid
  <1> QED  BY <1>12 DEF Pieces, s

\* The first elements of a sequence.
LEMMA FrontIs ==
  ASSUME NEW P, NEW s \in Seq(P), NEW k \in 0 .. Len(s)
  PROVE  /\ SubSeq(s, 1, k) \in Seq(P) /\ Len(SubSeq(s, 1, k)) = k
         /\ \A i \in 1 .. k : SubSeq(s, 1, k)[i] = s[i]
  OBVIOUS

\* A concatenation, element by element.
LEMMA JoinIs ==
  ASSUME NEW P, NEW s \in Seq(P), NEW t \in Seq(P)
  PROVE  /\ s \o t \in Seq(P) /\ Len(s \o t) = Len(s) + Len(t)
         /\ \A i \in 1 .. Len(s) : (s \o t)[i] = s[i]
         /\ \A i \in 1 .. Len(t) : (s \o t)[Len(s) + i] = t[i]
  OBVIOUS

-----------------------------------------------------------------------------
(* The last chunk, merged. *)

\* rows are the chunks with the c-th, the last, merged into the one before.
Merged(doc, chunks, rows, c, n) ==
  /\ c \in Nat /\ c >= 2 /\ Len(chunks) = c
  /\ rows \in Seq(Chunk(n)) /\ Len(rows) = c - 1
  /\ \A i \in 1 .. c - 2 : rows[i] = chunks[i]
  /\ rows[c - 1].words = chunks[c - 1].words \o chunks[c].words
  /\ Tokens(doc, chunks[c].words) < Least

\* MergeLast merges the last chunk, or nothing.
LEMMA MergeIs ==
  ASSUME NEW doc, NEW n \in Nat, NEW chunks \in Seq(Chunk(n))
  PROVE  LET rows == MergeLast(doc, chunks)
         IN rows = chunks \/ Merged(doc, chunks, rows, Len(chunks), n)
  <1> DEFINE c == Len(chunks)
             P == Chunk(n)
             rows == MergeLast(doc, chunks)
  <1>1. c \in Nat /\ \A i \in 1 .. c : chunks[i] \in P  OBVIOUS
  <1>2. CASE ~(c >= 2 /\ Tokens(doc, chunks[c].words) < Least)
    BY <1>2 DEF MergeLast
  <1>3. CASE c >= 2 /\ Tokens(doc, chunks[c].words) < Least
    <2> DEFINE new == [chunks[c - 1] EXCEPT !.words = @ \o chunks[c].words]
               front == SubSeq(chunks, 1, c - 2)
               last == <<new>>
    <2>1. rows = front \o last  BY <1>3 DEF MergeLast
    <2>2. c - 1 \in 1 .. c /\ c \in 1 .. c /\ c - 2 \in Nat  BY <1>1, <1>3
    <2>3. chunks[c - 1] \in P /\ chunks[c] \in P  BY <1>1, <2>2
    <2>4. new \in P /\ new.words = chunks[c - 1].words \o chunks[c].words
      <3> DEFINE x == chunks[c - 1]
                 y == chunks[c].words
                 z == x.words \o y
      <3>1. x.words \in Seq(1 .. n) /\ y \in Seq(1 .. n) /\ x \in P  BY <2>3 DEF Chunk
      <3>2. new = [x EXCEPT !.words = z]  OBVIOUS
      <3> HIDE DEF x, y
      <3>3. z \in Seq(1 .. n)  BY <3>1
      <3> HIDE DEF z, new
      <3>4. new \in P /\ new.words = z  BY <3>1, <3>2, <3>3 DEF Chunk
      <3> QED  BY <3>4 DEF x, y, z
    <2> HIDE DEF new, rows
    <2>5. front \in Seq(P) /\ Len(front) = c - 2 /\ \A i \in 1 .. c - 2 : front[i] = chunks[i]
      <3> HIDE DEF P
      <3>1. chunks \in Seq(P)  BY DEF P
      <3>2. c - 2 \in 0 .. Len(chunks)  BY <1>1, <2>2
      <3> QED  BY <3>1, <3>2, FrontIs
    <2>6. last \in Seq(P) /\ Len(last) = 1 /\ last[1] = new
      <3> HIDE DEF P
      <3> QED  BY <2>4
    <2> HIDE DEF front, last
    <2>7. rows \in Seq(P) /\ Len(rows) = c - 1
      <3>1. (c - 2) + 1 = c - 1  BY <1>1
      <3> HIDE DEF P
      <3>2. front \o last \in Seq(P) /\ Len(front \o last) = Len(front) + Len(last)
        BY <2>5, <2>6, JoinIs
      <3> QED  BY <2>1, <2>5, <2>6, <3>1, <3>2
    <2>8. \A i \in 1 .. c - 2 : rows[i] = chunks[i]
      <3> HIDE DEF P, c
      <3>1. \A i \in 1 .. c - 2 : (front \o last)[i] = front[i]  BY <2>2, <2>5, <2>6
      <3> QED  BY <2>1, <2>5, <3>1
    <2>9. rows[c - 1] = new
      <3> HIDE DEF P, c
      <3>1. (c - 2) + 1 = c - 1 /\ 1 \in 1 .. 1  BY <1>1
      <3>2. (front \o last)[Len(front) + 1] = last[1]  BY <2>5, <2>6, <3>1, JoinIs
      <3> QED  BY <2>1, <2>5, <2>6, <3>1, <3>2
    <2>10. Merged(doc, chunks, rows, c, n)
      BY <1>1, <1>3, <2>4, <2>7, <2>8, <2>9 DEF Merged
    <2> QED  BY <2>10 DEF rows
  <1> QED  BY <1>2, <1>3

\* A chunk's words: how far over the cap they can be.
NearlyCapped(doc, words) ==
  \E k \in 1 .. Len(words) :
    /\ k = 1 \/ Tokens(doc, SubSeq(words, 1, k)) <= Cap
    /\ Tokens(doc, SubSeq(words, k + 1, Len(words))) < Least

\* The words of a chunk, and with little more merged into it.
LEMMA CapKept ==
  ASSUME NEW doc, NEW n \in Nat, NEW a \in Seq(1 .. n), OnSpan(doc, a, 0, n)
  PROVE  /\ Len(a) \in Nat \ {0}
         /\ NearlyCapped(doc, a)
         /\ \A b \in Seq(1 .. n) : Tokens(doc, b) < Least => NearlyCapped(doc, a \o b)
  <1> DEFINE In(f, l) == a = Span(f, l) /\ (l = f \/ Tokens(doc, a) <= Cap)
  <1>1. \E f \in 0 + 1 .. n : \E l \in f .. n : In(f, l)  BY DEF OnSpan
  <1> HIDE DEF In
  <1>2. PICK f \in 0 + 1 .. n : \E l \in f .. n : In(f, l)  BY <1>1
  <1>3. PICK l \in f .. n : In(f, l)  BY <1>2
  <1>4. a = Span(f, l) /\ (l = f \/ Tokens(doc, a) <= Cap)  BY <1>3 DEF In
  <1>5. f \in 1 .. n + 1 /\ l \in 0 .. n /\ f <= l + 1 /\ l - f + 1 \in Nat \ {0}  OBVIOUS
  <1>6. Len(Span(f, l)) = l - f + 1  BY <1>5, SpanIs
  <1> DEFINE m == Len(a)
  <1>7. m \in Nat \ {0} /\ (m = 1 \/ Tokens(doc, a) <= Cap)
    <2>1. m = l - f + 1  BY <1>4, <1>6
    <2> HIDE DEF m
    <2>2. l = f => m = 1  BY <2>1
    <2> QED  BY <1>4, <1>5, <2>1, <2>2
  <1>8. 0 < Least /\ Tokens(doc, <<>>) < Least
    <2>1. Tokens(doc, <<>>) = 0  BY TokensEmpty
    <2>2. Least \in Nat \ {0}  BY SizesAssumption
    <2> QED  BY <2>1, <2>2
  <1>9. SubSeq(a, 1, m) = a /\ SubSeq(a, m + 1, m) = <<>>  OBVIOUS
  <1>10. m \in 1 .. m  BY <1>7
  <1>11. NearlyCapped(doc, a)
    <2>1. Tokens(doc, SubSeq(a, m + 1, m)) < Least /\ (m = 1 \/ Tokens(doc, SubSeq(a, 1, m)) <= Cap)
      BY <1>7, <1>8, <1>9
    <2> QED  BY <1>10, <2>1 DEF NearlyCapped
  <1>12. ASSUME NEW b \in Seq(1 .. n), Tokens(doc, b) < Least  PROVE NearlyCapped(doc, a \o b)
    <2> DEFINE u == a \o b
               W == 1 .. n
    <2>1. a \in Seq(W) /\ b \in Seq(W)  OBVIOUS
    <2> HIDE DEF W
    <2>2. u \in Seq(W) /\ Len(u) = m + Len(b) /\ Len(b) \in Nat /\ m \in Nat  BY <2>1
    <2>3. SubSeq(u, 1, m) = a  BY <2>1
    <2>4. SubSeq(u, m + 1, Len(u)) = b
      <3> DEFINE t == SubSeq(u, m + 1, m + Len(b))
      <3>1. \A i \in 1 .. Len(b) : u[m + i] = b[i]  BY <2>1
      <3>2. \A i \in 1 .. Len(b) : m + i \in 1 .. Len(u) /\ (m + 1) + i - 1 = m + i  BY <2>2
      <3>3. (m + Len(b)) - (m + 1) + 1 = Len(b)  BY <2>2
      <3> HIDE DEF u, m
      <3>4. t \in Seq(W) /\ Len(t) = Len(b) /\ \A i \in 1 .. Len(b) : t[i] = u[(m + 1) + i - 1]
        BY <2>2, <3>2, <3>3
      <3> HIDE DEF t
      <3>5. \A i \in 1 .. Len(b) : t[i] = b[i]  BY <3>1, <3>2, <3>4
      <3>6. t = b  BY <2>1, <2>2, <3>4, <3>5, SeqEqual
      <3> QED  BY <2>2, <3>6 DEF t
    <2>5. m \in 1 .. Len(u)  BY <1>7, <2>2
    <2> HIDE DEF u, m
    <2>6. NearlyCapped(doc, u)  BY <1>7, <1>12, <2>3, <2>4, <2>5 DEF NearlyCapped
    <2> QED  BY <2>6 DEF u
  <1> QED  BY <1>7, <1>11, <1>12

\* What is asked of the chunks of a text of n words.
TextRows(doc, rows, n) ==
  /\ rows \in Seq(Chunk(n))
  /\ \A i \in DOMAIN rows : rows[i].words # <<>> /\ NearlyCapped(doc, rows[i].words)
  /\ \A i, j \in DOMAIN rows : i < j => rows[i].words[1] < rows[j].words[1]
  /\ Even(doc) => \A p \in 1 .. n : \E i \in DOMAIN rows : p \in ToSet(rows[i].words)

\* The chunks of a text keep to it.
LEMMA TextChunks ==
  ASSUME NEW doc, NEW n, IsText(doc, n)
  PROVE  TextRows(doc, Chunks(doc), n)
  <1> DEFINE chunks == Pieces(doc)
             rows == MergeLast(doc, chunks)
             c == Len(chunks)
  <1>1. n \in Nat /\ Chunks(doc) = rows
    <2>1. doc.kind # "table"  BY DEF IsText
    <2> QED  BY <2>1 DEF Chunks, IsText
  <1>2. Laid(doc, chunks, 0, n, n)  BY PiecesLaid
  <1> HIDE DEF chunks
  <1>3. chunks \in Seq(Chunk(n))  BY <1>2 DEF Laid
  <1>4. rows = chunks \/ Merged(doc, chunks, rows, c, n)  BY <1>1, <1>3, MergeIs
  <1>5. c \in Nat /\ DOMAIN chunks = 1 .. c /\ \A i \in 1 .. c : chunks[i].words \in Seq(1 .. n)
    <2>1. c \in Nat /\ DOMAIN chunks = 1 .. c /\ \A i \in 1 .. c : chunks[i] \in Chunk(n)  BY <1>3, Elements
    <2> QED  BY <2>1 DEF Chunk
  <1> HIDE DEF rows, c
  <1>6. \A i \in 1 .. c : OnSpan(doc, chunks[i].words, 0, n)  BY <1>2, <1>5 DEF Laid
  <1>7. \A i, j \in 1 .. c : i < j => chunks[i].words[1] < chunks[j].words[1]  BY <1>2, <1>5 DEF Laid
  <1>8. Even(doc) => \A p \in 1 .. n : \E i \in 1 .. c : p \in ToSet(chunks[i].words)
    <2>1. 0 + 1 = 1  OBVIOUS
    <2> QED  BY <1>2, <1>5, <2>1 DEF Laid
  <1>9. ASSUME NEW i \in 1 .. c
        PROVE  /\ Len(chunks[i].words) \in Nat \ {0} /\ NearlyCapped(doc, chunks[i].words)
               /\ \A b \in Seq(1 .. n) : Tokens(doc, b) < Least => NearlyCapped(doc, chunks[i].words \o b)
    <2> DEFINE a == chunks[i].words
    <2>1. a \in Seq(1 .. n) /\ OnSpan(doc, a, 0, n)  BY <1>5, <1>6
    <2> HIDE DEF a
    <2>2. /\ Len(a) \in Nat \ {0} /\ NearlyCapped(doc, a)
          /\ \A b \in Seq(1 .. n) : Tokens(doc, b) < Least => NearlyCapped(doc, a \o b)
      BY <1>1, <2>1, CapKept
    <2> QED  BY <2>2 DEF a
  <1>10. TextRows(doc, rows, n)
    <2>1. CASE rows = chunks
      <3>1. \A i \in 1 .. c : chunks[i].words # <<>>
        <4>1. ASSUME NEW i \in 1 .. c  PROVE chunks[i].words # <<>>
          <5>1. Len(chunks[i].words) # 0 /\ Len(<<>>) = 0  BY <1>9
          <5> QED  BY <5>1
        <4> QED  BY <4>1
      <3>2. TextRows(doc, chunks, n)  BY <1>3, <1>5, <1>7, <1>8, <1>9, <3>1 DEF TextRows
      <3> QED  BY <2>1, <3>2
    <2>2. CASE Merged(doc, chunks, rows, c, n)
      <3> DEFINE m == c - 1
                 a == chunks[m].words
                 b == chunks[c].words
      <3>1. /\ c >= 2 /\ rows \in Seq(Chunk(n)) /\ Len(rows) = m
            /\ \A i \in 1 .. c - 2 : rows[i] = chunks[i]
            /\ rows[m].words = a \o b /\ Tokens(doc, b) < Least
        BY <2>2 DEF Merged
      <3>2. m \in 1 .. c /\ c \in 1 .. c /\ m \in Nat  BY <1>5, <3>1
      <3>3. DOMAIN rows = 1 .. m
        <4> HIDE DEF m
        <4> QED  BY <3>1
      <3>4. \A i \in 1 .. m : i \in 1 .. c /\ (i = m \/ i \in 1 .. c - 2)  BY <1>5
      <3>5. a \in Seq(1 .. n) /\ b \in Seq(1 .. n) /\ Len(a) \in Nat \ {0}  BY <1>5, <1>9, <3>2
      <3> HIDE DEF m, a, b
      <3> DEFINE W == 1 .. n
      <3>6. (a \o b)[1] = a[1] /\ (a \o b) # <<>> /\ ToSet(a \o b) = ToSet(a) \cup ToSet(b)
        <4>1. a \in Seq(W) /\ b \in Seq(W)  BY <3>5
        <4> HIDE DEF W
        <4>2. Len(a \o b) = Len(a) + Len(b) /\ Len(b) \in Nat /\ (\A i \in 1 .. Len(a) : (a \o b)[i] = a[i])
          BY <4>1, JoinIs
        <4>3. 1 \in 1 .. Len(a) /\ Len(a \o b) # 0 /\ Len(<<>>) = 0  BY <3>5, <4>2
        <4>4. ToSet(a \o b) = ToSet(a) \cup ToSet(b)  BY <4>1, BeforeJoin
        <4> QED  BY <4>2, <4>3, <4>4
      <3>7. NearlyCapped(doc, a \o b)  BY <1>9, <3>1, <3>2, <3>5 DEF a
      <3>8. ASSUME NEW i \in 1 .. m
            PROVE  /\ rows[i].words # <<>> /\ NearlyCapped(doc, rows[i].words)
                   /\ rows[i].words[1] = chunks[i].words[1]
                   /\ ToSet(chunks[i].words) \subseteq ToSet(rows[i].words)
        <4>1. CASE i = m
          <5>1. rows[i].words = a \o b /\ chunks[i].words = a  BY <3>1, <4>1 DEF a
          <5> QED  BY <3>6, <3>7, <5>1
        <4>2. CASE i \in 1 .. c - 2
          <5>1. rows[i] = chunks[i] /\ i \in 1 .. c  BY <3>1, <3>4, <4>2
          <5>2. Len(chunks[i].words) # 0 /\ Len(<<>>) = 0  BY <1>9, <5>1
          <5>3. chunks[i].words # <<>>  BY <5>2
          <5> QED  BY <1>9, <5>1, <5>3
        <4> QED  BY <3>4, <4>1, <4>2
      <3>9. ASSUME NEW i \in 1 .. m, NEW j \in 1 .. m, i < j  PROVE rows[i].words[1] < rows[j].words[1]
        <4>1. chunks[i].words[1] < chunks[j].words[1]  BY <1>7, <3>4, <3>9
        <4> QED  BY <3>8, <4>1
      <3>10. ASSUME Even(doc), NEW p \in 1 .. n  PROVE \E i \in 1 .. m : p \in ToSet(rows[i].words)
        <4>1. PICK i \in 1 .. c : p \in ToSet(chunks[i].words)  BY <1>8, <3>10
        <4>2. i \in 1 .. m \/ i = c
          <5>1. m = c - 1  BY DEF m
          <5> QED  BY <1>5, <5>1
        <4>3. CASE i \in 1 .. m  BY <3>8, <4>1, <4>3
        <4>4. CASE i = c
          <5>1. p \in ToSet(rows[m].words)  BY <3>1, <3>6, <4>1, <4>4 DEF b
          <5>2. m \in 1 .. m  BY <3>1, <3>2 DEF m
          <5> QED  BY <5>1, <5>2
        <4> QED  BY <4>2, <4>3, <4>4
      <3> QED  BY <3>1, <3>3, <3>8, <3>9, <3>10 DEF TextRows
    <2> QED  BY <1>4, <2>1, <2>2
  <1> QED  BY <1>1, <1>10

-----------------------------------------------------------------------------
(* Tables. *)

\* A table of n rows.
IsTable(doc, n) == n \in Nat \ {0} /\ doc.kind = "table" /\ doc.rows = n

\* What is asked of the chunks of a table of n rows.
TableRows(rows, n) ==
  /\ rows \in Seq(Chunk(n))
  /\ \A i \in DOMAIN rows : rows[i].words # <<>>
  /\ FlattenSeq([i \in DOMAIN rows |-> rows[i].words]) = Span(1, n)

\* The chunks of a table keep to it.
LEMMA TableChunks ==
  ASSUME NEW doc, NEW n, IsTable(doc, n)
  PROVE  TableRows(Chunks(doc), n)
  <1> DEFINE count == (n + Batch - 1) \div Batch
             Top(k) == IF k * Batch < n THEN k * Batch ELSE n
             Words(k) == Span((k - 1) * Batch + 1, Top(k))
             rows == [k \in 1 .. count |-> [words |-> Words(k), ref |-> k]]
             W == 1 .. n
             First(k) == [i \in 1 .. k |-> Words(i)]
  <1>1. n \in Nat \ {0} /\ Batch \in Nat \ {0} /\ Chunks(doc) = rows
    BY SizesAssumption DEF IsTable, Chunks, RowBatches
  <1>2. /\ count \in Nat /\ n <= count * Batch
        /\ \A k \in 1 .. count : (k - 1) * Batch \in Nat /\ (k - 1) * Batch < n
    BY <1>1, StepsTo
  <1> HIDE DEF count
  <1>3. \A k \in 1 .. count : k \in Nat /\ (k - 1) * Batch + Batch = k * Batch /\ k * Batch \in Nat
    BY <1>1, <1>2
  <1>4. ASSUME NEW k \in 1 .. count
        PROVE  /\ Top(k) \in 1 .. n /\ (k - 1) * Batch \in 0 .. n - 1 /\ (k - 1) * Batch < Top(k)
               /\ Words(k) \in Seq(W) /\ Words(k) # <<>>
    <2> DEFINE x == (k - 1) * Batch
               t == Top(k)
    <2>1. x \in Nat /\ x < n /\ x + Batch = k * Batch /\ k * Batch \in Nat  BY <1>2, <1>3
    <2>2. t \in 1 .. n /\ x < t  BY <1>1, <2>1
    <2>3. Words(k) = Span(x + 1, t)  OBVIOUS
    <2> HIDE DEF x, t, Words
    <2>4. x + 1 \in 1 .. n + 1 /\ t \in 0 .. n /\ x + 1 <= t + 1 /\ t - (x + 1) + 1 \in Nat \ {0}  BY <1>1, <2>1, <2>2
    <2>5. Span(x + 1, t) \in Seq(W) /\ Len(Span(x + 1, t)) = t - (x + 1) + 1  BY <1>1, <2>4, SpanIs
    <2>6. Len(Words(k)) # 0 /\ Len(<<>>) = 0  BY <2>3, <2>4, <2>5
    <2>7. Words(k) # <<>>  BY <2>6
    <2> QED  BY <1>1, <2>1, <2>2, <2>3, <2>5, <2>7 DEF x, t
  <1>5. rows \in Seq(Chunk(n)) /\ DOMAIN rows = 1 .. count
    <2> HIDE DEF Words
    <2>1. \A k \in 1 .. count : [words |-> Words(k), ref |-> k] \in Chunk(n)  BY <1>3, <1>4 DEF Chunk
    <2>2. rows \in [1 .. count -> Chunk(n)]  BY <2>1
    <2>3. DOMAIN rows = 1 .. count  OBVIOUS
    <2> HIDE DEF rows
    <2> QED  BY <1>2, <2>2, <2>3
  <1>6. ASSUME NEW k \in 1 .. count  PROVE rows[k].words = Words(k)
    <2> HIDE DEF Words
    <2>1. rows[k] = [words |-> Words(k), ref |-> k]  OBVIOUS
    <2> HIDE DEF rows
    <2> QED  BY <2>1
  <1>7. [i \in DOMAIN rows |-> rows[i].words] = First(count)
    <2> HIDE DEF Words, rows
    <2> QED  BY <1>5, <1>6
  <1> DEFINE S == {k \in 0 .. count : FlattenSeq(First(k)) = Span(1, Top(k))}
  <1>8. 0 \in S
    <2>1. 0 * Batch = 0 /\ 0 < n /\ 0 \in 0 .. count  BY <1>1, <1>2
    <2>2. Top(0) = 0  BY <2>1
    <2>3. First(0) = <<>>  OBVIOUS
    <2>4. Span(1, 0) = <<>>  BY DEF Span
    <2> HIDE DEF First, Top
    <2> QED  BY <2>1, <2>2, <2>3, <2>4, FlattenEmpty
  <1>9. ASSUME NEW k \in 0 .. count - 1, k \in S  PROVE k + 1 \in S
    <2>1. k \in Nat /\ k + 1 \in 1 .. count /\ (k + 1) - 1 = k /\ k + 1 \in 0 .. count  BY <1>2
    <2>2. k * Batch \in Nat /\ k * Batch < n  BY <1>2, <2>1
    <2>3. Top(k) = k * Batch  BY <2>2
    <2>4. Words(k + 1) = Span(k * Batch + 1, Top(k + 1))  BY <2>1
    <2>5. Top(k + 1) \in 1 .. n /\ k * Batch < Top(k + 1)  BY <1>4, <2>1
    <2>6. FlattenSeq(First(k)) = Span(1, k * Batch)  BY <1>9, <2>3
    <2>7. \A i \in 1 .. k + 1 : Words(i) \in Seq(W)
      <3>1. \A i \in 1 .. k + 1 : i \in 1 .. count  BY <1>2, <2>1
      <3> HIDE DEF Words
      <3> QED  BY <1>4, <3>1
    <2>8. First(k) \in Seq(Seq(W)) /\ First(k + 1) = Append(First(k), Words(k + 1)) /\ Words(k + 1) \in Seq(W)
      <3> HIDE DEF Words, W
      <3>1. \A i \in 1 .. k : i \in 1 .. k + 1  BY <2>1
      <3>2. k + 1 \in 1 .. k + 1  BY <2>1
      <3> QED  BY <2>1, <2>7, <3>1, <3>2
    <2> HIDE DEF First, Words, Top
    <2>9. FlattenSeq(First(k + 1)) = FlattenSeq(First(k)) \o Words(k + 1)  BY <2>8, FlattenAppend
    <2> DEFINE l == k * Batch
               m == Top(k + 1)
    <2>10. 1 \in 1 .. n + 1 /\ l \in 0 .. n /\ m \in 0 .. n /\ 1 <= l + 1 /\ l <= m  BY <1>1, <2>2, <2>5
    <2> HIDE DEF l, m
    <2>11. Span(1, l) \o Span(l + 1, m) = Span(1, m)  BY <1>1, <2>10, SpanJoin
    <2>12. FlattenSeq(First(k + 1)) = Span(1, Top(k + 1))  BY <2>4, <2>6, <2>9, <2>11 DEF l, m
    <2> QED  BY <2>1, <2>12
  <1>10. count \in S
    <2> HIDE DEF S
    <2>1. \A k \in 0 .. count : k \in S  BY <1>2, <1>8, <1>9, Induction
    <2> QED  BY <1>2, <2>1
  <1>11. Top(count) = n
    <2>1. count * Batch \in Nat  BY <1>1, <1>2
    <2> QED  BY <1>1, <1>2, <2>1
  <1>12. FlattenSeq(First(count)) = Span(1, n)  BY <1>10, <1>11
  <1> HIDE DEF rows, First, Words
  <1>13. TableRows(rows, n)  BY <1>4, <1>5, <1>6, <1>7, <1>12 DEF TableRows
  <1> QED  BY <1>1, <1>13

-----------------------------------------------------------------------------
(* The documents of a library. *)

\* What the parser may make of a file.
Documents == FirstTexts \cup AnyTable

\* What the parser makes of a text.
LEMMA TextsAre ==
  ASSUME NEW n \in Nat \ {0}, NEW doc \in Texts(n)
  PROVE  IsText(doc, n) /\ SizeOf(doc) = n
  <1> DEFINE Form(S) == [kind : {"text"}, weights : [1 .. n -> Weights], starts : {{1} \cup S}, heads : SUBSET ({1} \cup S)]
  <1>1. doc \in UNION {Form(S) : S \in SUBSET (2 .. n)}  BY DEF Texts
  <1>2. PICK S \in SUBSET (2 .. n) : doc \in Form(S)
    <2> HIDE DEF Form
    <2> QED  BY <1>1
  <1>3. /\ doc.kind = "text" /\ doc.weights \in [1 .. n -> Weights]
        /\ doc.starts = {1} \cup S /\ doc.heads \in SUBSET ({1} \cup S)
    BY <1>2
  <1>4. Len(doc.weights) = n
    <2> DEFINE w == doc.weights
    <2>1. w \in [1 .. n -> Weights]  BY <1>3
    <2> HIDE DEF w
    <2>2. w \in Seq(Weights) /\ Len(w) = n  BY <2>1
    <2> QED  BY <2>2 DEF w
  <1>5. \A p \in 1 .. n : doc.weights[p] \in Nat  BY <1>3, WeightsAssumption
  <1>6. 1 \in 1 .. n /\ {1} \cup S \subseteq 1 .. n  OBVIOUS
  <1>7. IsText(doc, n)
    <2> HIDE DEF Form
    <2> QED  BY <1>3, <1>4, <1>5, <1>6 DEF IsText
  <1> QED  BY <1>4, <1>7 DEF SizeOf, IsText

\* What the parser makes of a table.
LEMMA TablesAre ==
  ASSUME NEW n \in Nat \ {0}, NEW doc \in Tables(n)
  PROVE  IsTable(doc, n) /\ SizeOf(doc) = n
  <1>1. doc.kind = "table" /\ doc.rows = n  BY DEF Tables
  <1> QED  BY <1>1 DEF IsTable, SizeOf

\* A document is a text or a table of a size within the bounds.
LEMMA DocumentsAre ==
  ASSUME NEW doc \in Documents
  PROVE  \E n \in Nat \ {0} :
           /\ SizeOf(doc) = n /\ n <= MaxWords + MaxText
           /\ IsText(doc, n) \/ IsTable(doc, n)
  <1>1. MaxWords \in Nat /\ MaxText \in Nat  BY BoundsAssumption
  <1>2. CASE doc \in FirstTexts
    <2>1. PICK n \in 1 .. MaxText : doc \in Texts(n)  BY <1>2 DEF FirstTexts
    <2>2. n \in Nat \ {0} /\ n <= MaxWords + MaxText  BY <1>1
    <2>3. IsText(doc, n) /\ SizeOf(doc) = n  BY <2>1, <2>2, TextsAre
    <2> QED  BY <2>2, <2>3
  <1>3. CASE doc \in AnyTable
    <2>1. PICK n \in 1 .. MaxWords : doc \in Tables(n)  BY <1>3 DEF AnyTable
    <2>2. n \in Nat \ {0} /\ n <= MaxWords + MaxText  BY <1>1
    <2>3. IsTable(doc, n) /\ SizeOf(doc) = n  BY <2>1, <2>2, TablesAre
    <2> QED  BY <2>2, <2>3
  <1> QED  BY <1>2, <1>3 DEF Documents

\* The rows of a document are chunks of its words, none of them empty, and have a weight.
LEMMA RowsAre ==
  ASSUME NEW doc \in Documents
  PROVE  /\ Len(Chunks(doc)) \in Nat /\ DOMAIN Chunks(doc) = 1 .. Len(Chunks(doc))
         /\ \A i \in DOMAIN Chunks(doc) :
              /\ Chunks(doc)[i].words \in Seq(1 .. SizeOf(doc)) \ {<<>>}
              /\ Weight(doc, Chunks(doc)[i]) \in Nat
  <1> DEFINE rows == Chunks(doc)
  <1>1. PICK n \in Nat \ {0} : SizeOf(doc) = n /\ (IsText(doc, n) \/ IsTable(doc, n))  BY DocumentsAre
  <1>2. IsText(doc, n) => TextRows(doc, rows, n)  BY TextChunks
  <1>3. IsTable(doc, n) => TableRows(rows, n)  BY TableChunks
  <1> HIDE DEF rows
  <1>4. rows \in Seq(Chunk(n)) /\ \A i \in DOMAIN rows : rows[i].words # <<>>
    BY <1>1, <1>2, <1>3 DEF TextRows, TableRows
  <1>5. Len(rows) \in Nat /\ DOMAIN rows = 1 .. Len(rows) /\ \A i \in 1 .. Len(rows) : rows[i] \in Chunk(n)
    BY <1>4, Elements
  <1>6. \A i \in DOMAIN rows : rows[i].words \in Seq(1 .. n)  BY <1>5 DEF Chunk
  <1>7. ASSUME NEW i \in DOMAIN rows  PROVE Weight(doc, rows[i]) \in Nat
    <2>1. rows[i].words \in Seq(1 .. n)  BY <1>6
    <2>2. CASE IsText(doc, n)
      <3>1. Tokens(doc, rows[i].words) \in Nat  BY <2>1, <2>2, TokensType
      <3>2. doc.kind # "table"  BY <2>2 DEF IsText
      <3> QED  BY <3>1, <3>2 DEF Weight
    <2>3. CASE IsTable(doc, n)
      <3>1. Len(rows[i].words) + 1 \in Nat  BY <2>1
      <3> QED  BY <2>3, <3>1 DEF Weight, IsTable
    <2> QED  BY <1>1, <2>2, <2>3
  <1> QED  BY <1>1, <1>4, <1>5, <1>6, <1>7 DEF rows

-----------------------------------------------------------------------------
(* The invariant. *)

\* What is known of a document.
Entry == [doc : Documents \cup {NoDoc}, rows : {Chunks(doc) : doc \in Documents} \cup {NoRows},
          live : BOOLEAN, gen : 0 .. MaxGen, step : Steps]

\* Rows are the chunks of the document they are stored for.
RowsAreItsChunks(e) ==
  /\ e.step = "none" => e.doc = NoDoc /\ e.rows = NoRows
  /\ e.step # "none" => e.doc \in Documents /\ e.rows = Chunks(e.doc)

\* The library, and the index that has been made of it.
Ground ==
  /\ library \in [Docs -> Entry] /\ \A d \in Docs : RowsAreItsChunks(library[d])
  /\ points \subseteq Point /\ IsFiniteSet(points)
  /\ collection \in BOOLEAN /\ mentions \subseteq Docs
  /\ stored \in 0 .. MaxWords + MaxText

\* Chunks a search may find.
Scored == {p \in Point : p.score > 0}

\* The answer, and what is promised of it.
Asked ==
  /\ answer \in Answer
  /\ Found(answer.hits, Scored)
  /\ GraphOnlyAdds /\ ContextFillsBudget

\* The inductive invariant.
Inv == Ground /\ Asked

-----------------------------------------------------------------------------
(* The steps of the pipeline. *)

\* An entry with its step set, to anything but none, is one as before.
LEMMA StepSet ==
  ASSUME NEW e \in Entry, RowsAreItsChunks(e), e.step # "none", NEW s \in Steps \ {"none"}
  PROVE  [e EXCEPT !.step = s] \in Entry /\ RowsAreItsChunks([e EXCEPT !.step = s])
  <1> DEFINE f == [e EXCEPT !.step = s]
  <1>1. f \in Entry /\ f.step = s /\ f.doc = e.doc /\ f.rows = e.rows  BY DEF Entry
  <1> HIDE DEF f
  <1>2. RowsAreItsChunks(f)  BY <1>1 DEF RowsAreItsChunks
  <1> QED  BY <1>1, <1>2 DEF f

\* Ground is kept when one entry changes.
LEMMA EntrySet ==
  ASSUME NEW d \in Docs, library \in [Docs -> Entry], \A c \in Docs : RowsAreItsChunks(library[c]),
         NEW e \in Entry, RowsAreItsChunks(e), library' = [library EXCEPT ![d] = e]
  PROVE  library' \in [Docs -> Entry] /\ \A c \in Docs : RowsAreItsChunks(library'[c])
  <1>1. library' \in [Docs -> Entry]  OBVIOUS
  <1>2. ASSUME NEW c \in Docs  PROVE RowsAreItsChunks(library'[c])
    <2>1. CASE c = d
      <3>1. library'[c] = e  BY <2>1
      <3> QED  BY <3>1
    <2>2. CASE c # d
      <3>1. library'[c] = library[c]  BY <2>2
      <3> QED  BY <3>1
    <2> QED  BY <2>1, <2>2
  <1> QED  BY <1>1, <1>2

\* Persist keeps Ground.
LEMMA PersistKeeps ==
  ASSUME Ground, NEW d \in Docs, Persist(d)
  PROVE  Ground'
  <1> DEFINE e == library[d]
  <1>1. e \in Entry /\ RowsAreItsChunks(e) /\ library \in [Docs -> Entry] /\ \A c \in Docs : RowsAreItsChunks(library[c])
    BY DEF Ground
  <1>2. MaxWords \in Nat /\ MaxText \in Nat /\ MaxGen \in Nat /\ stored \in Nat  BY BoundsAssumption DEF Ground
  <1>3. PICK doc \in Parsed(d) :
          /\ stored = 0 \/ stored + SizeOf(doc) <= MaxWords
          /\ stored' = stored + SizeOf(doc)
          /\ library' = [library EXCEPT ![d] = [doc |-> doc, rows |-> Chunks(doc), live |-> TRUE,
                                                gen |-> @.gen + 1, step |-> "persisted"]]
    BY DEF Persist
  <1>4. library[d].gen < MaxGen /\ UNCHANGED <<points, collection, mentions>>  BY DEF Persist
  <1>5. doc \in Documents
    <2>1. CASE library[d].step # "none"  BY <1>1, <1>3, <2>1 DEF Parsed, RowsAreItsChunks
    <2>2. CASE library[d].step = "none"  BY <1>3, <2>2 DEF Parsed, Documents
    <2> QED  BY <2>1, <2>2
  <1>6. SizeOf(doc) \in Nat /\ SizeOf(doc) <= MaxWords + MaxText  BY <1>5, DocumentsAre
  <1>7. stored' \in 0 .. MaxWords + MaxText  BY <1>2, <1>3, <1>6
  <1> DEFINE g == e.gen + 1
             f == [doc |-> doc, rows |-> Chunks(doc), live |-> TRUE, gen |-> g, step |-> "persisted"]
  <1>8. g \in 0 .. MaxGen
    <2>1. e.gen \in 0 .. MaxGen  BY <1>1 DEF Entry
    <2> QED  BY <1>2, <1>4, <2>1
  <1>9. library' = [library EXCEPT ![d] = f]  BY <1>1, <1>3
  <1> HIDE DEF g
  <1>10. f \in Entry /\ RowsAreItsChunks(f)
    <2>1. Chunks(doc) \in {Chunks(c) : c \in Documents}  BY <1>5
    <2>2. f \in Entry  BY <1>5, <1>8, <2>1 DEF Entry, Steps
    <2> QED  BY <1>5, <2>2 DEF RowsAreItsChunks
  <1> HIDE DEF f, e
  <1>11. library' \in [Docs -> Entry] /\ \A c \in Docs : RowsAreItsChunks(library'[c])
    BY <1>1, <1>9, <1>10, EntrySet
  <1> QED  BY <1>4, <1>7, <1>11 DEF Ground

\* Index keeps Ground.
LEMMA IndexKeeps ==
  ASSUME Ground, NEW d \in Docs, Index(d)
  PROVE  Ground'
  <1> DEFINE e == library[d]
             rows == e.rows
             D == DOMAIN rows
             New(score) == {[doc |-> d, gen |-> e.gen, index |-> i, score |-> score[i],
                             tokens |-> Weight(e.doc, rows[i])] : i \in D}
  <1>1. e \in Entry /\ RowsAreItsChunks(e) /\ library \in [Docs -> Entry] /\ \A c \in Docs : RowsAreItsChunks(library[c])
    BY DEF Ground
  <1>2. /\ e.step = "persisted" /\ collection' = TRUE /\ UNCHANGED <<mentions, stored>>
        /\ library' = [library EXCEPT ![d].step = "indexed"]
        /\ \E score \in [D -> 0 .. MaxScore] : points' = points \cup New(score)
    BY DEF Index
  <1>3. e.doc \in Documents /\ rows = Chunks(e.doc)  BY <1>1, <1>2 DEF RowsAreItsChunks
  <1>4. D = 1 .. Len(rows) /\ Len(rows) \in Nat /\ \A i \in D : Weight(e.doc, rows[i]) \in Nat
    BY <1>3, RowsAre
  <1>5. PICK score \in [D -> 0 .. MaxScore] : points' = points \cup New(score)
    <2> HIDE DEF New, D
    <2> QED  BY <1>2
  <1>6. New(score) \subseteq Point
    <2>1. e.gen \in Nat
      <3>1. MaxGen \in Nat  BY BoundsAssumption
      <3> QED  BY <1>1, <3>1 DEF Entry
    <2>2. \A i \in D : i \in Nat /\ score[i] \in 0 .. MaxScore /\ Weight(e.doc, rows[i]) \in Nat
      BY <1>4, <1>5
    <2> HIDE DEF e, rows, D
    <2> QED  BY <2>1, <2>2 DEF Point
  <1>7. IsFiniteSet(New(score))
    <2>1. IsFiniteSet(D)
      <3>1. Len(rows) \in Nat  BY <1>4
      <3> QED  BY <1>4, <3>1, FS_Interval
    <2> DEFINE f == [i \in D |-> [doc |-> d, gen |-> e.gen, index |-> i, score |-> score[i],
                                 tokens |-> Weight(e.doc, rows[i])]]
               T == New(score)
    <2>2. T = {f[i] : i \in D}  OBVIOUS
    <2>3. f \in [D -> T]  OBVIOUS
    <2> HIDE DEF f, D, T
    <2>4. f \in Surjection(D, T)  BY <2>2, <2>3 DEF Surjection
    <2>5. IsFiniteSet(T)  BY <2>1, <2>4, FS_Surjection
    <2> QED  BY <2>5 DEF T
  <1>8. points' \subseteq Point /\ IsFiniteSet(points')
    <2> HIDE DEF New
    <2>1. points \subseteq Point /\ IsFiniteSet(points)  BY DEF Ground
    <2> QED  BY <1>5, <1>6, <1>7, <2>1, FS_Union
  <1> DEFINE f == [e EXCEPT !.step = "indexed"]
  <1>9. f \in Entry /\ RowsAreItsChunks(f)
    <2> HIDE DEF e
    <2> QED  BY <1>1, <1>2, StepSet DEF Steps
  <1>10. library' = [library EXCEPT ![d] = f]  BY <1>1, <1>2
  <1> HIDE DEF f, e
  <1>11. library' \in [Docs -> Entry] /\ \A c \in Docs : RowsAreItsChunks(library'[c])
    BY <1>1, <1>9, <1>10, EntrySet
  <1> QED  BY <1>2, <1>8, <1>11 DEF Ground

\* MapEntities keeps Ground.
LEMMA MapEntitiesKeeps ==
  ASSUME Ground, NEW d \in Docs, MapEntities(d)
  PROVE  Ground'
  <1> DEFINE e == library[d]
             f == [e EXCEPT !.step = "mapped"]
  <1>1. e \in Entry /\ RowsAreItsChunks(e) /\ library \in [Docs -> Entry] /\ \A c \in Docs : RowsAreItsChunks(library[c])
    BY DEF Ground
  <1>2. /\ e.step = "indexed" /\ UNCHANGED <<points, collection, stored>>
        /\ library' = [library EXCEPT ![d].step = "mapped"]
    BY DEF MapEntities
  <1>3. mentions' \subseteq Docs  BY DEF MapEntities, Extracted, Ground
  <1>4. f \in Entry /\ RowsAreItsChunks(f)
    <2> HIDE DEF e
    <2> QED  BY <1>1, <1>2, StepSet DEF Steps
  <1>5. library' = [library EXCEPT ![d] = f]  BY <1>1, <1>2
  <1> HIDE DEF f, e
  <1>6. library' \in [Docs -> Entry] /\ \A c \in Docs : RowsAreItsChunks(library'[c])
    BY <1>1, <1>4, <1>5, EntrySet
  <1> QED  BY <1>2, <1>3, <1>6 DEF Ground

\* Delete keeps Ground.
LEMMA DeleteKeeps ==
  ASSUME Ground, NEW d \in Docs, Delete(d)
  PROVE  Ground'
  <1> DEFINE e == library[d]
             f == [e EXCEPT !.live = FALSE]
  <1>1. e \in Entry /\ RowsAreItsChunks(e) /\ library \in [Docs -> Entry] /\ \A c \in Docs : RowsAreItsChunks(library[c])
    BY DEF Ground
  <1>2. UNCHANGED <<points, collection, mentions, stored>> /\ library' = [library EXCEPT ![d].live = FALSE]
    BY DEF Delete
  <1>3. f \in Entry /\ RowsAreItsChunks(f)
    <2> HIDE DEF e
    <2>1. f \in Entry /\ f.step = e.step /\ f.doc = e.doc /\ f.rows = e.rows  BY <1>1 DEF Entry
    <2> HIDE DEF f
    <2> QED  BY <1>1, <2>1 DEF RowsAreItsChunks
  <1>4. library' = [library EXCEPT ![d] = f]  BY <1>1, <1>2
  <1> HIDE DEF f, e
  <1>5. library' \in [Docs -> Entry] /\ \A c \in Docs : RowsAreItsChunks(library'[c])
    BY <1>1, <1>3, <1>4, EntrySet
  <1> QED  BY <1>2, <1>5 DEF Ground

-----------------------------------------------------------------------------
(* The steps of a question. *)

\* What a question finds is scored.
LEMMA ScoredIs ==
  /\ Scored \subseteq Point
  /\ \A p \in Scored : p.score \in 1 .. MaxScore /\ p.tokens \in Nat
  <1>1. MaxScore \in Nat  BY BudgetsAssumption
  <1>2. \A p \in Point : p.score \in 0 .. MaxScore /\ p.tokens \in Nat  BY DEF Point
  <1>3. \A k \in 0 .. MaxScore : k > 0 => k \in 1 .. MaxScore  BY <1>1
  <1> QED  BY <1>2, <1>3 DEF Scored

\* Sequences of scored chunks are sequences of chunks.
LEMMA ScoredSeq ==
  ASSUME NEW s \in Seq(Scored)
  PROVE  s \in Seq(Point)
  <1>1. Len(s) \in Nat /\ DOMAIN s = 1 .. Len(s) /\ \A i \in 1 .. Len(s) : s[i] \in Scored  BY Elements
  <1>2. \A i \in 1 .. Len(s) : s[i] \in Point  BY <1>1, ScoredIs
  <1>3. s = [i \in 1 .. Len(s) |-> s[i]]  BY <1>1
  <1>4. s \in [1 .. Len(s) -> Point]  BY <1>2, <1>3
  <1> DEFINE n == Len(s)
  <1>5. n \in Nat /\ s \in [1 .. n -> Point]  BY <1>1, <1>4
  <1> HIDE DEF n
  <1> QED  BY <1>5

\* A search finds scored chunks.
LEMMA SearchFinds ==
  ASSUME points \subseteq Point, IsFiniteSet(points), NEW docs, NEW n \in Nat, NEW s \in Search(docs, n)
  PROVE  Found(s, Scored)
  <1> DEFINE found == {p \in points : p.score > 0 /\ p.doc \in docs}
             size  == IF n < Cardinality(found) THEN n ELSE Cardinality(found)
  <1>1. s \in [1 .. size -> found] /\ Descending(s) /\ ~Repeated(s)  BY DEF Search
  <1>2. found \subseteq points /\ found \subseteq Scored  BY DEF Scored
  <1> HIDE DEF found
  <1>3. IsFiniteSet(found)  BY <1>2, FS_Subset
  <1>4. Cardinality(found) \in Nat  BY <1>3, FS_CardinalityType
  <1>5. size \in Nat  BY <1>4
  <1> HIDE DEF size
  <1>6. s \in [1 .. size -> Scored]  BY <1>1, <1>2
  <1>7. s \in Seq(Scored)  BY <1>5, <1>6
  <1>8. Single(s)  BY <1>1 DEF Single, Repeated
  <1> QED  BY <1>1, <1>7, <1>8 DEF Found

\* Nothing is found, too.
LEMMA NothingFound == Found(<<>>, Scored)
  <1> DEFINE none == <<>>
  <1>1. none \in Seq(Scored) /\ DOMAIN none = {}  OBVIOUS
  <1> HIDE DEF none
  <1>2. Found(none, Scored)  BY <1>1 DEF Found, Single, Descending
  <1> QED  BY <1>2 DEF none

\* Before an answer nothing is asked of it.
LEMMA NotYet ==
  ASSUME NEW a \in Answer, a.place # "answered", Found(a.hits, Scored), answer' = a
  PROVE  Asked'
  BY DEF Asked, GraphOnlyAdds, ContextFillsBudget

\* Ask keeps Asked.
LEMMA AskKeeps ==
  ASSUME Ground, Asked, NEW k \in TopKs, Ask(k)
  PROVE  Asked'
  <1>1. PICK hits \in Search(Docs, k) : answer' = [answer EXCEPT !.place = "searched", !.k = k, !.hits = hits]
    BY DEF Ask
  <1>2. k \in Nat  BY TopKsAssumption
  <1>3. Found(hits, Scored)  BY <1>1, <1>2, SearchFinds DEF Ground
  <1>4. hits \in Seq(Point)  BY <1>3, ScoredSeq DEF Found
  <1> DEFINE a == [answer EXCEPT !.place = "searched", !.k = k, !.hits = hits]
  <1>5. a \in Answer /\ a.place = "searched" /\ a.hits = hits  BY <1>2, <1>4 DEF Asked, Answer
  <1>6. answer' = a  BY <1>1
  <1> HIDE DEF a
  <1> QED  BY <1>3, <1>5, <1>6, NotYet

\* AskTooEarly keeps Asked.
LEMMA AskTooEarlyKeeps ==
  ASSUME Asked, AskTooEarly
  PROVE  Asked'
  <1> DEFINE a == [answer EXCEPT !.place = "failed"]
  <1>1. a \in Answer /\ a.place = "failed" /\ a.hits = answer.hits  BY DEF Asked, Answer
  <1>2. answer' = a  BY DEF AskTooEarly
  <1>3. Found(answer.hits, Scored)  BY DEF Asked
  <1> HIDE DEF a
  <1> QED  BY <1>1, <1>2, <1>3, NotYet

\* No question has been asked.
LEMMA SilenceIs == Silence \in Answer /\ Silence.place = "idle" /\ Found(Silence.hits, Scored)
  <1>1. Silence \in Answer /\ Silence.place = "idle" /\ Silence.hits = <<>>  BY DEF Silence, Answer
  <1> QED  BY <1>1, NothingFound

\* Forget keeps Asked.
LEMMA ForgetKeeps ==
  ASSUME Forget
  PROVE  Asked'
  <1>1. answer' = Silence  BY DEF Forget
  <1> QED  BY <1>1, SilenceIs, NotYet

\* What Augment answers from.
Answers(a, budget, chunks, context) ==
  /\ a.place = "answered" /\ a.budget = budget /\ a.chunks = chunks
  /\ a.used = context.used /\ a.total = context.total /\ a.truncated = context.truncated
  /\ a.sent = context.sent

\* assemble_context makes its answer of what the loop has come to.
LEMMA AssembleIs ==
  ASSUME NEW s, NEW budget
  PROVE  LET context == Assemble(s, budget)
             loop    == Blocks(s, budget)
         IN /\ context.used = loop.used /\ context.total = loop.total
            /\ context.truncated = loop.truncated
            /\ context.sent = Total(loop.used) + Separators(loop.used)
  BY DEF Assemble

\* Augment keeps Asked: the answer has the hits, in order, and its context fills its budget.
LEMMA AugmentKeeps ==
  ASSUME Ground, Asked, NEW budget \in Budgets, Augment(budget)
  PROVE  Asked'
  <1> DEFINE Extras(docs) == IF docs = {} THEN {<<>>} ELSE Search(docs, Extra)
             Chosen(extras) == Sorted(Joined(answer.hits, extras))
             Made(extras) ==
               [answer EXCEPT !.place = "answered", !.budget = budget, !.chunks = Chosen(extras),
                 !.used = Assemble(Chosen(extras), budget).used, !.total = Assemble(Chosen(extras), budget).total,
                 !.truncated = Assemble(Chosen(extras), budget).truncated,
                 !.sent = Assemble(Chosen(extras), budget).sent]
  <1>1. \E docs \in Linked : \E extras \in Extras(docs) : answer' = Made(extras)
    BY DEF Augment
  <1> HIDE DEF Extras, Made
  <1>2. PICK docs \in Linked : \E extras \in Extras(docs) : answer' = Made(extras)  BY <1>1
  <1>3. PICK extras \in Extras(docs) : answer' = Made(extras)  BY <1>2
  <1>4. Found(extras, Scored)
    <2>1. CASE docs = {}
      <3>1. extras = <<>>  BY <1>3, <2>1 DEF Extras
      <3> QED  BY <3>1, NothingFound
    <2>2. CASE docs # {}
      <3>1. extras \in Search(docs, Extra) /\ Extra \in Nat  BY <1>3, <2>2, TopKsAssumption DEF Extras
      <3> QED  BY <3>1, SearchFinds DEF Ground
    <2> QED  BY <2>1, <2>2
  <1> DEFINE chunks == Chosen(extras)
             context == Assemble(chunks, budget)
             hits == answer.hits
  <1>5. Found(hits, Scored) /\ answer \in Answer  BY DEF Asked
  <1>6. Found(chunks, Scored) /\ Kept(chunks, ToSet(hits)) = hits
    <2> HIDE DEF hits
    <2>1. \A p \in Scored : p.score \in 1 .. MaxScore  BY ScoredIs
    <2> QED  BY <1>4, <1>5, <2>1, AnswerHasHits DEF hits
  <1>7. answer' = [answer EXCEPT !.place = "answered", !.budget = budget, !.chunks = chunks,
                    !.used = context.used, !.total = context.total, !.truncated = context.truncated,
                    !.sent = context.sent]
    BY <1>3 DEF Made
  <1>8. budget \in Nat  BY BudgetsAssumption
  <1>9. Fills(Blocks(chunks, budget), chunks, budget, Scored)
    <2> HIDE DEF chunks
    <2>1. chunks \in Seq(Scored) /\ \A p \in Scored : p.tokens \in Nat  BY <1>6, ScoredIs DEF Found
    <2> QED  BY <1>8, <2>1, BlocksFills
  <1> HIDE DEF chunks, context
  <1>10. /\ context.used \in Seq(Scored) /\ context.total \in Nat /\ context.truncated \in BOOLEAN
         /\ Total(context.used) = context.total /\ context.total <= budget
         /\ \A p \in ToSet(chunks) \ ToSet(context.used) : context.total + BlockTokens(p) > budget
         /\ context.truncated => Len(context.used) < Len(chunks)
         /\ ~context.truncated => context.used = chunks
         /\ context.sent = context.total + Separators(context.used)
    <2> DEFINE loop == Blocks(chunks, budget)
    <2>1. /\ context.used = loop.used /\ context.total = loop.total
          /\ context.truncated = loop.truncated
          /\ context.sent = Total(loop.used) + Separators(loop.used)
      BY AssembleIs DEF context
    <2>2. Fills(loop, chunks, budget, Scored)  BY <1>9
    <2> HIDE DEF loop
    <2> QED  BY <2>1, <2>2 DEF Fills, Context
  <1>11. chunks \in Seq(Point) /\ context.used \in Seq(Point)
    <2>1. chunks \in Seq(Scored)  BY <1>6 DEF Found
    <2> QED  BY <1>10, <2>1, ScoredSeq
  <1> DEFINE used == context.used
             total == context.total
             cut == context.truncated
             sent == context.sent
             a == [answer EXCEPT !.place = "answered", !.budget = budget, !.chunks = chunks,
                    !.used = used, !.total = total, !.truncated = cut, !.sent = sent]
  <1>12. /\ used \in Seq(Point) /\ total \in Nat /\ cut \in BOOLEAN
         /\ Separators(used) \in Nat /\ sent = total + Separators(used) /\ sent \in Nat
    <2>1. used \in Seq(Point) /\ total \in Nat /\ cut \in BOOLEAN  BY <1>10, <1>11
    <2>2. sent = total + Separators(used)  BY <1>10
    <2> HIDE DEF used, total, sent
    <2>3. Separators(used) \in Nat
      <3>1. CASE used = <<>>  BY <3>1 DEF Separators
      <3>2. CASE used # <<>>
        <4>1. Len(used) \in Nat \ {0}  BY <2>1, <3>2
        <4> QED  BY <3>2, <4>1 DEF Separators
      <3> QED  BY <3>1, <3>2
    <2> QED  BY <2>1, <2>2, <2>3
  <1>13. answer' = a  BY <1>7
  <1> HIDE DEF used, total, cut, sent
  <1>14. a \in Answer /\ a.hits = hits /\ a.place = "answered" /\ a.budget = budget /\ a.chunks = chunks
         /\ a.used = used /\ a.total = total /\ a.truncated = cut /\ a.sent = sent
    BY <1>5, <1>8, <1>11, <1>12 DEF Answer
  <1> HIDE DEF a, hits
  <1>15. GraphOnlyAdds'
    <2>1. Single(chunks) /\ Descending(chunks)  BY <1>6 DEF Found
    <2>2. ~Repeated(chunks)  BY <2>1 DEF Single, Repeated
    <2>3. answer'.chunks = chunks /\ answer'.hits = hits  BY <1>13, <1>14
    <2> QED  BY <1>6, <2>1, <2>2, <2>3 DEF GraphOnlyAdds
  <1>16. ContextFillsBudget'
    <2>1. cut <=> used # chunks
      <3>1. Len(used) \in Nat /\ cut \in BOOLEAN  BY <1>12
      <3>2. cut => Len(used) < Len(chunks)  BY <1>10 DEF used, cut
      <3>3. ~cut => used = chunks  BY <1>10 DEF used, cut
      <3>4. ~(Len(used) < Len(used))  BY <3>1
      <3>5. ASSUME cut  PROVE used # chunks
        <4>1. Len(used) < Len(chunks)  BY <3>2, <3>5
        <4> QED  BY <3>4, <4>1
      <3> QED  BY <3>1, <3>3, <3>5
    <2>2. total <= budget /\ \A p \in ToSet(chunks) \ ToSet(used) : total + BlockTokens(p) > budget
      BY <1>10 DEF used, total
    <2>3. answer'.chunks = chunks /\ answer'.used = used /\ answer'.total = total /\ answer'.budget = budget
          /\ answer'.truncated = cut /\ answer'.sent = sent
      BY <1>13, <1>14
    <2>4. sent <= budget + Separators(used)  BY <1>8, <1>12, <2>2
    <2> QED  BY <2>1, <2>2, <2>3, <2>4 DEF ContextFillsBudget
  <1>17. answer' \in Answer /\ Found(answer'.hits, Scored)
    BY <1>5, <1>13, <1>14 DEF hits
  <1> QED  BY <1>15, <1>16, <1>17 DEF Asked

-----------------------------------------------------------------------------
(* Together. *)

\* Init has it.
LEMMA InvInit == Init => Inv
  <1> SUFFICES ASSUME Init  PROVE Inv  OBVIOUS
  <1> DEFINE e == [doc |-> NoDoc, rows |-> NoRows, live |-> FALSE, gen |-> 0, step |-> "none"]
  <1>1. library = [d \in Docs |-> e] /\ points = {} /\ collection = FALSE /\ mentions = {}
        /\ stored = 0 /\ answer = Silence
    BY DEF Init
  <1>2. MaxGen \in Nat /\ MaxWords \in Nat /\ MaxText \in Nat  BY BoundsAssumption
  <1>3. e \in Entry /\ RowsAreItsChunks(e)  BY <1>2 DEF Entry, Steps, RowsAreItsChunks
  <1> HIDE DEF e
  <1>4. Ground
    <2>1. library \in [Docs -> Entry]  BY <1>1, <1>3
    <2>2. \A d \in Docs : library[d] = e  BY <1>1
    <2>3. \A d \in Docs : RowsAreItsChunks(library[d])  BY <1>3, <2>2
    <2>4. points \subseteq Point /\ IsFiniteSet(points)  BY <1>1, FS_EmptySet
    <2>5. collection \in BOOLEAN /\ mentions \subseteq Docs  BY <1>1
    <2>6. stored \in 0 .. MaxWords + MaxText
      <3>1. 0 \in 0 .. MaxWords + MaxText  BY <1>2
      <3>2. stored = 0  BY <1>1
      <3> QED  BY <3>1, <3>2
    <2> QED  BY <2>1, <2>3, <2>4, <2>5, <2>6 DEF Ground
  <1>5. Asked
    <2>1. answer \in Answer /\ answer.place = "idle" /\ Found(answer.hits, Scored)  BY <1>1, SilenceIs
    <2> QED  BY <2>1 DEF Asked, GraphOnlyAdds, ContextFillsBudget
  <1> QED  BY <1>4, <1>5 DEF Inv

\* Nothing of Asked changes with the answer as it is.
LEMMA AskedStays ==
  ASSUME Asked, answer' = answer
  PROVE  Asked'
  BY DEF Asked, GraphOnlyAdds, ContextFillsBudget

\* Nothing of Ground changes with the library as it is.
LEMMA GroundStays ==
  ASSUME Ground, UNCHANGED <<library, points, collection, mentions, stored>>
  PROVE  Ground'
  BY DEF Ground

\* Every step keeps it.
LEMMA InvStep == Inv /\ [Next]_vars => Inv'
  <1> SUFFICES ASSUME Inv, [Next]_vars  PROVE Inv'  OBVIOUS
  <1>1. Ground /\ Asked  BY DEF Inv
  <1>2. CASE UNCHANGED vars
    BY <1>1, <1>2, AskedStays, GroundStays DEF vars, Inv
  <1>3. ASSUME NEW d \in Docs, Persist(d)  PROVE Inv'
    <2>1. answer' = answer  BY <1>3 DEF Persist
    <2> QED  BY <1>1, <1>3, <2>1, PersistKeeps, AskedStays DEF Inv
  <1>4. ASSUME NEW d \in Docs, Index(d)  PROVE Inv'
    <2>1. answer' = answer  BY <1>4 DEF Index
    <2> QED  BY <1>1, <1>4, <2>1, IndexKeeps, AskedStays DEF Inv
  <1>5. ASSUME NEW d \in Docs, MapEntities(d)  PROVE Inv'
    <2>1. answer' = answer  BY <1>5 DEF MapEntities
    <2> QED  BY <1>1, <1>5, <2>1, MapEntitiesKeeps, AskedStays DEF Inv
  <1>6. ASSUME NEW d \in Docs, Delete(d)  PROVE Inv'
    <2>1. answer' = answer  BY <1>6 DEF Delete
    <2> QED  BY <1>1, <1>6, <2>1, DeleteKeeps, AskedStays DEF Inv
  <1>7. ASSUME NEW k \in TopKs, Ask(k)  PROVE Inv'
    <2>1. UNCHANGED <<library, points, collection, mentions, stored>>  BY <1>7 DEF Ask
    <2> QED  BY <1>1, <1>7, <2>1, AskKeeps, GroundStays DEF Inv
  <1>8. ASSUME NEW budget \in Budgets, Augment(budget)  PROVE Inv'
    <2>1. UNCHANGED <<library, points, collection, mentions, stored>>  BY <1>8 DEF Augment
    <2> QED  BY <1>1, <1>8, <2>1, AugmentKeeps, GroundStays DEF Inv
  <1>9. CASE AskTooEarly
    <2>1. UNCHANGED <<library, points, collection, mentions, stored>>  BY <1>9 DEF AskTooEarly
    <2> QED  BY <1>1, <1>9, <2>1, AskTooEarlyKeeps, GroundStays DEF Inv
  <1>10. CASE Forget
    <2>1. UNCHANGED <<library, points, collection, mentions, stored>>  BY <1>10 DEF Forget
    <2> QED  BY <1>1, <1>10, <2>1, ForgetKeeps, GroundStays DEF Inv
  <1> QED  BY <1>2, <1>3, <1>4, <1>5, <1>6, <1>7, <1>8, <1>9, <1>10 DEF Next

\* So it always holds.
LEMMA Invariant == Spec => []Inv
  BY InvInit, InvStep, PTL DEF Spec

-----------------------------------------------------------------------------
(* The theorems. *)

\* Every variable has its type.
THEOREM TypeCorrect == Spec => []TypeOK
  <1>1. Inv => TypeOK
    <2> SUFFICES ASSUME Inv  PROVE TypeOK  OBVIOUS
    <2>1. Ground /\ answer \in Answer  BY DEF Inv, Asked
    <2>2. ASSUME NEW d \in Docs
          PROVE  /\ library[d].doc.kind \in {"none", "text", "table"}
                 /\ library[d].step \in Steps /\ library[d].gen \in 0 .. MaxGen
                 /\ \A i \in DOMAIN library[d].rows :
                      library[d].rows[i].words \in Seq(1 .. SizeOf(library[d].doc)) \ {<<>>}
      <3> DEFINE e == library[d]
      <3>1. e \in Entry /\ RowsAreItsChunks(e)  BY <2>1 DEF Ground
      <3> HIDE DEF e
      <3>2. e.step \in Steps /\ e.gen \in 0 .. MaxGen  BY <3>1 DEF Entry
      <3>3. e.doc.kind \in {"none", "text", "table"} /\ \A i \in DOMAIN e.rows :
                      e.rows[i].words \in Seq(1 .. SizeOf(e.doc)) \ {<<>>}
        <4>1. CASE e.step = "none"
          <5> DEFINE none == NoRows
          <5>1. e.doc.kind = "none" /\ e.rows = none  BY <3>1, <4>1 DEF RowsAreItsChunks, NoDoc
          <5>2. DOMAIN none = {}  BY DEF NoRows
          <5> HIDE DEF none
          <5> QED  BY <5>1, <5>2
        <4>2. CASE e.step # "none"
          <5>1. e.doc \in Documents /\ e.rows = Chunks(e.doc)  BY <3>1, <4>2 DEF RowsAreItsChunks
          <5>2. e.doc.kind \in {"text", "table"}  BY <5>1, DocumentsAre DEF IsText, IsTable
          <5> QED  BY <5>1, <5>2, RowsAre
        <4> QED  BY <4>1, <4>2
      <3> QED  BY <3>2, <3>3 DEF e
    <2> QED  BY <2>1, <2>2 DEF TypeOK, Ground
  <1> QED  BY <1>1, Invariant, PTL

\* A text that is stored is a text of some words, and its rows are its chunks.
LEMMA StoredTexts ==
  ASSUME Inv, NEW d \in Texted
  PROVE  \E n \in Nat \ {0} : IsText(library[d].doc, n) /\ TextRows(library[d].doc, library[d].rows, n)
  <1> DEFINE e == library[d]
  <1>1. e \in Entry /\ RowsAreItsChunks(e) /\ e.doc.kind = "text"  BY DEF Inv, Ground, Texted
  <1> HIDE DEF e
  <1>2. e.step # "none"  BY <1>1 DEF RowsAreItsChunks, NoDoc
  <1>3. e.doc \in Documents /\ e.rows = Chunks(e.doc)  BY <1>1, <1>2 DEF RowsAreItsChunks
  <1>4. PICK n \in Nat \ {0} : IsText(e.doc, n) \/ IsTable(e.doc, n)  BY <1>3, DocumentsAre
  <1>5. IsText(e.doc, n)  BY <1>1, <1>4 DEF IsTable
  <1>6. TextRows(e.doc, e.rows, n)  BY <1>3, <1>5, TextChunks
  <1> QED  BY <1>5, <1>6 DEF e

\* A table that is stored has some rows, and they are in its chunks.
LEMMA StoredTables ==
  ASSUME Inv, NEW d \in Tabled
  PROVE  \E n \in Nat \ {0} : IsTable(library[d].doc, n) /\ TableRows(library[d].rows, n)
  <1> DEFINE e == library[d]
  <1>1. e \in Entry /\ RowsAreItsChunks(e) /\ e.doc.kind = "table"  BY DEF Inv, Ground, Tabled
  <1> HIDE DEF e
  <1>2. e.step # "none"  BY <1>1 DEF RowsAreItsChunks, NoDoc
  <1>3. e.doc \in Documents /\ e.rows = Chunks(e.doc)  BY <1>1, <1>2 DEF RowsAreItsChunks
  <1>4. PICK n \in Nat \ {0} : IsText(e.doc, n) \/ IsTable(e.doc, n)  BY <1>3, DocumentsAre
  <1>5. IsTable(e.doc, n)  BY <1>1, <1>4 DEF IsText
  <1>6. TableRows(e.rows, n)  BY <1>3, <1>5, TableChunks
  <1> QED  BY <1>5, <1>6 DEF e

\* Chunking loses no word of a text whose words are light enough, keeps the order of the
\* text, and puts each row of a table in one chunk: services/chunking.py.
THEOREM ChunksLoseNothing == Spec => []NothingLost
  <1>1. Inv => NothingLost
    <2> SUFFICES ASSUME Inv  PROVE NothingLost  OBVIOUS
    <2>1. ASSUME NEW d \in Texted, Even(library[d].doc)
          PROVE  LET rows == library[d].rows IN
                 /\ UNION {ToSet(rows[i].words) : i \in DOMAIN rows} = 1 .. Len(library[d].doc.weights)
                 /\ \A i, j \in DOMAIN rows : i < j => rows[i].words[1] < rows[j].words[1]
      <3> DEFINE doc == library[d].doc
                 rows == library[d].rows
                 Covered == UNION {ToSet(rows[i].words) : i \in DOMAIN rows}
      <3>1. PICK n \in Nat \ {0} : IsText(doc, n) /\ TextRows(doc, rows, n)  BY StoredTexts
      <3>2. Even(doc) /\ Len(doc.weights) = n  BY <2>1, <3>1 DEF IsText
      <3> HIDE DEF doc, rows
      <3>3. /\ \A i \in DOMAIN rows : rows[i] \in Chunk(n)
            /\ \A i, j \in DOMAIN rows : i < j => rows[i].words[1] < rows[j].words[1]
            /\ \A p \in 1 .. n : \E i \in DOMAIN rows : p \in ToSet(rows[i].words)
        <4>1. rows \in Seq(Chunk(n))  BY <3>1 DEF TextRows
        <4>2. \A i \in DOMAIN rows : rows[i] \in Chunk(n)  BY <4>1, Elements
        <4> QED  BY <3>1, <3>2, <4>2 DEF TextRows
      <3>4. ASSUME NEW i \in DOMAIN rows  PROVE ToSet(rows[i].words) \subseteq 1 .. n
        <4>1. rows[i].words \in Seq(1 .. n)  BY <3>3 DEF Chunk
        <4> DEFINE w == rows[i].words
        <4>2. w \in Seq(1 .. n)  BY <4>1
        <4> HIDE DEF w
        <4>3. ToSet(w) \subseteq 1 .. n  BY <4>2, Elements DEF ToSet
        <4> QED  BY <4>3 DEF w
      <3>5. Covered = 1 .. n  BY <3>3, <3>4
      <3> QED  BY <3>2, <3>3, <3>5 DEF doc, rows
    <2>2. ASSUME NEW d \in Tabled
          PROVE  FlattenSeq([i \in DOMAIN library[d].rows |-> library[d].rows[i].words])
                   = Span(1, library[d].doc.rows)
      <3>1. PICK n \in Nat \ {0} : IsTable(library[d].doc, n) /\ TableRows(library[d].rows, n)  BY StoredTables
      <3> QED  BY <3>1 DEF IsTable, TableRows
    <2> QED  BY <2>1, <2>2 DEF NothingLost
  <1> QED  BY <1>1, Invariant, PTL

\* A chunk is over MAX_TOKENS only by a single heavy word and by less than MIN_TOKENS that
\* _merge_small adds.
THEOREM CapIsNearlyKept == Spec => []CapNearlyKept
  <1>1. Inv => CapNearlyKept
    <2> SUFFICES ASSUME Inv, NEW d \in Texted, NEW i \in DOMAIN library[d].rows
                 PROVE  NearlyCapped(library[d].doc, library[d].rows[i].words)
      BY DEF CapNearlyKept, NearlyCapped
    <2>1. PICK n \in Nat \ {0} : IsText(library[d].doc, n) /\ TextRows(library[d].doc, library[d].rows, n)
      BY StoredTexts
    <2> QED  BY <2>1 DEF TextRows
  <1> QED  BY <1>1, Invariant, PTL

\* retrieve_chunks: what the graph adds never costs the answer a hit or its order.
THEOREM GraphAddsOnly == Spec => []GraphOnlyAdds
  <1>1. Inv => GraphOnlyAdds  BY DEF Inv, Asked
  <1> QED  BY <1>1, Invariant, PTL

\* assemble_context: what is sent is over the budget by no more than the blank lines between
\* its blocks, and only blocks that do not fit are left out.
THEOREM ContextsFillBudgets == Spec => []ContextFillsBudget
  <1>1. Inv => ContextFillsBudget  BY DEF Inv, Asked
  <1> QED  BY <1>1, Invariant, PTL

=============================================================================
