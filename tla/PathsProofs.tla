----------------------------- MODULE PathsProofs -----------------------------
(***************************************************************************)
(* What the path code computes for names of any length: lemmas about module *)
(* Paths and about the operators on sequences it is built from, used by the *)
(* proofs about the virtual filesystem and about the intake.                *)
(***************************************************************************)
EXTENDS Paths, SequenceTheorems, WellFoundedInduction, TLAPS

-----------------------------------------------------------------------------
(* Induction.  Sets stand for the predicates.                              *)

\* Every set of natural numbers has a least element.
LEMMA LeastElement ==
    ASSUME NEW T, T \subseteq Nat, T # {}
    PROVE  \E m \in T : \A k \in T : m <= k
<1> DEFINE R == OpToRel(<, Nat)
<1>1. IsWellFoundedOn(R, Nat)
    BY NatLessThanWellFounded
<1> HIDE DEF R
<1>2. PICK m \in T : \A y \in T : ~ (<<y, m>> \in R)
    BY <1>1, WFMin
<1>3. \A y \in Nat : y < m => <<y, m>> \in R
    BY DEF R, OpToRel
<1>4. \A k \in T : m <= k
  <2> TAKE k \in T
  <2>1. k \in Nat /\ m \in Nat /\ ~ (k < m)
      BY <1>2, <1>3
  <2> QED
      BY <2>1
<1> QED
    BY <1>4

\* What holds of 0 and of every successor up to N holds up to N.
LEMMA UpTo ==
    ASSUME NEW N \in Nat, NEW P, 0 \in P, \A k \in 1 .. N : k - 1 \in P => k \in P
    PROVE  \A k \in 0 .. N : k \in P
<1> DEFINE Bad == (0 .. N) \ P
<1>1. ASSUME Bad # {} PROVE FALSE
  <2>0. Bad \subseteq Nat
      OBVIOUS
  <2>1. PICK m \in Bad : \A k \in Bad : m <= k
      BY <1>1, <2>0, LeastElement
  <2>2. m \in 1 .. N /\ m - 1 \in 0 .. N /\ m - 1 < m
      BY <2>1
  <2>3. m - 1 \in P
      BY <2>1, <2>2
  <2> QED
      BY <2>1, <2>2, <2>3
<1> QED
    BY <1>1

\* A function on 1 .. n is a sequence of that length.
LEMMA SeqOfFunction ==
    ASSUME NEW S, NEW n \in Nat, NEW f \in [1 .. n -> S]
    PROVE  f \in Seq(S) /\ Len(f) = n
<1>1. f \in Seq(S)
    BY SeqDef
<1>2. DOMAIN f = 1 .. Len(f) /\ Len(f) \in Nat
    BY <1>1, LenProperties
<1> QED
    BY <1>1, <1>2

\* An element more at the end, and one less.
LEMMA AppendFrontLast ==
    ASSUME NEW S, NEW seq \in Seq(S), NEW x \in S
    PROVE  Front(Append(seq, x)) = seq /\ Last(Append(seq, x)) = x
<1>1. PICK n \in Nat : n = Len(seq)
    OBVIOUS
<1>2. PICK longer \in Seq(S) : longer = Append(seq, x)
    BY AppendProperties
<1>3. Len(longer) = n + 1 /\ longer[n + 1] = x /\ \A i \in 1 .. n : longer[i] = seq[i]
    BY <1>1, <1>2, AppendProperties
<1>4. \A i \in 1 .. n : longer[i] \in S
    BY <1>1, <1>3
<1>5. /\ SubSeq(longer, 1, n) \in Seq(S)
      /\ Len(SubSeq(longer, 1, n)) = IF 1 <= n THEN n - 1 + 1 ELSE 0
      /\ \A i \in 1 .. n - 1 + 1 : SubSeq(longer, 1, n)[i] = longer[1 + i - 1]
    BY <1>4, SubSeqProperties
<1>6. Len(SubSeq(longer, 1, n)) = n /\ \A i \in 1 .. n : SubSeq(longer, 1, n)[i] = seq[i]
    BY <1>3, <1>5
<1>7. SubSeq(longer, 1, n) = seq
    BY <1>1, <1>5, <1>6, SeqEqual
<1> QED
    BY <1>2, <1>3, <1>7 DEF Front, Last

\* A prefix grows by its next element.
LEMMA PrefixGrows ==
    ASSUME NEW S, NEW seq \in Seq(S), NEW k \in 1 .. Len(seq)
    PROVE  /\ SubSeq(seq, 1, k - 1) \in Seq(S) /\ seq[k] \in S
           /\ Append(SubSeq(seq, 1, k - 1), seq[k]) = SubSeq(seq, 1, k)
<1>1. k \in Int /\ k - 1 \in Int /\ seq[k] \in S /\ \A i \in 1 .. k - 1 : seq[i] \in S
    OBVIOUS
<1>2. SubSeq(seq, 1, k - 1) \in Seq(S)
    BY <1>1, SubSeqProperties
<1>3. SubSeq(seq, 1, k) = SubSeq(seq, 1, k - 1) \o <<seq[k]>>
  <2>1. 1 \in 1 .. Len(seq)
      OBVIOUS
  <2> QED
      BY <2>1, SubSeqRecursiveSecond
<1> QED
    BY <1>1, <1>2, <1>3, AppendIsConcat

-----------------------------------------------------------------------------
(* FoldLeft.                                                               *)

\* The last index of a prefix.
LEMMA MaxOfPrefix ==
    ASSUME NEW n \in Nat, NEW s \in SUBSET (1 .. n), n \in s
    PROVE  Max(s) = n
<1>1. n \in s /\ \A y \in s : n >= y
    OBVIOUS
<1>2. \A x \in s : (\A y \in s : x >= y) => x = n
    OBVIOUS
<1>3. Max(s) \in s /\ \A y \in s : Max(s) >= y
    BY <1>1, Zenon DEF Max
<1> QED
    BY <1>2, <1>3

\* A set of indices has a largest one.
LEMMA LargestIndex ==
    ASSUME NEW n \in Nat, NEW s \in SUBSET (1 .. n), s # {}
    PROVE  Max(s) \in s
<1> DEFINE T == {n - i : i \in s}
<1>1. T \subseteq Nat /\ T # {}
  <2>1. \A i \in s : n - i \in Nat
      OBVIOUS
  <2>2. PICK i \in s : TRUE
      OBVIOUS
  <2> QED
      BY <2>1, <2>2
<1> HIDE DEF T
<1>2. PICK m \in T : \A k \in T : m <= k
    BY <1>1, LeastElement
<1>3. \E x \in s : \A y \in s : x >= y
    BY <1>2 DEF T
<1> QED
    BY <1>3, Zenon DEF Max

\* The indices of a prefix.
LEMMA PrefixIndices ==
    ASSUME NEW N \in Nat, NEW k \in 1 .. N
    PROVE  /\ 1 .. k \in SUBSET (1 .. N) /\ 1 .. k # {}
           /\ (1 .. k) \ {k} = 1 .. (k - 1) /\ Max(1 .. k) = k
<1>1. k \in 1 .. k /\ \A i \in 1 .. k : i \in 1 .. N
    OBVIOUS
<1>2. 1 .. k \in SUBSET (1 .. N) /\ 1 .. k # {}
    BY <1>1
<1>3. (1 .. k) \ {k} = 1 .. (k - 1)
    OBVIOUS
<1>4. Max(1 .. k) = k
    BY <1>1, MaxOfPrefix
<1> QED
    BY <1>2, <1>3, <1>4

\* g is the function that FoldLeft chooses, on 1 .. N
Folds(g, A, base, F, N, seq) ==
    /\ g \in [SUBSET (1 .. N) -> A]
    /\ \A s \in SUBSET (1 .. N) :
          g[s] = IF s = {} THEN base ELSE F[<<g[s \ {Max(s)}], seq[Max(s)]>>]

\* That function exists, for every step F.
LEMMA FoldExists ==
    ASSUME NEW A, NEW V, NEW base \in A, NEW F \in [A \X V -> A], NEW N \in Nat,
           NEW seq \in [1 .. N -> V]
    PROVE  \E g : Folds(g, A, base, F, N, seq)
<1> DEFINE Good(n, g) == Folds(g, A, base, F, n, seq)
           P == {n \in 0 .. N : \E g : Good(n, g)}
<1>1. 0 \in P
  <2> DEFINE g == [s \in SUBSET (1 .. 0) |-> base]
  <2>1. \A s \in SUBSET (1 .. 0) : s = {}
      OBVIOUS
  <2>2. g \in [SUBSET (1 .. 0) -> A] /\ \A s \in SUBSET (1 .. 0) : g[s] = base
      OBVIOUS
  <2>3. Good(0, g)
      BY <2>1, <2>2 DEF Folds
  <2> HIDE DEF Good, g
  <2> QED
      BY <2>3
<1>2. ASSUME NEW k \in 1 .. N, k - 1 \in P PROVE k \in P
  <2>1. PICK g : Good(k - 1, g)
      BY <1>2
  <2> DEFINE h == [s \in SUBSET (1 .. k) |->
                     IF k \in s THEN F[<<g[s \ {k}], seq[k]>>] ELSE g[s]]
  <2>2. \A s \in SUBSET (1 .. k) : s \ {k} \in SUBSET (1 .. k - 1)
      OBVIOUS
  <2>3. \A s \in SUBSET (1 .. k) : g[s \ {k}] \in A
      BY <2>1, <2>2 DEF Folds
  <2>4. \A s \in SUBSET (1 .. k) : k \notin s => s \ {k} = s
      OBVIOUS
  <2>5. h \in [SUBSET (1 .. k) -> A]
    <3>1. \A s \in SUBSET (1 .. k) :
             (IF k \in s THEN F[<<g[s \ {k}], seq[k]>>] ELSE g[s]) \in A
      <4> TAKE s \in SUBSET (1 .. k)
      <4>1. CASE k \in s
          BY <2>3, <4>1
      <4>2. CASE k \notin s
          BY <2>3, <2>4, <4>2
      <4> QED
          BY <4>1, <4>2
    <3> QED
        BY <3>1
  <2>6. ASSUME NEW s \in SUBSET (1 .. k), s # {}
        PROVE  h[s] = F[<<h[s \ {Max(s)}], seq[Max(s)]>>]
    <3>1. CASE k \in s
      <4>1. Max(s) = k
          BY <3>1, MaxOfPrefix
      <4>2. h[s \ {k}] = g[s \ {k}]
        <5>1. s \ {k} \in SUBSET (1 .. k) /\ k \notin s \ {k}
            OBVIOUS
        <5> QED
            BY <5>1
      <4> QED
          BY <3>1, <4>1, <4>2
    <3>2. CASE k \notin s
      <4>1. s \in SUBSET (1 .. k - 1)
          BY <2>2, <2>4, <3>2
      <4>2. g[s] = F[<<g[s \ {Max(s)}], seq[Max(s)]>>]
          BY <2>1, <2>6, <4>1 DEF Folds
      <4>3. s \ {Max(s)} \in SUBSET (1 .. k) /\ k \notin s \ {Max(s)}
          BY <3>2
      <4>4. h[s] = g[s] /\ h[s \ {Max(s)}] = g[s \ {Max(s)}]
          BY <3>2, <4>3
      <4> QED
          BY <4>2, <4>4
    <3> QED
        BY <3>1, <3>2
  <2>7. h[{}] = base
      BY <2>1 DEF Folds
  <2>8. Good(k, h)
      BY <2>5, <2>6, <2>7 DEF Folds
  <2> HIDE DEF Good, h
  <2> QED
      BY <2>8
<1>3. \A k \in 1 .. N : k - 1 \in P => k \in P
    BY <1>2
<1>4. N \in P
  <2> HIDE DEF P
  <2>1. \A k \in 0 .. N : k \in P
      BY <1>1, <1>3, UpTo
  <2> QED
      BY <2>1
<1> QED
    BY <1>4

-----------------------------------------------------------------------------
(* FlattenSeq.                                                             *)

\* g is the function that FlattenSeq chooses, up to n
Flattens(g, n, ss) ==
    g = [i \in 1 .. n |-> IF i = 1 THEN ss[i] ELSE g[i - 1] \o ss[i]]

\* What holds of the empty sequence and of sequences put together holds of FlattenSeq.
LEMMA FlattenIn ==
    ASSUME NEW A, << >> \in A, \A p, q \in A : p \o q \in A,
           NEW N \in Nat, NEW ss \in [1 .. N -> A]
    PROVE  FlattenSeq(ss) \in A
<1>0. Len(ss) = N /\ ss \in Seq(A)
    BY SeqOfFunction
<1>1. CASE N = 0
  <2>1. ss = << >>
      BY <1>0, <1>1, EmptySeq
  <2>0. Len(ss) = 0
      BY <1>0, <1>1
  <2>2. FlattenSeq(ss) = ss
      BY <2>0, Zenon DEF FlattenSeq
  <2> QED
      BY <2>1, <2>2, Zenon
<1>2. CASE N # 0
  <2> DEFINE Up(n, g) == g \in [1 .. n -> A] /\ Flattens(g, n, ss)
             P == {n \in 0 .. N : \E g : Up(n, g)}
  <2>1. 0 \in P
    <3>1. PICK g : g = [i \in 1 .. 0 |-> ss[i]]
        OBVIOUS
    <3>2. \A i \in 1 .. 0 : FALSE
        OBVIOUS
    <3>3. Up(0, g)
        BY <3>1, <3>2 DEF Flattens
    <3> HIDE DEF Up
    <3> QED
        BY <3>3
  <2>2. ASSUME NEW k \in 1 .. N, k - 1 \in P PROVE k \in P
    <3>1. PICK g : Up(k - 1, g)
        BY <2>2
    <3> DEFINE next == IF k = 1 THEN ss[k] ELSE g[k - 1] \o ss[k]
    <3>2. next \in A
      <4>1. CASE k = 1
          BY <4>1
      <4>2. CASE k # 1
        <5>1. k - 1 \in 1 .. k - 1 /\ ss[k] \in A
            BY <4>2
        <5>2. g[k - 1] \in A
            BY <3>1, <5>1
        <5> QED
            BY <4>2, <5>1, <5>2
      <4> QED
          BY <4>1, <4>2
    <3>3. PICK h : h = [i \in 1 .. k |-> IF i = k THEN next ELSE g[i]]
        OBVIOUS
    <3>4. \A i \in 1 .. k : i # k => i \in 1 .. k - 1
        OBVIOUS
    <3>5. \A i \in 1 .. k - 1 : g[i] \in A
        BY <3>1
    <3> HIDE DEF next
    <3>6. h \in [1 .. k -> A]
        BY <3>2, <3>3, <3>4, <3>5
    <3>7. \A i \in 1 .. k - 1 : h[i] = g[i]
      <4>1. \A i \in 1 .. k - 1 : i \in 1 .. k /\ i # k
          OBVIOUS
      <4> QED
          BY <3>3, <4>1
    <3>8. ASSUME NEW i \in 1 .. k
          PROVE  h[i] = IF i = 1 THEN ss[i] ELSE h[i - 1] \o ss[i]
      <4>1. i # 1 => i - 1 \in 1 .. k - 1
          OBVIOUS
      <4>2. CASE i = k
        <5>1. h[i] = next
            BY <3>3, <4>2
        <5> QED
            BY <3>7, <4>1, <4>2, <5>1 DEF next
      <4>3. CASE i # k
        <5>1. i \in 1 .. k - 1
            BY <4>3
        <5>2. g[i] = IF i = 1 THEN ss[i] ELSE g[i - 1] \o ss[i]
            BY <3>1, <5>1 DEF Flattens
        <5> QED
            BY <3>7, <4>1, <5>1, <5>2
      <4> QED
          BY <4>2, <4>3
    <3>9. h = [i \in 1 .. k |-> h[i]]
        BY <3>3
    <3>10. Flattens(h, k, ss)
        BY <3>8, <3>9, Zenon DEF Flattens
    <3>11. Up(k, h)
        BY <3>6, <3>10
    <3> HIDE DEF Up
    <3> QED
        BY <3>11
  <2>3. N \in P
    <3> HIDE DEF P
    <3>1. \A k \in 0 .. N : k \in P
        BY <2>1, <2>2, UpTo
    <3> QED
        BY <3>1
  <2>4. PICK g : Up(N, g)
      BY <2>3
  <2> DEFINE f == CHOOSE h : Flattens(h, N, ss)
  <2>5. Flattens(f, N, ss)
      BY <2>4, Zenon
  <2>6. FlattenSeq(ss) = f[N]
      BY <1>0, <1>2, Zenon DEF FlattenSeq, Flattens
  <2> HIDE DEF f
  <2> DEFINE Q == {k \in 0 .. N : k = 0 \/ f[k] \in A}
  <2>7. 0 \in Q
      OBVIOUS
  <2>8. ASSUME NEW k \in 1 .. N, k - 1 \in Q PROVE k \in Q
    <3>1. f[k] = IF k = 1 THEN ss[k] ELSE f[k - 1] \o ss[k]
        BY <2>5 DEF Flattens
    <3>2. k # 1 => f[k - 1] \in A
        BY <2>8
    <3>3. f[k] \in A
        BY <3>1, <3>2
    <3> QED
        BY <3>3
  <2>9. N \in Q
    <3> HIDE DEF Q
    <3>1. \A k \in 0 .. N : k \in Q
        BY <2>7, <2>8, UpTo
    <3> QED
        BY <3>1
  <2> QED
      BY <1>2, <2>6, <2>9
<1> QED
    BY <1>1, <1>2

\* Sequences put together are a sequence.
LEMMA FlattenType ==
    ASSUME NEW T, NEW N \in Nat, NEW ss \in [1 .. N -> Seq(T)]
    PROVE  FlattenSeq(ss) \in Seq(T)
<1>1. << >> \in Seq(T) /\ \A p, q \in Seq(T) : p \o q \in Seq(T)
    BY ConcatProperties
<1> QED
    BY <1>1, FlattenIn

\* Components, each a sequence of one, are put together again.
LEMMA FlattenSingles ==
    ASSUME NEW S, NEW q \in Seq(S), NEW N \in Nat, N = Len(q), N >= 1,
           NEW ss, ss = [i \in 1 .. N |-> <<q[i]>>]
    PROVE  FlattenSeq(ss) = q
<1>0. Len(ss) = N
  <2>1. ss \in [1 .. N -> Seq(S)]
      OBVIOUS
  <2> QED
      BY <2>1, SeqOfFunction
<1>1. ASSUME NEW k \in 1 .. N, k # 1
      PROVE  SubSeq(q, 1, k) = SubSeq(q, 1, k - 1) \o ss[k]
  <2>1. 1 \in 1 .. Len(q) /\ k \in 1 .. Len(q) /\ ss[k] = <<q[k]>>
      OBVIOUS
  <2> QED
      BY <2>1, SubSeqRecursiveSecond
<1>2. SubSeq(q, 1, 1) = ss[1]
  <2>1. 1 \in 1 .. Len(q) /\ ss[1] = <<q[1]>> /\ q[1] \in S
      OBVIOUS
  <2>2. SubSeq(q, 1, 1) = SubSeq(q, 1, 1 - 1) \o <<q[1]>>
      BY <2>1, SubSeqRecursiveSecond
  <2>3. SubSeq(q, 1, 1 - 1) = << >>
      BY SubSeqEmpty
  <2>4. <<q[1]>> \in Seq(S)
      BY <2>1
  <2> QED
      BY <2>1, <2>2, <2>3, <2>4, ConcatEmptySeq
<1> DEFINE f == CHOOSE g : Flattens(g, N, ss)
<1>3. FlattenSeq(ss) = f[N]
  <2>1. N # 0
      OBVIOUS
  <2> QED
      BY <1>0, <2>1, Zenon DEF FlattenSeq, Flattens
<1>4. Flattens(f, N, ss)
  <2>0. PICK g : g = [i \in 1 .. N |-> SubSeq(q, 1, i)]
      OBVIOUS
  <2>1. ASSUME NEW i \in 1 .. N
        PROVE  g[i] = IF i = 1 THEN ss[i] ELSE g[i - 1] \o ss[i]
    <3>1. CASE i = 1
        BY <1>2, <2>0, <3>1
    <3>2. CASE i # 1
      <4>1. i - 1 \in 1 .. N
          BY <3>2
      <4>2. g[i] = SubSeq(q, 1, i) /\ g[i - 1] = SubSeq(q, 1, i - 1)
          BY <2>0, <4>1
      <4> QED
          BY <1>1, <3>2, <4>2
    <3> QED
        BY <3>1, <3>2
  <2>2. g = [i \in 1 .. N |-> g[i]]
      BY <2>0
  <2>3. Flattens(g, N, ss)
      BY <1>0, <2>1, <2>2, Zenon DEF Flattens
  <2> QED
      BY <2>3, Zenon
<1> HIDE DEF f
<1>5. \A i \in 1 .. N : f[i] = IF i = 1 THEN ss[i] ELSE f[i - 1] \o ss[i]
    BY <1>0, <1>4 DEF Flattens
<1> DEFINE P == {k \in 0 .. N : k = 0 \/ f[k] = SubSeq(q, 1, k)}
<1>6. ASSUME NEW k \in 1 .. N, k - 1 \in P PROVE k \in P
  <2>1. CASE k = 1
      BY <1>2, <1>5, <2>1
  <2>2. CASE k # 1
    <3>1. f[k - 1] = SubSeq(q, 1, k - 1)
        BY <1>6, <2>2
    <3>2. f[k] = f[k - 1] \o ss[k]
        BY <1>5, <2>2
    <3>3. f[k] = SubSeq(q, 1, k)
        BY <1>1, <2>2, <3>1, <3>2
    <3> QED
        BY <3>3
  <2> QED
      BY <2>1, <2>2
<1>7. 0 \in P
    OBVIOUS
<1>8. N \in P
  <2> HIDE DEF P
  <2>1. \A k \in 0 .. N : k \in P
      BY <1>6, <1>7, UpTo
  <2> QED
      BY <2>1
<1>9. f[N] = SubSeq(q, 1, N)
    BY <1>8
<1> HIDE DEF P
<1>10. SubSeq(q, 1, N) = q
    BY SubSeqFull
<1> QED
    BY <1>3, <1>9, <1>10, Zenon

-----------------------------------------------------------------------------
(* Names and paths.                                                        *)

\* What Components does with one piece
ComponentsStep(acc, piece) ==
    IF piece = Slash THEN Append(acc, << >>)
    ELSE [acc EXCEPT ![Len(acc)] = Append(@, piece)]

NonEmpty(Pieces) == {acc \in Seq(Seq(Pieces)) : acc # << >>}

\* Components goes through the pieces in order.
LEMMA ComponentsUnfold ==
    ASSUME NEW N \in Nat, NEW name, DOMAIN name = 1 .. N,
           \E f : f = [s \in SUBSET (1 .. N) |->
                         IF s = {} THEN << << >> >>
                         ELSE ComponentsStep(f[s \ {Max(s)}], name[Max(s)])]
    PROVE  \E f : /\ f = [s \in SUBSET (1 .. N) |->
                            IF s = {} THEN << << >> >>
                            ELSE ComponentsStep(f[s \ {Max(s)}], name[Max(s)])]
                  /\ Components(name) = f[1 .. N]
<1> DEFINE g == CHOOSE f : f = [s \in SUBSET (1 .. N) |->
                                  IF s = {} THEN << << >> >>
                                  ELSE ComponentsStep(f[s \ {Max(s)}], name[Max(s)])]
<1>1. g = [s \in SUBSET (1 .. N) |->
             IF s = {} THEN << << >> >> ELSE ComponentsStep(g[s \ {Max(s)}], name[Max(s)])]
    BY Zenon
<1>2. Components(name) = g[1 .. N]
    BY Zenon DEF Components, FoldLeft, MapThenFoldSet, ComponentsStep
<1> HIDE DEF g
<1> QED
    BY <1>1, <1>2, Zenon

\* A step keeps a path a path.
LEMMA ComponentsStepType ==
    ASSUME NEW Pieces, NEW acc \in NonEmpty(Pieces), NEW piece \in Pieces
    PROVE  ComponentsStep(acc, piece) \in NonEmpty(Pieces)
<1>1. PICK n \in Nat : n = Len(acc)
    BY DEF NonEmpty
<1>2. acc \in Seq(Seq(Pieces)) /\ n \in 1 .. Len(acc)
  <2>1. acc \in Seq(Seq(Pieces)) /\ n # 0
      BY <1>1, EmptySeq DEF NonEmpty
  <2> QED
      BY <1>1, <2>1
<1>3. PICK last \in Seq(Pieces) : last = acc[n]
    BY <1>2
<1>4. CASE piece = Slash
  <2>1. << >> \in Seq(Pieces)
      OBVIOUS
  <2>2. Append(acc, << >>) \in Seq(Seq(Pieces)) /\ Append(acc, << >>) # << >>
      BY <1>2, <2>1, AppendProperties
  <2> QED
      BY <1>4, <2>2 DEF ComponentsStep, NonEmpty
<1>5. CASE piece # Slash
  <2>1. PICK new \in Seq(Pieces) : new = Append(last, piece)
      BY <1>3, AppendProperties
  <2>2. [acc EXCEPT ![n] = new] \in Seq(Seq(Pieces)) /\ Len([acc EXCEPT ![n] = new]) = n
    <3>1. acc \in [1 .. n -> Seq(Pieces)]
        BY <1>1, <1>2
    <3>2. PICK changed : changed = [acc EXCEPT ![n] = new]
        OBVIOUS
    <3>3. changed \in [1 .. n -> Seq(Pieces)]
        BY <2>1, <3>1, <3>2
    <3>4. changed \in Seq(Seq(Pieces)) /\ Len(changed) = n
        BY <3>3, SeqOfFunction
    <3> QED
        BY <3>2, <3>4
  <2>3. [acc EXCEPT ![n] = new] # << >>
      BY <1>1, <1>2, <2>2, EmptySeq
  <2>4. ComponentsStep(acc, piece) = [acc EXCEPT ![n] = new]
      BY <1>1, <1>3, <1>5, <2>1 DEF ComponentsStep
  <2> QED
      BY <2>2, <2>3, <2>4 DEF NonEmpty
<1> QED
    BY <1>4, <1>5

\* Components from left to right: h[k] is what the first k pieces come to.
LEMMA ComponentsPrefixes ==
    ASSUME NEW Pieces, NEW name \in Seq(Pieces)
    PROVE  \E h : /\ h[0] = << << >> >>
                  /\ \A k \in 1 .. Len(name) : h[k] = ComponentsStep(h[k - 1], name[k])
                  /\ Components(name) = h[Len(name)]
<1> DEFINE F == [x \in NonEmpty(Pieces) \X Pieces |-> ComponentsStep(x[1], x[2])]
<1>0. PICK N \in Nat : N = Len(name)
    OBVIOUS
<1>1. DOMAIN name = 1 .. N /\ name \in [1 .. N -> Pieces]
    BY <1>0, LenProperties
<1>2. F \in [NonEmpty(Pieces) \X Pieces -> NonEmpty(Pieces)]
  <2>1. \A x \in NonEmpty(Pieces) \X Pieces : ComponentsStep(x[1], x[2]) \in NonEmpty(Pieces)
      BY ComponentsStepType
  <2> QED
      BY <2>1
<1>3. << << >> >> \in NonEmpty(Pieces)
    BY DEF NonEmpty
<1>4. \A a \in NonEmpty(Pieces), v \in Pieces : F[<<a, v>>] = ComponentsStep(a, v)
    OBVIOUS
<1> HIDE DEF F
<1>5. PICK g : Folds(g, NonEmpty(Pieces), << << >> >>, F, N, name)
    BY <1>1, <1>2, <1>3, FoldExists
<1>6. \A s \in SUBSET (1 .. N) : s # {} => Max(s) \in s
    BY LargestIndex
<1>7. g = [s \in SUBSET (1 .. N) |->
             IF s = {} THEN << << >> >> ELSE ComponentsStep(g[s \ {Max(s)}], name[Max(s)])]
  <2>1. ASSUME NEW s \in SUBSET (1 .. N), s # {}
        PROVE  g[s] = ComponentsStep(g[s \ {Max(s)}], name[Max(s)])
    <3>1. g[s] = F[<<g[s \ {Max(s)}], name[Max(s)]>>]
        BY <1>5, <2>1 DEF Folds
    <3>2. name[Max(s)] \in Pieces /\ g[s \ {Max(s)}] \in NonEmpty(Pieces)
      <4>1. Max(s) \in 1 .. N /\ s \ {Max(s)} \in SUBSET (1 .. N)
          BY <1>6, <2>1
      <4> QED
          BY <1>1, <1>5, <4>1 DEF Folds
    <3> QED
        BY <1>4, <3>1, <3>2
  <2>2. g[{}] = << << >> >>
      BY <1>5 DEF Folds
  <2>3. \A s \in SUBSET (1 .. N) :
           g[s] = IF s = {} THEN << << >> >> ELSE ComponentsStep(g[s \ {Max(s)}], name[Max(s)])
      BY <2>1, <2>2
  <2>4. g = [s \in SUBSET (1 .. N) |-> g[s]]
      BY <1>5 DEF Folds
  <2> QED
      BY <2>3, <2>4, Zenon
<1>8. PICK f : /\ f = [s \in SUBSET (1 .. N) |->
                         IF s = {} THEN << << >> >>
                         ELSE ComponentsStep(f[s \ {Max(s)}], name[Max(s)])]
               /\ Components(name) = f[1 .. N]
    BY <1>1, <1>7, ComponentsUnfold, Zenon
<1> DEFINE h == [k \in 0 .. N |-> f[1 .. k]]
<1>9. h[0] = << << >> >>
  <2>1. 1 .. 0 = {} /\ {} \in SUBSET (1 .. N)
      OBVIOUS
  <2> QED
      BY <1>8, <2>1
<1>10. ASSUME NEW k \in 1 .. N PROVE h[k] = ComponentsStep(h[k - 1], name[k])
  <2>1. /\ 1 .. k \in SUBSET (1 .. N) /\ 1 .. k # {}
        /\ (1 .. k) \ {k} = 1 .. (k - 1) /\ Max(1 .. k) = k
      BY <1>10, PrefixIndices
  <2>2. f[1 .. k] = ComponentsStep(f[1 .. (k - 1)], name[k])
      BY <1>8, <2>1
  <2>3. k - 1 \in 0 .. N
      BY <1>10
  <2> QED
      BY <2>2, <2>3
<1>11. Components(name) = h[N]
  <2>1. N \in 0 .. N
      OBVIOUS
  <2> QED
      BY <1>8, <2>1
<1> HIDE DEF h
<1> QED
    BY <1>0, <1>9, <1>10, <1>11

\* A name without a slash is one component.
LEMMA ComponentsPlain ==
    ASSUME NEW Pieces, NEW name \in Seq(Pieces), Slash \notin ToSet(name)
    PROVE  Components(name) = <<name>>
<1>0. /\ name \in Seq(Pieces) /\ \A k \in 1 .. Len(name) : name[k] # Slash
      /\ \E n \in Nat : n = Len(name)
  <2>1. name \in Seq(Pieces)
      OBVIOUS
  <2>2. DOMAIN name = 1 .. Len(name) /\ Len(name) \in Nat
      BY <2>1, LenProperties
  <2> QED
      BY <2>1, <2>2 DEF ToSet
<1>1. PICK N \in Nat : N = Len(name)
    BY <1>0
<1>2. PICK h : /\ h[0] = << << >> >>
               /\ \A k \in 1 .. N : h[k] = ComponentsStep(h[k - 1], name[k])
               /\ Components(name) = h[N]
    BY <1>1, ComponentsPrefixes
<1> DEFINE P == {k \in 0 .. N : h[k] = <<SubSeq(name, 1, k)>>}
<1>3. 0 \in P
  <2>1. SubSeq(name, 1, 0) = << >>
      BY SubSeqEmpty
  <2>2. 0 \in 0 .. N
      OBVIOUS
  <2> QED
      BY <1>2, <2>1, <2>2
<1>4. ASSUME NEW k \in 1 .. N, k - 1 \in P PROVE k \in P
  <2>1. h[k - 1] = <<SubSeq(name, 1, k - 1)>>
      BY <1>4
  <2>2. h[k] = [h[k - 1] EXCEPT ![Len(h[k - 1])] = Append(@, name[k])]
      BY <1>0, <1>1, <1>2, <1>4 DEF ComponentsStep
  <2>3. \A x, y : [<<x>> EXCEPT ![Len(<<x>>)] = Append(@, y)] = <<Append(x, y)>>
      OBVIOUS
  <2>4. h[k] = <<Append(SubSeq(name, 1, k - 1), name[k])>>
      BY <2>1, <2>2, <2>3
  <2>5. Append(SubSeq(name, 1, k - 1), name[k]) = SubSeq(name, 1, k)
      BY <1>0, <1>1, <1>4, PrefixGrows
  <2> QED
      BY <2>4, <2>5
<1>5. N \in P
  <2> HIDE DEF P
  <2>1. \A k \in 0 .. N : k \in P
      BY <1>3, <1>4, UpTo
  <2> QED
      BY <2>1
<1> QED
    BY <1>0, <1>1, <1>2, <1>5, SubSeqFull

\* The file of a name without a slash is called by a name without a slash, from which
\* the name can be told.
LEMMA FileNamePlain ==
    ASSUME NEW Pieces, DatSuffix \in Pieces, NEW name \in Seq(Pieces)
    PROVE  /\ FileName(name) \in Seq(Pieces)
           /\ Slash \notin ToSet(name) => Slash \notin ToSet(FileName(name))
           /\ Len(FileName(name)) = Len(name) + 1
           /\ Last(FileName(name)) = DatSuffix
           /\ Front(FileName(name)) = name
<1>1. name \in Seq(Pieces) /\ DatSuffix \in Pieces /\ DatSuffix # Slash
  <2>1. DatSuffix # Slash
      BY DEF DatSuffix, Slash
  <2> QED
      BY <2>1
<1>2. PICK file \in Seq(Pieces) : file = FileName(name)
    BY <1>1, AppendProperties DEF FileName
<1>3. PICK n \in Nat : n = Len(name)
    BY <1>1
<1>4. /\ Len(file) = n + 1 /\ \A i \in 1 .. n : file[i] = name[i]
      /\ file[n + 1] = DatSuffix
    BY <1>1, <1>2, <1>3, AppendProperties DEF FileName
<1>5. Slash \notin ToSet(name) => Slash \notin ToSet(file)
  <2>1. DOMAIN file = 1 .. n + 1 /\ DOMAIN name = 1 .. n
      BY <1>1, <1>2, <1>3, <1>4, LenProperties
  <2>2. \A i \in 1 .. n + 1 : i = n + 1 \/ i \in 1 .. n
      OBVIOUS
  <2> QED
      BY <1>1, <1>4, <2>1, <2>2 DEF ToSet
<1>6. Last(file) = DatSuffix /\ Front(file) = name
    BY <1>1, <1>2, AppendFrontLast DEF FileName
<1> QED
    BY <1>1, <1>2, <1>3, <1>4, <1>5, <1>6

\* The names of a stream are made of Pieces, not empty and without slashes
IsPlain(id, Pieces) ==
    /\ DatSuffix \in Pieces /\ KindDirs \subseteq Seq(Pieces)
    /\ id \in [ns : Seq(Pieces), svc : Seq(Pieces), kind : KindDirs, name : Seq(Pieces)]
    /\ \A name \in {id.ns, id.svc, id.name} : name # << >> /\ Slash \notin ToSet(name)

\* The path of a stream is what it looks like.
LEMMA PlainPath ==
    ASSUME NEW Pieces, NEW id, IsPlain(id, Pieces)
    PROVE  PathString(id) = <<id.ns, id.svc, id.kind, FileName(id.name)>>
<1> DEFINE full == <<id.ns, id.svc, id.kind, id.name>>
           unset == {i \in 1 .. 4 : full[i] = << >>}
           set == <<id.ns, id.svc, id.kind, FileName(id.name)>>
<1>1. /\ id.ns \in Seq(Pieces) /\ id.svc \in Seq(Pieces)
      /\ id.kind \in Seq(Pieces) /\ id.name \in Seq(Pieces)
      /\ id.ns # << >> /\ id.svc # << >> /\ id.kind # << >> /\ id.name # << >>
  <2>1. /\ id.ns \in Seq(Pieces) /\ id.svc \in Seq(Pieces)
        /\ id.kind \in KindDirs /\ id.name \in Seq(Pieces)
        /\ id.ns # << >> /\ id.svc # << >> /\ id.name # << >>
      BY DEF IsPlain
  <2>2. \A kind \in KindDirs : kind \in Seq(Pieces) /\ kind # << >>
    <3>1. \A kind \in KindDirs : kind # << >>
        BY DEF KindDirs
    <3> QED
        BY <3>1 DEF IsPlain
  <2> QED
      BY <2>1, <2>2
<1>2. unset = {}
    BY <1>1
<1>3. /\ Slash \notin ToSet(id.ns) /\ Slash \notin ToSet(id.svc) /\ Slash \notin ToSet(id.name)
      /\ Slash \notin ToSet(id.kind)
    BY DEF IsPlain, KindDirs, ToSet, Slash
<1>4. FileName(id.name) \in Seq(Pieces) /\ Slash \notin ToSet(FileName(id.name))
    BY <1>1, <1>3, FileNamePlain DEF IsPlain
<1>5. \A i \in 1 .. 4 : set[i] \in Seq(Pieces) /\ Slash \notin ToSet(set[i])
    BY <1>1, <1>3, <1>4
<1>6. DOMAIN set = 1 .. 4 /\ Len(set) = 4 /\ set \in Seq(Seq(Pieces))
    BY <1>1, <1>4
<1> HIDE DEF set, unset
<1>7. PathString(id) = FlattenSeq([i \in DOMAIN set |-> Components(set[i])])
    BY <1>2, Zenon DEF PathString, set, unset
<1>8. [i \in DOMAIN set |-> Components(set[i])] = [i \in 1 .. 4 |-> <<set[i]>>]
    BY <1>5, <1>6, ComponentsPlain
<1>9. FlattenSeq([i \in 1 .. 4 |-> <<set[i]>>]) = set
  <2>1. PICK ss : ss = [i \in 1 .. 4 |-> <<set[i]>>]
      OBVIOUS
  <2>2. 4 \in Nat /\ 4 >= 1
      OBVIOUS
  <2> QED
      BY <1>6, <2>1, <2>2, FlattenSingles
<1> QED
    BY <1>7, <1>8, <1>9 DEF set

-----------------------------------------------------------------------------
(* Parsing.                                                                *)

\* A path that parses: its components are what the layout demands.
Parses(parts) ==
    /\ Len(parts) <= 4
    /\ \A i \in 1 .. Len(parts) : parts[i] # << >>
    /\ Len(parts) >= 3 => parts[3] \in KindDirs
    /\ Len(parts) = 4 => IsFile(parts[4])

\* ParsePath accepts exactly these, if they are absolute.
LEMMA ParsePathFacts ==
    ASSUME NEW S, NEW path \in [absolute : BOOLEAN, parts : Seq(S)]
    PROVE  /\ ParsePath(path) \in {"ok", "bad_path", "not_found"}
           /\ ParsePath(path) = "ok" <=> path.absolute /\ Parses(path.parts)
           /\ ParsePath(path) = "not_found" => path.absolute
<1> DEFINE parts == path.parts
           wrong == {i \in 1 .. Len(parts) : PartError(parts, i) # "ok"}
<1>0. path.absolute \in BOOLEAN /\ parts \in Seq(S)
    OBVIOUS
<1>1. PICK n \in Nat : n = Len(parts)
    BY <1>0
<1>2. \A i : PartError(parts, i) \in {"ok", "bad_path", "not_found"}
    BY DEF PartError
<1>3. \A i : PartError(parts, i) = "ok" <=>
                /\ parts[i] # << >>
                /\ i = 3 => parts[i] \in KindDirs
                /\ i = 4 => IsFile(parts[i])
    BY DEF PartError
<1>4. ParsePath(path) = IF ~ path.absolute THEN "bad_path"
                        ELSE IF n > 4 THEN "not_found"
                        ELSE IF wrong = {} THEN "ok" ELSE PartError(parts, Min(wrong))
    BY <1>1 DEF ParsePath
<1>5. wrong # {} => PartError(parts, Min(wrong)) # "ok"
  <2> SUFFICES ASSUME wrong # {} PROVE Min(wrong) \in wrong
      OBVIOUS
  <2>1. wrong \subseteq Nat
      BY <1>1
  <2> HIDE DEF wrong
  <2>2. \E x \in wrong : \A y \in wrong : x <= y
      BY <2>1, LeastElement
  <2> QED
      BY <2>2, Zenon DEF Min
<1>6. n <= 4 => (wrong = {} <=> Parses(parts))
  <2>1. wrong = {} <=> \A i \in 1 .. n : PartError(parts, i) = "ok"
      BY <1>1
  <2>2. ASSUME n <= 4, wrong = {} PROVE Parses(parts)
    <3>1. \A i \in 1 .. n : /\ parts[i] # << >>
                            /\ i = 3 => parts[i] \in KindDirs
                            /\ i = 4 => IsFile(parts[i])
        BY <1>3, <2>1, <2>2
    <3>2. (n >= 3 => 3 \in 1 .. n) /\ (n = 4 => 4 \in 1 .. n)
        OBVIOUS
    <3> QED
        BY <1>1, <2>2, <3>1, <3>2 DEF Parses
  <2>3. ASSUME n <= 4, Parses(parts) PROVE wrong = {}
    <3>1. \A i \in 1 .. n : parts[i] # << >>
        BY <1>1, <2>3 DEF Parses
    <3>2. \A i \in 1 .. n : (i = 3 => n >= 3) /\ (i = 4 => n = 4)
        BY <2>3
    <3>3. \A i \in 1 .. n : (i = 3 => parts[i] \in KindDirs) /\ (i = 4 => IsFile(parts[i]))
        BY <1>1, <2>3, <3>2 DEF Parses
    <3> QED
        BY <1>3, <2>1, <3>1, <3>3
  <2> QED
      BY <2>2, <2>3
<1>7. Parses(parts) => n <= 4
    BY <1>1 DEF Parses
<1> HIDE DEF wrong
<1> QED
    BY <1>0, <1>2, <1>4, <1>5, <1>6, <1>7

\* A stream's path parses, and leads back to the stream.
LEMMA PlainParses ==
    ASSUME NEW Pieces, NEW id, IsPlain(id, Pieces)
    PROVE  /\ PathString(id) \in Seq(Seq(Pieces)) /\ Len(PathString(id)) = 4
           /\ Parses(PathString(id))
           /\ StreamIDOf(PathString(id)) = id
<1>1. /\ id.ns \in Seq(Pieces) /\ id.svc \in Seq(Pieces)
      /\ id.kind \in KindDirs /\ id.name \in Seq(Pieces)
      /\ id.ns # << >> /\ id.svc # << >> /\ id.name # << >>
      /\ id = [ns |-> id.ns, svc |-> id.svc, kind |-> id.kind, name |-> id.name]
    BY DEF IsPlain
<1>2. id.kind \in Seq(Pieces)
    BY <1>1 DEF IsPlain
<1>3. PICK file \in Seq(Pieces) : file = FileName(id.name)
    BY <1>1, FileNamePlain DEF IsPlain
<1>4. /\ Len(file) = Len(id.name) + 1 /\ Last(file) = DatSuffix /\ Front(file) = id.name
    BY <1>1, <1>3, FileNamePlain DEF IsPlain
<1>5. Len(id.name) \in Nat \ {0}
    BY <1>1, EmptySeq
<1>6. IsFile(file) /\ file # << >>
  <2>1. file # << >>
    <3>1. file = << >> => Len(file) = 0
        OBVIOUS
    <3> QED
        BY <1>4, <1>5, <3>1
  <2> QED
      BY <1>4, <1>5, <2>1 DEF IsFile
<1>7. PathString(id) = <<id.ns, id.svc, id.kind, file>>
    BY <1>3, PlainPath
<1>8. PathString(id) \in Seq(Seq(Pieces)) /\ Len(PathString(id)) = 4
    BY <1>1, <1>2, <1>3, <1>7
<1>9. id.kind # << >>
  <2>1. \A kind \in KindDirs : kind # << >>
      BY DEF KindDirs
  <2> QED
      BY <1>1, <2>1
<1>10. Parses(PathString(id))
    BY <1>1, <1>6, <1>7, <1>8, <1>9 DEF Parses
<1>11. StreamIDOf(PathString(id)) = id
    BY <1>1, <1>4, <1>7 DEF StreamIDOf
<1> QED
    BY <1>8, <1>10, <1>11

\* A path of a file that parses is the path of the stream it names.
LEMMA ParsedPath ==
    ASSUME NEW S, Slash \notin S, NEW parts \in Seq(Seq(S)), Parses(parts), Len(parts) = 4
    PROVE  PathString(StreamIDOf(parts)) = parts
<1>1. PICK Pieces : Pieces = S \cup {DatSuffix, "logs", "metrics"}
    OBVIOUS
<1>2. /\ parts[1] \in Seq(S) /\ parts[2] \in Seq(S) /\ parts[4] \in Seq(S)
      /\ parts[1] # << >> /\ parts[2] # << >> /\ parts[3] \in KindDirs /\ IsFile(parts[4])
    BY DEF Parses
<1>3. parts = <<parts[1], parts[2], parts[3], parts[4]>>
    OBVIOUS
<1>4. PICK file \in Seq(S) : file = parts[4] /\ IsFile(file)
    BY <1>2
<1>5. PICK n \in Nat : n = Len(file) /\ n > 1 /\ n \in 1 .. Len(file)
    BY <1>4 DEF IsFile
<1>6. PICK name : name = Front(file)
    OBVIOUS
<1>7. name = SubSeq(file, 1, n - 1) /\ file[n] = DatSuffix
    BY <1>4, <1>5, <1>6 DEF Front, Last, IsFile
<1>8. name \in Seq(S) /\ Append(name, DatSuffix) = SubSeq(file, 1, n)
    BY <1>5, <1>7, PrefixGrows
<1>9. FileName(name) = file
    BY <1>5, <1>8, SubSeqFull DEF FileName
<1>10. name # << >>
  <2>1. \A i \in 1 .. n - 1 : file[i] \in S
      BY <1>5, ElementOfSeq
  <2>2. Len(SubSeq(file, 1, n - 1)) = IF 1 <= n - 1 THEN n - 1 - 1 + 1 ELSE 0
      BY <2>1, SubSeqProperties
  <2>3. Len(name) # 0
      BY <1>5, <1>7, <2>2
  <2> QED
      BY <2>3
<1>11. ASSUME NEW p \in Seq(S) PROVE p \in Seq(Pieces) /\ Slash \notin ToSet(p)
  <2>1. Len(p) \in Nat /\ DOMAIN p = 1 .. Len(p) /\ p \in [1 .. Len(p) -> S]
      BY LenProperties
  <2>2. p \in [1 .. Len(p) -> Pieces]
      BY <1>1, <2>1
  <2>3. p \in Seq(Pieces)
      BY <2>1, <2>2, SeqOfFunction
  <2> QED
      BY <2>1, <2>3 DEF ToSet
<1>12. PICK id : id = StreamIDOf(parts)
    OBVIOUS
<1>13. id = [ns |-> parts[1], svc |-> parts[2], kind |-> parts[3], name |-> name]
    BY <1>4, <1>6, <1>12 DEF StreamIDOf
<1>14. IsPlain(id, Pieces)
  <2>1. DatSuffix \in Pieces /\ KindDirs \subseteq Seq(Pieces)
    <3>1. "logs" \in Pieces /\ "metrics" \in Pieces /\ DatSuffix \in Pieces
        BY <1>1
    <3> QED
        BY <3>1 DEF KindDirs
  <2>2. id \in [ns : Seq(Pieces), svc : Seq(Pieces), kind : KindDirs, name : Seq(Pieces)]
      BY <1>2, <1>8, <1>11, <1>13
  <2>3. \A p \in {id.ns, id.svc, id.name} : p # << >> /\ Slash \notin ToSet(p)
    <3>1. id.ns = parts[1] /\ id.svc = parts[2] /\ id.name = name
        BY <1>13
    <3> QED
        BY <1>2, <1>8, <1>10, <1>11, <3>1
  <2> QED
      BY <2>1, <2>2, <2>3 DEF IsPlain
<1>15. PathString(id) = <<id.ns, id.svc, id.kind, FileName(id.name)>>
    BY <1>14, PlainPath
<1>16. id.ns = parts[1] /\ id.svc = parts[2] /\ id.kind = parts[3] /\ id.name = name
    BY <1>13
<1> QED
    BY <1>3, <1>4, <1>9, <1>12, <1>15, <1>16

=============================================================================
