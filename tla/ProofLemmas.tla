---------------------------- MODULE ProofLemmas ----------------------------
(***************************************************************************)
(* Facts that the proofs about several components need: sequences used as  *)
(* stacks, what is threaded through the frames of a call stack, induction  *)
(* over the naturals, and sets that grow until they are closed.            *)
(***************************************************************************)
EXTENDS Integers, SequenceTheorems, FiniteSetTheorems, TLAPS

LEMMA AppendFacts ==
  ASSUME NEW S, NEW frames \in Seq(S), NEW t
  PROVE  LET n == Len(frames)
             g == Append(frames, t)
         IN  /\ n \in Nat /\ Len(g) = n + 1
             /\ g \in Seq(S \cup {t})
             /\ g[n + 1] = t
             /\ \A i \in 1..n : g[i] = frames[i]
<1>1. frames \in Seq(S \cup {t})
  OBVIOUS
<1> QED
  BY <1>1

LEMMA PopFacts ==
  ASSUME NEW S, NEW frames \in Seq(S), frames # <<>>
  PROVE  LET n == Len(frames)
             g == SubSeq(frames, 1, n - 1)
         IN  /\ n \in Nat /\ n >= 1 /\ Len(g) = n - 1
             /\ g \in Seq(S) /\ frames[n] \in S
             /\ \A i \in 1..n - 1 : g[i] = frames[i]
<1> DEFINE n == Len(frames)
           g == SubSeq(frames, 1, n - 1)
<1>1. n \in Nat /\ n >= 1 /\ frames[n] \in S
  OBVIOUS
<1>2. 1 \in Int /\ n - 1 \in Int /\ \A i \in 1..n - 1 : frames[i] \in S
  BY <1>1
<1> HIDE DEF n
<1>3. /\ g \in Seq(S)
      /\ Len(g) = IF 1 <= n - 1 THEN (n - 1) - 1 + 1 ELSE 0
      /\ \A i \in 1..(n - 1) - 1 + 1 : g[i] = frames[1 + i - 1]
  BY <1>2, SubSeqProperties
<1>4. Len(g) = n - 1 /\ \A i \in 1..n - 1 : g[i] = frames[i]
  BY <1>1, <1>3
<1> QED
  BY <1>1, <1>3, <1>4 DEF n

-----------------------------------------------------------------------------
(* Something is threaded through a stack of frames: each frame relates what  *)
(* it stands for to what the frames inside it leave, and `whole` is what the *)
(* outermost frame stands for.  L holds the triples of a frame, what it      *)
(* stands for, and what is left to the next one.                             *)
Chain(frames, L, whole, inner) ==
  \E c : /\ c[0] = whole
         /\ c[Len(frames)] = inner
         /\ \A i \in 1..Len(frames) : <<frames[i], c[i - 1], c[i]>> \in L

LEMMA ChainEmpty ==
  ASSUME NEW L, NEW whole
  PROVE  /\ Chain(<<>>, L, whole, whole)
         /\ \A inner : Chain(<<>>, L, whole, inner) => inner = whole
<1> DEFINE c == [i \in {0} |-> whole]
<1>1. Len(<<>>) = 0 /\ c[0] = whole
  OBVIOUS
<1> HIDE DEF c
<1>2. \A i \in 1..Len(<<>>) : FALSE
  BY <1>1
<1> QED
  BY <1>1, <1>2 DEF Chain

LEMMA ChainPush ==
  ASSUME NEW S, NEW frames \in Seq(S), NEW f, NEW L, NEW whole, NEW outer, NEW inner,
         Chain(frames, L, whole, outer)
  PROVE  Chain(Append(frames, f), L \cup {<<f, outer, inner>>}, whole, inner)
<1> DEFINE n == Len(frames)
           g == Append(frames, f)
           M == L \cup {<<f, outer, inner>>}
<1>1. PICK c : /\ c[0] = whole
               /\ c[n] = outer
               /\ \A i \in 1..n : <<frames[i], c[i - 1], c[i]>> \in L
  BY DEF Chain
<1> DEFINE d == [i \in 0..n + 1 |-> IF i = n + 1 THEN inner ELSE c[i]]
<1>2. n \in Nat /\ Len(g) = n + 1 /\ g[n + 1] = f /\ \A i \in 1..n : g[i] = frames[i]
  BY AppendFacts
<1>3. d[0] = whole /\ d[n + 1] = inner /\ \A i \in 0..n : d[i] = c[i]
  BY <1>1, <1>2
<1> HIDE DEF d, g, n
<1>4. ASSUME NEW i \in 1..n + 1
      PROVE  <<g[i], d[i - 1], d[i]>> \in M
  <2>1. CASE i = n + 1
    <3>1. d[i - 1] = outer /\ d[i] = inner /\ g[i] = f
      BY <1>1, <1>2, <1>3, <2>1
    <3> QED
      BY <3>1
  <2>2. CASE i # n + 1
    <3>1. i \in 1..n /\ i - 1 \in 0..n /\ i \in 0..n
      BY <1>2, <2>2
    <3>2. d[i - 1] = c[i - 1] /\ d[i] = c[i] /\ g[i] = frames[i]
      BY <1>2, <1>3, <3>1
    <3> QED
      BY <1>1, <3>1, <3>2
  <2> QED
    BY <2>1, <2>2
<1> HIDE DEF M
<1>5. Chain(g, M, whole, inner)
  BY <1>2, <1>3, <1>4 DEF Chain
<1> QED
  BY <1>5 DEF g, M

LEMMA ChainPop ==
  ASSUME NEW S, NEW frames \in Seq(S), frames # <<>>, NEW L, NEW whole, NEW inner,
         Chain(frames, L, whole, inner)
  PROVE  \E outer : /\ <<frames[Len(frames)], outer, inner>> \in L
                    /\ Chain(SubSeq(frames, 1, Len(frames) - 1), L, whole, outer)
<1> DEFINE n == Len(frames)
           g == SubSeq(frames, 1, n - 1)
<1>1. PICK c : /\ c[0] = whole
               /\ c[n] = inner
               /\ \A i \in 1..n : <<frames[i], c[i - 1], c[i]>> \in L
  BY DEF Chain
<1>2. n \in Nat /\ n >= 1 /\ Len(g) = n - 1 /\ \A i \in 1..n - 1 : g[i] = frames[i]
  BY PopFacts
<1> HIDE DEF g, n
<1>3. n \in 1..n
  BY <1>2
<1>4. <<frames[n], c[n - 1], inner>> \in L
  BY <1>1, <1>3
<1>5. \A i \in 1..Len(g) : <<g[i], c[i - 1], c[i]>> \in L
  BY <1>1, <1>2
<1>6. c[Len(g)] = c[n - 1]
  BY <1>2
<1>7. Chain(g, L, whole, c[n - 1])
  BY <1>1, <1>5, <1>6 DEF Chain
<1> QED
  BY <1>4, <1>7 DEF g, n

-----------------------------------------------------------------------------
\* Induction over the naturals, for a set in place of a predicate.
LessThan == {p \in Nat \X Nat : p[1] < p[2]}

LEMMA LeastNumber ==
  ASSUME NEW S \in SUBSET Nat, S # {}
  PROVE  \E m \in S : \A n \in S : m <= n
<1>1. IsWellFoundedOn(LessThan, Nat)
  BY NatLessThanWellFounded, Zenon DEF OpToRel, LessThan
<1>2. PICK m \in S : \A n \in S : ~(<<n, m>> \in LessThan)
  BY <1>1, WFMin, Zenon
<1>3. ASSUME NEW n \in S
      PROVE  m <= n
  <2>1. <<n, m>> \in Nat \X Nat /\ <<n, m>>[1] = n /\ <<n, m>>[2] = m
    OBVIOUS
  <2>2. n < m => <<n, m>> \in LessThan
    BY <2>1, Zenon DEF LessThan
  <2> QED
    BY <1>2, <2>2
<1> QED
  BY <1>3

LEMMA CountingInduction ==
  ASSUME NEW N \in Nat, NEW P, 0 \in P, \A n \in 0..N : n # N /\ n \in P => n + 1 \in P
  PROVE  \A n \in 0..N : n \in P
<1> DEFINE Q == {n \in 0..N : n \notin P}
<1>1. SUFFICES ASSUME Q # {}
               PROVE  FALSE
  OBVIOUS
<1>2. Q \in SUBSET Nat
  OBVIOUS
<1> HIDE DEF Q
<1>3. PICK m \in Q : \A n \in Q : m <= n
  BY <1>1, <1>2, LeastNumber
<1>4. m \in 0..N /\ m \notin P /\ \A n \in 0..N : n \notin P => m <= n
  BY <1>3 DEF Q
<1>5. m # 0 /\ m - 1 \in 0..N /\ m - 1 # N
  BY <1>4
<1>6. m - 1 \in P
  BY <1>4, <1>5
<1> QED
  BY <1>4, <1>5, <1>6

\* f is the first N iterates of step on X.
Iteration(f, X, base, step, N) ==
  /\ f \in [0..N -> X]
  /\ f[0] = base
  /\ \A n \in 1..N : f[n] = step[f[n - 1]]

\* A function defined by recursion on a counter exists.
LEMMA Iterates ==
  ASSUME NEW X, NEW base \in X, NEW step \in [X -> X], NEW N \in Nat
  PROVE  \E f : Iteration(f, X, base, step, N)
<1> DEFINE Upto(n) == \E f \in [0..n -> X] : f[0] = base /\ \A k \in 1..n : f[k] = step[f[k - 1]]
           P == {n \in 0..N : Upto(n)}
<1>1. 0 \in P
  <2> [n \in 0..0 |-> base] \in [0..0 -> X]
    OBVIOUS
  <2>1. Upto(0)
    <3> WITNESS [n \in 0..0 |-> base] \in [0..0 -> X]
    <3> QED
      OBVIOUS
  <2> QED
    BY <2>1
<1>2. ASSUME NEW n \in 0..N, n # N, n \in P
      PROVE  n + 1 \in P
  <2>1. PICK f \in [0..n -> X] : f[0] = base /\ \A k \in 1..n : f[k] = step[f[k - 1]]
    BY <1>2
  <2> DEFINE g == [k \in 0..n + 1 |-> IF k = n + 1 THEN step[f[n]] ELSE f[k]]
  <2>2. g \in [0..n + 1 -> X] /\ g[0] = base
    BY <2>1
  <2>3. ASSUME NEW k \in 1..n + 1
        PROVE  g[k] = step[g[k - 1]]
    BY <2>1
  <2>4. Upto(n + 1)
    BY <2>2, <2>3
  <2> QED
    BY <2>4, <1>2
<1>3. N \in P
  <2> HIDE DEF P
  <2> QED
    BY <1>1, <1>2, CountingInduction
<1> QED
  BY <1>3 DEF Iteration

\* What satisfies the equations of the recursion is that function.
LEMMA Iterated ==
  ASSUME NEW X, NEW base \in X, NEW step \in [X -> X], NEW N \in Nat,
         NEW f, f = [n \in 0..N |-> f[n]], f[0] = base,
         \A n \in 1..N : f[n - 1] \in X => f[n] = step[f[n - 1]]
  PROVE  Iteration(f, X, base, step, N)
<1> DEFINE P == {n \in 0..N : f[n] \in X}
<1>1. 0 \in P
  OBVIOUS
<1>2. ASSUME NEW n \in 0..N, n # N, n \in P
      PROVE  n + 1 \in P
  <2>1. n + 1 \in 1..N /\ n + 1 \in 0..N /\ (n + 1) - 1 = n
    BY <1>2
  <2>2. f[n + 1] = step[f[n]]
    BY <1>2, <2>1
  <2> QED
    BY <1>2, <2>1, <2>2
<1>3. \A n \in 0..N : n \in P
  <2> HIDE DEF P
  <2> QED
    BY <1>1, <1>2, CountingInduction
<1>4. \A n \in 0..N : f[n] \in X
  BY <1>3
<1>5. f \in [0..N -> X]
  BY <1>4
<1>6. \A n \in 1..N : f[n] = step[f[n - 1]]
  <2> SUFFICES ASSUME NEW n \in 1..N
               PROVE  f[n] = step[f[n - 1]]
    OBVIOUS
  <2>1. n - 1 \in 0..N
    OBVIOUS
  <2> QED
    BY <1>4, <2>1
<1> QED
  BY <1>5, <1>6 DEF Iteration

\* A step that takes nothing away, and one that does not lead out of X.
Grows(step, S) == \A Y \in SUBSET S : Y \subseteq step[Y] /\ step[Y] \subseteq S
Stays(step, S, X) == \A Y \in SUBSET S : Y \subseteq X => step[Y] \subseteq X

\* A set that grows step by step within S has stopped growing after as many
\* steps as S has elements besides those it started with.
LEMMA Saturation ==
  ASSUME NEW S, IsFiniteSet(S), NEW base \in SUBSET S, NEW step, NEW f,
         NEW N \in Nat, Cardinality(S) <= N + Cardinality(base),
         Iteration(f, SUBSET S, base, step, N), Grows(step, S)
  PROVE  base \subseteq f[N] /\ step[f[N]] = f[N]
<1> DEFINE b == Cardinality(base)
           P == {n \in 0..N : base \subseteq f[n] /\ (step[f[n]] = f[n] \/ Cardinality(f[n]) >= n + b)}
<1> /\ f \in [0..N -> SUBSET S] /\ f[0] = base
    /\ \A n \in 1..N : f[n] = step[f[n - 1]]
    /\ \A Y \in SUBSET S : Y \subseteq step[Y] /\ step[Y] \subseteq S
  BY DEF Iteration, Grows
<1>1. \A X \in SUBSET S : IsFiniteSet(X) /\ Cardinality(X) \in Nat
  BY FS_Subset, FS_CardinalityType
<1>2. b \in Nat /\ Cardinality(S) \in Nat
  BY <1>1
<1>3. 0 \in P
  BY <1>2
<1>4. ASSUME NEW n \in 0..N, n # N, n \in P
      PROVE  n + 1 \in P
  <2>1. n + 1 \in 0..N /\ f[n + 1] = step[f[n]] /\ f[n] \in SUBSET S /\ f[n + 1] \in SUBSET S
    BY <1>4
  <2>2. base \subseteq f[n + 1] /\ f[n] \subseteq f[n + 1]
    BY <2>1, <1>4
  <2>3. CASE step[f[n]] = f[n]
    BY <2>1, <2>2, <2>3
  <2>4. CASE step[f[n]] # f[n]
    <3>1. Cardinality(f[n]) >= n + b
      BY <1>4, <2>4
    <3>2. Cardinality(f[n]) <= Cardinality(f[n + 1]) /\ Cardinality(f[n]) # Cardinality(f[n + 1])
      BY <1>1, <2>1, <2>2, <2>4, FS_Subset, SMTT(20)
    <3>3. Cardinality(f[n]) \in Nat /\ Cardinality(f[n + 1]) \in Nat
      BY <1>1, <2>1
    <3>4. Cardinality(f[n + 1]) >= n + 1 + b
      <4> HIDE DEF b
      <4> QED
        BY <1>2, <3>1, <3>2, <3>3
    <3> QED
      BY <2>1, <2>2, <3>4
  <2> QED
    BY <2>3, <2>4
<1>5. N \in P
  <2> HIDE DEF P, b
  <2>1. \A n \in 0..N : n # N /\ n \in P => n + 1 \in P
    BY <1>4
  <2>2. \A n \in 0..N : n \in P
    BY <1>3, <2>1, CountingInduction
  <2> QED
    BY <2>2
<1>6. f[N] \in SUBSET S /\ base \subseteq f[N]
  BY <1>5
<1>7. CASE Cardinality(f[N]) >= N + b
  <2>1. Cardinality(f[N]) >= Cardinality(S)
    BY <1>1, <1>2, <1>6, <1>7
  <2>2. Cardinality(f[N]) <= Cardinality(S) /\ (Cardinality(f[N]) = Cardinality(S) => f[N] = S)
    BY <1>6, FS_Subset
  <2>3. f[N] = S
    BY <1>1, <1>2, <1>6, <2>1, <2>2
  <2> QED
    BY <1>6, <2>3
<1> QED
  BY <1>5, <1>7

\* An iterate is in every set that contains the first and grows no further.
LEMMA LeastSaturation ==
  ASSUME NEW S, NEW base, NEW step, NEW N \in Nat,
         NEW f, Iteration(f, SUBSET S, base, step, N),
         NEW X, base \subseteq X, Stays(step, S, X)
  PROVE  f[N] \subseteq X
<1> /\ f \in [0..N -> SUBSET S] /\ f[0] = base
    /\ \A n \in 1..N : f[n] = step[f[n - 1]]
    /\ \A Y \in SUBSET S : Y \subseteq X => step[Y] \subseteq X
  BY DEF Iteration, Stays
<1> DEFINE P == {n \in 0..N : f[n] \subseteq X}
<1>1. 0 \in P
  OBVIOUS
<1>2. ASSUME NEW n \in 0..N, n # N, n \in P
      PROVE  n + 1 \in P
  <2>1. n + 1 \in 0..N /\ f[n + 1] = step[f[n]] /\ f[n] \in SUBSET S
    BY <1>2
  <2> QED
    BY <1>2, <2>1
<1>3. \A n \in 0..N : n \in P
  <2> HIDE DEF P
  <2> QED
    BY <1>1, <1>2, CountingInduction
<1> QED
  BY <1>3

\* A finite set fits into one that is not smaller.
LEMMA InjectionExists ==
  ASSUME NEW S, IsFiniteSet(S), NEW T, IsFiniteSet(T), Cardinality(S) <= Cardinality(T)
  PROVE  Injection(S, T) # {}
<1> DEFINE m == Cardinality(S)
           n == Cardinality(T)
<1>1. m \in Nat /\ n \in Nat
  BY FS_CardinalityType
<1>2. PICK f : f \in Bijection(1..m, S)
  BY FS_CardinalityType DEF ExistsBijection
<1>3. PICK g : g \in Bijection(1..n, T)
  BY FS_CardinalityType DEF ExistsBijection
<1>4. /\ f \in [1..m -> S] /\ \A s \in S : \E i \in 1..m : f[i] = s
      /\ g \in [1..n -> T] /\ \A i, j \in 1..n : g[i] = g[j] => i = j
  BY <1>2, <1>3 DEF Bijection, Injection, Surjection, IsInjective
<1> DEFINE place(s) == CHOOSE i \in 1..m : f[i] = s
           h == [s \in S |-> g[place(s)]]
<1>5. \A s \in S : place(s) \in 1..m /\ f[place(s)] = s
  BY <1>4
<1> HIDE DEF place
<1>6. \A s \in S : place(s) \in 1..n
  BY <1>1, <1>5
<1>7. h \in [S -> T] /\ \A s, t \in S : h[s] = h[t] => s = t
  BY <1>4, <1>5, <1>6
<1> QED
  BY <1>7 DEF Injection, IsInjective
=============================================================================
