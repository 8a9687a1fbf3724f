-------------------------- MODULE FringeTreeProof --------------------------
(***************************************************************************)
(* Every register of FringeTree holds a tree for the sequence its client   *)
(* built, and views answer from that sequence, for any values, any number  *)
(* of registers and trees of every size and shape.                         *)
(*                                                                         *)
(* What a tree denotes is stated without recursion: a set of pairs of a    *)
(* tree and a sequence is supported if every pair in it is what the class  *)
(* makes of pairs in it.  Any two supported sets have a supported union,   *)
(* so constructors and views are argued about one node at a time.          *)
(* What the functions of FringeTree that look at all parts of a tree read  *)
(* follows: the parts are the levels of the tree down to an empty one, and *)
(* a sequence is the only one that its tree denotes.                       *)
(***************************************************************************)
EXTENDS FringeTree, ProofLemmas

-----------------------------------------------------------------------------
(* Sequences and their ends.                                                *)

\* A part at the end `side`, and what follows it.
Glue(side, near, far) == IF side = "left" THEN near \o far ELSE far \o near

LEMMA ConcatType ==
  ASSUME NEW s \in Seq(Value), NEW q \in Seq(Value)
  PROVE  s \o q \in Seq(Value) /\ Len(s \o q) = Len(s) + Len(q)
OBVIOUS

LEMMA GlueType ==
  ASSUME NEW side, NEW s \in Seq(Value), NEW q \in Seq(Value)
  PROVE  Glue(side, s, q) \in Seq(Value)
BY ConcatType DEF Glue

LEMMA GlueEmpty ==
  ASSUME NEW side, NEW q \in Seq(Value)
  PROVE  Glue(side, <<>>, q) = q
<1>1. <<>> \o q = q /\ q \o <<>> = q
  OBVIOUS
<1> QED
  BY <1>1 DEF Glue

LEMMA GlueAssociative ==
  ASSUME NEW side, NEW s \in Seq(Value), NEW q \in Seq(Value), NEW w \in Seq(Value)
  PROVE  Glue(side, Glue(side, s, q), w) = Glue(side, s, Glue(side, q, w))
<1>1. (s \o q) \o w = s \o (q \o w) /\ w \o (q \o s) = (w \o q) \o s
  BY SMTT(20)
<1> QED
  BY <1>1 DEF Glue

\* Taking an end element off undoes putting it there.
LEMMA LeftEnd ==
  ASSUME NEW v \in Value, NEW s \in Seq(Value)
  PROVE  LET w == <<v>> \o s
         IN  w # <<>> /\ Head(w) = v /\ Tail(w) = s /\ SubSeq(w, 2, Len(w)) = s
OBVIOUS

LEMMA RightEnd ==
  ASSUME NEW v \in Value, NEW s \in Seq(Value)
  PROVE  LET w == s \o <<v>>
         IN  w # <<>> /\ w[Len(w)] = v /\ SubSeq(w, 1, Len(w) - 1) = s
OBVIOUS

LEMMA ShortenedGlue ==
  ASSUME NEW side \in {"left", "right"}, NEW v \in Value, NEW s \in Seq(Value)
  PROVE  Shortened(side, Glue(side, <<v>>, s)) = s
<1>1. CASE side = "left"
  BY <1>1, LeftEnd DEF Shortened, Glue
<1>2. CASE side = "right"
  BY <1>2, RightEnd DEF Shortened, Glue
<1> QED
  BY <1>1, <1>2

-----------------------------------------------------------------------------
(* The levels of a tree.                                                     *)
Levels(f, t, n) == f = [k \in 0..n |-> IF k = 0 THEN {t} ELSE Kids(f[k - 1])]

LEMMA LevelsUpTo ==
  ASSUME NEW f, NEW t, NEW n \in Nat, Levels(f, t, n)
  PROVE  f[0] = {t} /\ \A k \in 1..n : f[k] = Kids(f[k - 1])
BY DEF Levels

LEMMA LevelsExist ==
  ASSUME NEW t, NEW N \in Nat
  PROVE  \E f : Levels(f, t, N)
<1> DEFINE P == {n \in 0..N : \E f : Levels(f, t, n)}
<1>1. 0 \in P
  <2> DEFINE f == [k \in 0..0 |-> {t}]
  <2>1. f = [k \in 0..0 |-> IF k = 0 THEN {t} ELSE Kids(f[k - 1])]
    OBVIOUS
  <2> HIDE DEF f
  <2>2. Levels(f, t, 0)
    BY <2>1 DEF Levels
  <2> QED
    BY <2>2
<1>2. ASSUME NEW n \in 0..N, n # N, n \in P
      PROVE  n + 1 \in P
  <2>1. PICK f : Levels(f, t, n)
    BY <1>2
  <2>2. f[0] = {t} /\ \A k \in 1..n : f[k] = Kids(f[k - 1])
    BY <2>1, LevelsUpTo
  <2> DEFINE g == [k \in 0..n + 1 |-> IF k = n + 1 THEN Kids(f[n]) ELSE f[k]]
  <2>3. ASSUME NEW k \in 0..n + 1
        PROVE  g[k] = IF k = 0 THEN {t} ELSE Kids(g[k - 1])
    <3>1. CASE k = 0
      BY <2>2, <3>1
    <3>2. CASE k # 0
      <4>1. k - 1 \in 0..n /\ g[k - 1] = f[k - 1]
        BY <3>2
      <4>2. CASE k = n + 1
        BY <3>2, <4>1, <4>2
      <4>3. CASE k # n + 1
        BY <2>2, <3>2, <4>1, <4>3
      <4> QED
        BY <4>2, <4>3
    <3> QED
      BY <3>1, <3>2
  <2>4. g = [k \in 0..n + 1 |-> g[k]]
    OBVIOUS
  <2> HIDE DEF g
  <2>5. Levels(g, t, n + 1)
    BY <2>3, <2>4 DEF Levels
  <2>6. n + 1 \in 0..N
    BY <1>2
  <2> QED
    BY <2>5, <2>6
<1>3. N \in P
  <2> HIDE DEF P
  <2> QED
    BY <1>1, <1>2, CountingInduction
<1> QED
  BY <1>3

LEMMA LevelsAgree ==
  ASSUME NEW t, NEW m \in Nat, NEW n \in Nat, m <= n,
         NEW f, NEW g, Levels(f, t, m), Levels(g, t, n)
  PROVE  \A k \in 0..m : f[k] = g[k]
<1> DEFINE P == {k \in 0..m : f[k] = g[k]}
<1>1. /\ f[0] = {t} /\ \A k \in 1..m : f[k] = Kids(f[k - 1])
      /\ g[0] = {t} /\ \A k \in 1..n : g[k] = Kids(g[k - 1])
  BY LevelsUpTo
<1>2. 0 \in P
  BY <1>1
<1>3. ASSUME NEW k \in 0..m, k # m, k \in P
      PROVE  k + 1 \in P
  <2>1. k + 1 \in 1..m /\ k + 1 \in 1..n /\ k + 1 \in 0..m /\ (k + 1) - 1 = k
    BY <1>3
  <2>2. f[k] = g[k]
    BY <1>3
  <2>3. f[k + 1] = Kids(f[k]) /\ g[k + 1] = Kids(g[k])
    BY <1>1, <2>1
  <2> QED
    BY <2>1, <2>2, <2>3
<1>4. \A k \in 0..m : k \in P
  <2> HIDE DEF P
  <2> QED
    BY <1>2, <1>3, CountingInduction
<1> QED
  BY <1>4

LEMMA LevelRead ==
  ASSUME NEW t, NEW n \in Nat, NEW f, Levels(f, t, n)
  PROVE  \A k \in 0..n : Level(t, k) = f[k]
<1> SUFFICES ASSUME NEW k \in 0..n
             PROVE  Level(t, k) = f[k]
  OBVIOUS
<1> DEFINE g == CHOOSE h : h = [i \in 0..k |-> IF i = 0 THEN {t} ELSE Kids(h[i - 1])]
<1>1. Level(t, k) = g[k]
  BY DEF Level
<1>2. \E h : h = [i \in 0..k |-> IF i = 0 THEN {t} ELSE Kids(h[i - 1])]
  <2>1. \E h : Levels(h, t, k)
    BY LevelsExist
  <2> QED
    BY <2>1 DEF Levels
<1>3. g = [i \in 0..k |-> IF i = 0 THEN {t} ELSE Kids(g[i - 1])]
  BY <1>2
<1> HIDE DEF g
<1>4. Levels(g, t, k)
  BY <1>3 DEF Levels
<1>5. k \in Nat /\ k <= n /\ k \in 0..k
  OBVIOUS
<1>6. g[k] = f[k]
  BY <1>4, <1>5, LevelsAgree
<1> QED
  BY <1>1, <1>6

LEMMA LevelSteps ==
  ASSUME NEW t, NEW n \in Nat
  PROVE  Level(t, 0) = {t} /\ Level(t, n + 1) = Kids(Level(t, n))
<1>1. PICK f : Levels(f, t, n + 1)
  BY LevelsExist
<1>2. n \in 0..n + 1 /\ n + 1 \in 0..n + 1 /\ 0 \in 0..n + 1 /\ n + 1 \in 1..n + 1 /\ (n + 1) - 1 = n
      /\ n + 1 \in Nat
  OBVIOUS
<1>3. f[0] = {t} /\ f[n + 1] = Kids(f[n])
  BY <1>1, <1>2, LevelsUpTo
<1>4. Level(t, 0) = f[0] /\ Level(t, n) = f[n] /\ Level(t, n + 1) = f[n + 1]
  BY <1>1, <1>2, LevelRead
<1> QED
  BY <1>3, <1>4

\* Below its root a branch has the levels of its children, one link higher.
LEMMA LevelBelow ==
  ASSUME NEW t, IsBranch(t), NEW N \in Nat
  PROVE  Level(t, N + 1) = Level(t.left, N) \cup Level(t.right, N)
<1> DEFINE P == {n \in 0..N : Level(t, n + 1) = Level(t.left, n) \cup Level(t.right, n)}
<1>1. \A u : Level(u, 0) = {u}
  BY LevelSteps
<1>2. \A u, n : n \in Nat => Level(u, n + 1) = Kids(Level(u, n))
  BY LevelSteps
<1>3. 0 \in P
  <2>1. Level(t, 0 + 1) = Kids({t})
    BY <1>1, <1>2
  <2>2. Kids({t}) = {t.left} \cup {t.right}
    BY DEF Kids
  <2>3. Level(t.left, 0) = {t.left} /\ Level(t.right, 0) = {t.right}
    BY <1>1
  <2>4. Level(t, 0 + 1) = Level(t.left, 0) \cup Level(t.right, 0)
    BY <2>1, <2>2, <2>3
  <2> QED
    BY <2>4
<1>4. ASSUME NEW n \in 0..N, n # N, n \in P
      PROVE  n + 1 \in P
  <2>1. n + 1 \in 0..N /\ n \in Nat /\ n + 1 \in Nat
    BY <1>4
  <2>2. Level(t, n + 1) = Level(t.left, n) \cup Level(t.right, n)
    BY <1>4
  <2>3. /\ Level(t, n + 1 + 1) = Kids(Level(t, n + 1))
        /\ Level(t.left, n + 1) = Kids(Level(t.left, n))
        /\ Level(t.right, n + 1) = Kids(Level(t.right, n))
    BY <1>2, <2>1
  <2>4. \A A, B : Kids(A \cup B) = Kids(A) \cup Kids(B)
    BY DEF Kids
  <2>5. Level(t, n + 1 + 1) = Level(t.left, n + 1) \cup Level(t.right, n + 1)
    BY <2>2, <2>3, <2>4
  <2> QED
    BY <2>1, <2>5
<1>5. N \in P
  <2> HIDE DEF P
  <2> QED
    BY <1>3, <1>4, CountingInduction
<1> QED
  BY <1>5

\* Below an empty level there is nothing.
LEMMA LevelsStayEmpty ==
  ASSUME NEW t, NEW d \in Nat, Level(t, d) = {}
  PROVE  \A n \in Nat : n >= d => Level(t, n) = {}
<1> SUFFICES ASSUME NEW n \in Nat, n >= d
             PROVE  Level(t, n) = {}
  OBVIOUS
<1> DEFINE P == {k \in 0..n - d : Level(t, d + k) = {}}
<1>1. n - d \in Nat /\ d + (n - d) = n
  OBVIOUS
<1>2. 0 \in P
  BY <1>1
<1>3. ASSUME NEW k \in 0..n - d, k # n - d, k \in P
      PROVE  k + 1 \in P
  <2>1. k + 1 \in 0..n - d /\ d + k \in Nat /\ d + (k + 1) = (d + k) + 1
    BY <1>3
  <2>2. Level(t, d + (k + 1)) = Kids({})
    BY <1>3, <2>1, LevelSteps
  <2> QED
    BY <2>1, <2>2 DEF Kids
<1>4. \A k \in 0..n - d : k \in P
  <2> HIDE DEF P
  <2> QED
    BY <1>1, <1>2, <1>3, CountingInduction
<1> QED
  BY <1>1, <1>4

\* t has no parts below some depth.
Finite(t) == \E d \in Nat : Level(t, d) = {}

LEMMA AtomFinite ==
  ASSUME NEW t, ~IsBranch(t)
  PROVE  Finite(t)
<1>1. Level(t, 0 + 1) = Kids({t})
  BY LevelSteps
<1>2. Kids({t}) = {}
  BY DEF Kids
<1> QED
  BY <1>1, <1>2 DEF Finite

LEMMA BranchFinite ==
  ASSUME NEW t, IsBranch(t), Finite(t.left), Finite(t.right)
  PROVE  Finite(t)
<1>1. PICK a \in Nat : Level(t.left, a) = {}
  BY DEF Finite
<1>2. PICK b \in Nat : Level(t.right, b) = {}
  BY DEF Finite
<1>3. PICK d \in Nat : d >= a /\ d >= b
  <2>1. a + b \in Nat /\ a + b >= a /\ a + b >= b
    OBVIOUS
  <2> QED
    BY <2>1
<1>4. Level(t.left, d) = {} /\ Level(t.right, d) = {}
  BY <1>1, <1>2, <1>3, LevelsStayEmpty
<1>5. Level(t, d + 1) = {}
  BY <1>4, LevelBelow
<1> QED
  BY <1>5 DEF Finite

-----------------------------------------------------------------------------
(* The parts of a tree.                                                      *)

\* What the recursion over Nat in Nodes is a solution of.
Gathers(f, t) ==
  f = [n \in Nat |-> IF Level(t, n) = {} THEN {} ELSE Level(t, n) \cup f[n + 1]]

LEMMA GatherAt ==
  ASSUME NEW f, NEW t, Gathers(f, t), NEW n \in Nat
  PROVE  /\ Level(t, n) = {} => f[n] = {}
         /\ Level(t, n) # {} => f[n] = Level(t, n) \cup f[n + 1]
BY DEF Gathers

LEMMA GatherExists ==
  ASSUME NEW t, Finite(t)
  PROVE  \E f : Gathers(f, t)
<1> DEFINE f == [n \in Nat |-> UNION {Level(t, k) : k \in {j \in Nat : j >= n}}]
<1>1. ASSUME NEW n \in Nat
      PROVE  f[n] = IF Level(t, n) = {} THEN {} ELSE Level(t, n) \cup f[n + 1]
  <2>1. n + 1 \in Nat /\ f[n + 1] = UNION {Level(t, k) : k \in {j \in Nat : j >= n + 1}}
    OBVIOUS
  <2>2. f[n] = UNION {Level(t, k) : k \in {j \in Nat : j >= n}}
    OBVIOUS
  <2>3. CASE Level(t, n) = {}
    <3>1. \A k \in {j \in Nat : j >= n} : Level(t, k) = {}
      BY <2>3, LevelsStayEmpty
    <3> QED
      BY <2>2, <2>3, <3>1
  <2>4. CASE Level(t, n) # {}
    <3>1. {j \in Nat : j >= n} = {n} \cup {j \in Nat : j >= n + 1}
      OBVIOUS
    <3>2. UNION {Level(t, k) : k \in {n} \cup {j \in Nat : j >= n + 1}}
            = Level(t, n) \cup UNION {Level(t, k) : k \in {j \in Nat : j >= n + 1}}
      OBVIOUS
    <3> QED
      BY <2>1, <2>2, <2>4, <3>1, <3>2
  <2> QED
    BY <2>3, <2>4
<1>2. f = [n \in Nat |-> f[n]]
  OBVIOUS
<1> HIDE DEF f
<1>3. Gathers(f, t)
  BY <1>1, <1>2 DEF Gathers
<1> QED
  BY <1>3

\* The parts gathered are those of all levels.
LEMMA Gathered ==
  ASSUME NEW f, NEW t, Gathers(f, t), NEW d \in Nat, Level(t, d) = {}
  PROVE  \A u : u \in f[0] <=> \E k \in Nat : u \in Level(t, k)
<1>1. ASSUME NEW u, NEW k \in Nat, u \in Level(t, k)
      PROVE  u \in f[0]
  <2> DEFINE P == {j \in 0..k : u \in f[k - j]}
  <2>1. ASSUME NEW j \in 0..k
        PROVE  Level(t, k - j) # {}
    <3>1. k - j \in Nat /\ k >= k - j
      OBVIOUS
    <3> QED
      BY <1>1, <3>1, LevelsStayEmpty
  <2>2. 0 \in P
    <3>1. Level(t, k) # {}
      BY <1>1
    <3>2. f[k] = Level(t, k) \cup f[k + 1]
      BY <3>1, GatherAt
    <3>3. k - 0 = k /\ 0 \in 0..k
      OBVIOUS
    <3> QED
      BY <1>1, <3>2, <3>3
  <2>3. ASSUME NEW j \in 0..k, j # k, j \in P
        PROVE  j + 1 \in P
    <3>1. j + 1 \in 0..k /\ k - (j + 1) \in Nat /\ (k - (j + 1)) + 1 = k - j
      BY <2>3
    <3>2. Level(t, k - (j + 1)) # {}
      BY <2>1, <3>1
    <3>3. f[k - (j + 1)] = Level(t, k - (j + 1)) \cup f[(k - (j + 1)) + 1]
      BY <3>1, <3>2, GatherAt
    <3> QED
      BY <2>3, <3>1, <3>3
  <2>4. \A j \in 0..k : j \in P
    <3> HIDE DEF P
    <3> QED
      BY <2>2, <2>3, CountingInduction
  <2>5. k \in P /\ k - k = 0
    BY <2>4
  <2> QED
    BY <2>5
<1>2. ASSUME NEW u, u \in f[0]
      PROVE  \E k \in Nat : u \in Level(t, k)
  <2>1. SUFFICES ASSUME \A k \in Nat : u \notin Level(t, k)
                 PROVE  FALSE
    OBVIOUS
  <2> DEFINE P == {k \in 0..d : u \in f[k]}
  <2>2. 0 \in P
    BY <1>2
  <2>3. ASSUME NEW k \in 0..d, k # d, k \in P
        PROVE  k + 1 \in P
    <3>1. k \in Nat /\ k + 1 \in 0..d /\ u \in f[k]
      BY <2>3
    <3>2. Level(t, k) # {}
      BY <3>1, GatherAt
    <3>3. f[k] = Level(t, k) \cup f[k + 1]
      BY <3>1, <3>2, GatherAt
    <3>4. u \in f[k + 1]
      BY <2>1, <3>1, <3>3
    <3> QED
      BY <3>1, <3>4
  <2>4. \A k \in 0..d : k \in P
    <3> HIDE DEF P
    <3> QED
      BY <2>2, <2>3, CountingInduction
  <2>5. u \in f[d]
    BY <2>4
  <2> QED
    BY <2>5, GatherAt
<1> QED
  BY <1>1, <1>2

LEMMA NodesAreLevels ==
  ASSUME NEW t, Finite(t)
  PROVE  \A u : u \in Nodes(t) <=> \E k \in Nat : u \in Level(t, k)
<1>1. PICK d \in Nat : Level(t, d) = {}
  BY DEF Finite
<1> DEFINE g == CHOOSE f : f = [n \in Nat |-> IF Level(t, n) = {} THEN {}
                                             ELSE Level(t, n) \cup f[n + 1]]
<1>2. Nodes(t) = g[0]
  BY DEF Nodes
<1>3. \E f : f = [n \in Nat |-> IF Level(t, n) = {} THEN {} ELSE Level(t, n) \cup f[n + 1]]
  <2>1. \E f : Gathers(f, t)
    BY GatherExists
  <2> QED
    BY <2>1 DEF Gathers
<1>4. g = [n \in Nat |-> IF Level(t, n) = {} THEN {} ELSE Level(t, n) \cup g[n + 1]]
  BY <1>3
<1> HIDE DEF g
<1>5. Gathers(g, t)
  BY <1>4 DEF Gathers
<1> QED
  BY <1>1, <1>2, <1>5, Gathered

\* The parts of a finite tree are the least set that has it and, with a
\* branch, its children.
LEMMA NodesClosed ==
  ASSUME NEW t, Finite(t)
  PROVE  /\ t \in Nodes(t)
         /\ \A u \in Nodes(t) : IsBranch(u) => u.left \in Nodes(t) /\ u.right \in Nodes(t)
<1>1. t \in Level(t, 0)
  BY LevelSteps
<1>2. ASSUME NEW u \in Nodes(t), IsBranch(u)
      PROVE  u.left \in Nodes(t) /\ u.right \in Nodes(t)
  <2>1. PICK k \in Nat : u \in Level(t, k)
    BY NodesAreLevels
  <2>2. Level(t, k + 1) = Kids(Level(t, k)) /\ k + 1 \in Nat
    BY LevelSteps
  <2>3. u.left \in Level(t, k + 1) /\ u.right \in Level(t, k + 1)
    BY <1>2, <2>1, <2>2 DEF Kids
  <2> QED
    BY <2>2, <2>3, NodesAreLevels
<1> QED
  BY <1>1, <1>2, NodesAreLevels

LEMMA NodesLeast ==
  ASSUME NEW t, Finite(t), NEW C, t \in C,
         \A u \in C : IsBranch(u) => u.left \in C /\ u.right \in C
  PROVE  Nodes(t) \subseteq C
<1> SUFFICES ASSUME NEW N \in Nat
             PROVE  Level(t, N) \subseteq C
  BY NodesAreLevels
<1> DEFINE P == {n \in 0..N : Level(t, n) \subseteq C}
<1>1. 0 \in P
  BY LevelSteps
<1>2. ASSUME NEW n \in 0..N, n # N, n \in P
      PROVE  n + 1 \in P
  <2>1. n \in Nat /\ n + 1 \in 0..N /\ Level(t, n) \subseteq C
    BY <1>2
  <2>2. Level(t, n + 1) = Kids(Level(t, n))
    BY <2>1, LevelSteps
  <2> QED
    BY <2>1, <2>2 DEF Kids
<1>3. N \in P
  <2> HIDE DEF P
  <2> QED
    BY <1>1, <1>2, CountingInduction
<1> QED
  BY <1>3

-----------------------------------------------------------------------------
(* Trees and the sequences they denote.                                     *)

\* F satisfies the equations of flatten on trees with all their parts.
IsFlatten(F) ==
  \A t \in DOMAIN F :
    /\ IsEmpty(t) => F[t] = <<>>
    /\ IsLeaf(t) => F[t] = <<t.value>>
    /\ IsBranch(t) => t.left \in DOMAIN F /\ t.right \in DOMAIN F
                      /\ F[t] = F[t.left] \o F[t.right]

\* Whatever satisfies them gives s for t.
Flattens(t, s) == \A F : IsFlatten(F) /\ t \in DOMAIN F => F[t] = s

\* Pair <<t, s>> is a constructor's, with the operands' pairs in R.
Made(t, s, R) ==
  \/ t = Empty /\ s = <<>>
  \/ \E v \in Value : t = Leaf(v) /\ s = <<v>>
  \/ \E l, r, u, w : /\ <<l, u>> \in R /\ <<r, w>> \in R
                     /\ t = Branch(l, r) /\ s = u \o w

Supported(R) ==
  \A p \in R : /\ Made(p[1], p[2], R)
               /\ p[2] \in Seq(Value)
               /\ Measure(p[1]) = Len(p[2])
               /\ Flattens(p[1], p[2])
               /\ Finite(p[1])

\* Tree t, cached counts included, is one for sequence s.
Denotes(t, s) == \E R : <<t, s>> \in R /\ Supported(R)

LEMMA DenotesFacts ==
  ASSUME NEW t, NEW s, Denotes(t, s)
  PROVE  s \in Seq(Value) /\ Measure(t) = Len(s) /\ Flattens(t, s) /\ Finite(t)
BY DEF Denotes, Supported

LEMMA KindsDiffer ==
  /\ IsEmpty(Empty) /\ ~IsLeaf(Empty) /\ ~IsBranch(Empty)
  /\ \A v : ~IsEmpty(Leaf(v)) /\ IsLeaf(Leaf(v)) /\ ~IsBranch(Leaf(v)) /\ Leaf(v).value = v
  /\ \A l, r : LET t == Branch(l, r)
               IN  /\ ~IsEmpty(t) /\ ~IsLeaf(t) /\ IsBranch(t)
                   /\ t.left = l /\ t.right = r /\ Measure(t) = Measure(l) + Measure(r)
BY DEF IsEmpty, IsLeaf, IsBranch, Empty, Leaf, Branch, Measure

\* A tree denotes something only as one of the three alternatives.
LEMMA DenotesInverted ==
  ASSUME NEW t, NEW s, Denotes(t, s)
  PROVE  \/ t = Empty /\ s = <<>>
         \/ \E v \in Value : t = Leaf(v) /\ s = <<v>>
         \/ \E l, r, u, w : /\ Denotes(l, u) /\ Denotes(r, w)
                            /\ t = Branch(l, r) /\ s = u \o w
<1>1. PICK R : <<t, s>> \in R /\ Supported(R)
  BY DEF Denotes
<1>2. Made(t, s, R)
  BY <1>1 DEF Supported
<1>3. \A l, u : <<l, u>> \in R => Denotes(l, u)
  BY <1>1 DEF Denotes
<1> QED
  BY <1>2, <1>3 DEF Made

\* s is what the children of t denote.
Splits(t, s) == \E u, w : Denotes(t.left, u) /\ Denotes(t.right, w) /\ s = u \o w

LEMMA BranchInverted ==
  ASSUME NEW t, NEW s, Denotes(t, s), IsBranch(t)
  PROVE  Splits(t, s)
<1>1. PICK l, r, u, w : Denotes(l, u) /\ Denotes(r, w) /\ t = Branch(l, r) /\ s = u \o w
  BY DenotesInverted, KindsDiffer
<1>2. t.left = l /\ t.right = r
  BY <1>1, KindsDiffer
<1> QED
  BY <1>1, <1>2 DEF Splits

\* Support is closed under union and under what the union makes.
LEMMA SupportedUnion ==
  ASSUME NEW R, NEW Q, Supported(R), Supported(Q), NEW t, NEW s,
         Made(t, s, R \cup Q), s \in Seq(Value), Measure(t) = Len(s), Flattens(t, s),
         Finite(t)
  PROVE  Denotes(t, s)
<1> DEFINE U == R \cup Q \cup {<<t, s>>}
<1>1. ASSUME NEW a, NEW b, NEW X, NEW Y, X \subseteq Y, Made(a, b, X)
      PROVE  Made(a, b, Y)
  BY <1>1, Zenon DEF Made
<1>2. R \subseteq U /\ Q \subseteq U /\ R \cup Q \subseteq U
  OBVIOUS
<1>3. ASSUME NEW p \in U
      PROVE  /\ Made(p[1], p[2], U)
             /\ p[2] \in Seq(Value)
             /\ Measure(p[1]) = Len(p[2])
             /\ Flattens(p[1], p[2])
             /\ Finite(p[1])
  <2>1. CASE p \in R
    BY <1>1, <1>2, <2>1 DEF Supported
  <2>2. CASE p \in Q
    BY <1>1, <1>2, <2>2 DEF Supported
  <2>3. CASE p = <<t, s>>
    BY <1>1, <1>2, <2>3
  <2> QED
    BY <2>1, <2>2, <2>3
<1>4. Supported(U)
  BY <1>3 DEF Supported
<1>5. <<t, s>> \in U
  OBVIOUS
<1> QED
  BY <1>4, <1>5 DEF Denotes

LEMMA SupportedEmpty == Supported({})
BY DEF Supported

LEMMA EmptyDenotes == Denotes(Empty, <<>>)
<1>1. Made(Empty, <<>>, {} \cup {})
  BY DEF Made
<1>2. <<>> \in Seq(Value) /\ Len(<<>>) = 0
  OBVIOUS
<1>3. Measure(Empty) = 0
  BY DEF Measure, IsEmpty, Empty
<1>4. Flattens(Empty, <<>>)
  BY KindsDiffer DEF Flattens, IsFlatten
<1>5. Finite(Empty)
  BY KindsDiffer, AtomFinite
<1> QED
  BY <1>1, <1>2, <1>3, <1>4, <1>5, SupportedEmpty, SupportedUnion

LEMMA LeafDenotes ==
  ASSUME NEW v \in Value
  PROVE  Denotes(Leaf(v), <<v>>)
<1>1. Made(Leaf(v), <<v>>, {} \cup {})
  BY DEF Made
<1>2. <<v>> \in Seq(Value) /\ Len(<<v>>) = 1
  OBVIOUS
<1>3. Measure(Leaf(v)) = 1
  BY DEF Measure, IsEmpty, IsLeaf, Leaf
<1>4. Flattens(Leaf(v), <<v>>)
  BY KindsDiffer DEF Flattens, IsFlatten
<1>5. Finite(Leaf(v))
  BY KindsDiffer, AtomFinite
<1> QED
  BY <1>1, <1>2, <1>3, <1>4, <1>5, SupportedEmpty, SupportedUnion

LEMMA BranchDenotes ==
  ASSUME NEW l, NEW r, NEW u, NEW w, Denotes(l, u), Denotes(r, w)
  PROVE  Denotes(Branch(l, r), u \o w)
<1>1. PICK R : <<l, u>> \in R /\ Supported(R)
  BY DEF Denotes
<1>2. PICK Q : <<r, w>> \in Q /\ Supported(Q)
  BY DEF Denotes
<1>3. Made(Branch(l, r), u \o w, R \cup Q)
  BY <1>1, <1>2 DEF Made
<1>4. u \in Seq(Value) /\ w \in Seq(Value) /\ Measure(l) = Len(u) /\ Measure(r) = Len(w)
      /\ Flattens(l, u) /\ Flattens(r, w) /\ Finite(l) /\ Finite(r)
  BY DenotesFacts
<1>5. u \o w \in Seq(Value) /\ Measure(Branch(l, r)) = Len(u \o w)
  BY <1>4, KindsDiffer, ConcatType
<1>6. PICK t : t = Branch(l, r) /\ IsBranch(t) /\ t.left = l /\ t.right = r
  BY KindsDiffer
<1>7. Flattens(t, u \o w)
  <2>1. SUFFICES ASSUME NEW F, IsFlatten(F), t \in DOMAIN F
                 PROVE  F[t] = u \o w
    BY DEF Flattens
  <2>2. l \in DOMAIN F /\ r \in DOMAIN F /\ F[t] = F[l] \o F[r]
    BY <1>6, <2>1 DEF IsFlatten
  <2>3. F[l] = u /\ F[r] = w
    BY <1>4, <2>1, <2>2 DEF Flattens
  <2> QED
    BY <2>2, <2>3
<1>8. Finite(t)
  BY <1>4, <1>6, BranchFinite
<1> QED
  BY <1>1, <1>2, <1>3, <1>5, <1>6, <1>7, <1>8, SupportedUnion

LEMMA JoinDenotes ==
  ASSUME NEW l, NEW r, NEW u, NEW w, Denotes(l, u), Denotes(r, w)
  PROVE  Denotes(Join(l, r), u \o w)
<1>1. u \in Seq(Value) /\ w \in Seq(Value) /\ Flattens(l, u) /\ Flattens(r, w)
  BY DenotesFacts
<1>2. CASE IsEmpty(l)
  <2>1. u = <<>>
    BY <1>2, DenotesInverted, KindsDiffer
  <2>2. u \o w = w
    BY <1>1, <2>1
  <2> QED
    BY <1>2, <2>2 DEF Join
<1>3. CASE ~IsEmpty(l) /\ IsEmpty(r)
  <2>1. w = <<>>
    BY <1>3, DenotesInverted, KindsDiffer
  <2>2. u \o w = u
    BY <1>1, <2>1
  <2> QED
    BY <1>3, <2>2 DEF Join
<1>4. CASE ~IsEmpty(l) /\ ~IsEmpty(r)
  BY <1>4, BranchDenotes DEF Join
<1> QED
  BY <1>2, <1>3, <1>4

-----------------------------------------------------------------------------
(* What flatten reads.  Every part of a tree that denotes something denotes  *)
(* one sequence, so that flatten's recursion over the parts has a solution.  *)

LEMMA PartsDenote ==
  ASSUME NEW t, NEW s, Denotes(t, s)
  PROVE  \A u \in Nodes(t) : \E w : Denotes(u, w)
<1> DEFINE C == {u \in Nodes(t) : \E w : Denotes(u, w)}
<1>1. Finite(t)
  BY DenotesFacts
<1>2. t \in C
  BY <1>1, NodesClosed
<1>3. ASSUME NEW u \in C, IsBranch(u)
      PROVE  u.left \in C /\ u.right \in C
  <2>1. u.left \in Nodes(t) /\ u.right \in Nodes(t)
    BY <1>1, <1>3, NodesClosed
  <2>2. PICK w : Denotes(u, w)
    OBVIOUS
  <2>3. (\E a : Denotes(u.left, a)) /\ (\E a : Denotes(u.right, a))
    BY <1>3, <2>2, BranchInverted DEF Splits
  <2> QED
    BY <2>1, <2>3
<1>4. Nodes(t) \subseteq C
  <2> HIDE DEF C
  <2> QED
    BY <1>1, <1>2, <1>3, NodesLeast
<1> QED
  BY <1>4

\* Tree u denotes one sequence at most.
Only(u) == \A w, x : Denotes(u, w) /\ Denotes(u, x) => w = x

LEMMA OnlyStep ==
  ASSUME NEW u, IsBranch(u) => Only(u.left) /\ Only(u.right)
  PROVE  Only(u)
<1> SUFFICES ASSUME NEW w, NEW x, Denotes(u, w), Denotes(u, x)
             PROVE  w = x
  BY DEF Only
<1>1. CASE ~IsBranch(u)
  <2>1. \/ u = Empty /\ w = <<>>
        \/ \E v \in Value : u = Leaf(v) /\ w = <<v>>
    BY <1>1, DenotesInverted, KindsDiffer
  <2>2. \/ u = Empty /\ x = <<>>
        \/ \E v \in Value : u = Leaf(v) /\ x = <<v>>
    BY <1>1, DenotesInverted, KindsDiffer
  <2> QED
    BY <2>1, <2>2, KindsDiffer
<1>2. CASE IsBranch(u)
  <2>1. Splits(u, w) /\ Splits(u, x)
    BY <1>2, BranchInverted
  <2>2. PICK a, b : Denotes(u.left, a) /\ Denotes(u.right, b) /\ w = a \o b
    BY <2>1 DEF Splits
  <2>3. PICK c, d : Denotes(u.left, c) /\ Denotes(u.right, d) /\ x = c \o d
    BY <2>1 DEF Splits
  <2>4. a = c /\ b = d
    BY <1>2, <2>2, <2>3 DEF Only
  <2> QED
    BY <2>2, <2>3, <2>4
<1> QED
  BY <1>1, <1>2

\* From the lowest level up.
LEMMA OnlyOnLevels ==
  ASSUME NEW t, NEW d \in Nat, Level(t, d) = {}
  PROVE  \A u \in Level(t, 0) : Only(u)
<1> DEFINE P == {j \in 0..d : \A u \in Level(t, d - j) : Only(u)}
<1>1. 0 \in P
  <2>1. d - 0 = d /\ 0 \in 0..d
    OBVIOUS
  <2> QED
    BY <2>1
<1>2. ASSUME NEW j \in 0..d, j # d, j \in P
      PROVE  j + 1 \in P
  <2> DEFINE k == d - (j + 1)
  <2>1. j + 1 \in 0..d /\ k \in Nat /\ k + 1 = d - j
    BY <1>2
  <2>2. \A u \in Level(t, k + 1) : Only(u)
    BY <1>2, <2>1
  <2>3. Level(t, k + 1) = Kids(Level(t, k))
    BY <2>1, LevelSteps
  <2> HIDE DEF k
  <2>4. ASSUME NEW u \in Level(t, k)
        PROVE  Only(u)
    <3>1. IsBranch(u) => u.left \in Level(t, k + 1) /\ u.right \in Level(t, k + 1)
      BY <2>3 DEF Kids
    <3>2. IsBranch(u) => Only(u.left) /\ Only(u.right)
      BY <2>2, <3>1
    <3> QED
      BY <3>2, OnlyStep
  <2> QED
    BY <2>1, <2>4 DEF k
<1>3. \A j \in 0..d : j \in P
  <2> HIDE DEF P
  <2> QED
    BY <1>1, <1>2, CountingInduction
<1>4. d \in P /\ d - d = 0
  BY <1>3
<1> QED
  BY <1>4

LEMMA DenotesOnly ==
  ASSUME NEW t, NEW s, Denotes(t, s)
  PROVE  Only(t)
<1>1. PICK d \in Nat : Level(t, d) = {}
  BY DenotesFacts DEF Finite
<1>2. t \in Level(t, 0)
  BY LevelSteps
<1> QED
  BY <1>1, <1>2, OnlyOnLevels

\* A solution of flatten's equations on the parts of t.
Solves(f, t) ==
  f = [u \in Nodes(t) |-> IF IsEmpty(u) THEN <<>>
                          ELSE IF IsLeaf(u) THEN <<u.value>>
                          ELSE f[u.left] \o f[u.right]]

LEMMA FlattenSolved ==
  ASSUME NEW t, NEW s, Denotes(t, s)
  PROVE  \E f : Solves(f, t)
<1> DEFINE f == [u \in Nodes(t) |-> CHOOSE w : Denotes(u, w)]
<1>1. Finite(t)
  BY DenotesFacts
<1>2. ASSUME NEW u \in Nodes(t), NEW w, Denotes(u, w)
      PROVE  f[u] = w
  <2>1. Only(u)
    BY <1>2, DenotesOnly
  <2>2. Denotes(u, f[u])
    BY <1>2
  <2> QED
    BY <1>2, <2>1, <2>2 DEF Only
<1>3. f = [u \in Nodes(t) |-> f[u]]
  OBVIOUS
<1> HIDE DEF f
<1>4. ASSUME NEW u \in Nodes(t)
      PROVE  f[u] = IF IsEmpty(u) THEN <<>>
                    ELSE IF IsLeaf(u) THEN <<u.value>>
                    ELSE f[u.left] \o f[u.right]
  <2>1. PICK w : Denotes(u, w)
    BY PartsDenote
  <2>2. f[u] = w
    BY <1>2, <2>1
  <2>3. CASE ~IsBranch(u)
    <3>1. \/ u = Empty /\ w = <<>>
          \/ \E v \in Value : u = Leaf(v) /\ w = <<v>>
      BY <2>1, <2>3, DenotesInverted, KindsDiffer
    <3> QED
      BY <2>2, <3>1, KindsDiffer
  <2>4. CASE IsBranch(u)
    <3>1. Splits(u, w)
      BY <2>1, <2>4, BranchInverted
    <3>2. PICK a, b : Denotes(u.left, a) /\ Denotes(u.right, b) /\ w = a \o b
      BY <3>1 DEF Splits
    <3>3. f[u.left] = a /\ f[u.right] = b
      BY <1>1, <1>2, <2>4, <3>2, NodesClosed
    <3>4. ~IsEmpty(u) /\ ~IsLeaf(u)
      BY <2>4 DEF IsBranch, IsEmpty, IsLeaf
    <3> QED
      BY <2>2, <3>2, <3>3, <3>4
  <2> QED
    BY <2>3, <2>4
<1>5. Solves(f, t)
  BY <1>3, <1>4 DEF Solves
<1> QED
  BY <1>5

LEMMA FlattenReads ==
  ASSUME NEW t, NEW s, Denotes(t, s)
  PROVE  Flatten(t) = s
<1> DEFINE g == CHOOSE f : f = [u \in Nodes(t) |-> IF IsEmpty(u) THEN <<>>
                                                   ELSE IF IsLeaf(u) THEN <<u.value>>
                                                   ELSE f[u.left] \o f[u.right]]
<1>1. Flatten(t) = g[t]
  BY DEF Flatten
<1>2. \E f : f = [u \in Nodes(t) |-> IF IsEmpty(u) THEN <<>>
                                      ELSE IF IsLeaf(u) THEN <<u.value>>
                                      ELSE f[u.left] \o f[u.right]]
  <2>1. \E f : Solves(f, t)
    BY FlattenSolved
  <2> QED
    BY <2>1, Zenon DEF Solves
<1>3. g = [u \in Nodes(t) |-> IF IsEmpty(u) THEN <<>>
                              ELSE IF IsLeaf(u) THEN <<u.value>>
                              ELSE g[u.left] \o g[u.right]]
  BY <1>2, Zenon
<1> HIDE DEF g
<1>4. Finite(t) /\ Flattens(t, s)
  BY DenotesFacts
<1>5. DOMAIN g = Nodes(t) /\ t \in DOMAIN g
  BY <1>3, <1>4, NodesClosed
<1>6. ASSUME NEW u \in Nodes(t)
      PROVE  g[u] = IF IsEmpty(u) THEN <<>>
                    ELSE IF IsLeaf(u) THEN <<u.value>>
                    ELSE g[u.left] \o g[u.right]
  BY <1>3
<1>7. ASSUME NEW u \in DOMAIN g
      PROVE  /\ IsEmpty(u) => g[u] = <<>>
             /\ IsLeaf(u) => g[u] = <<u.value>>
             /\ IsBranch(u) => /\ u.left \in DOMAIN g /\ u.right \in DOMAIN g
                               /\ g[u] = g[u.left] \o g[u.right]
  <2>1. u \in Nodes(t)
    BY <1>5
  <2>2. IsBranch(u) => u.left \in DOMAIN g /\ u.right \in DOMAIN g
    BY <1>4, <1>5, <2>1, NodesClosed
  <2>3. IsBranch(u) => ~IsEmpty(u) /\ ~IsLeaf(u)
    BY DEF IsEmpty, IsLeaf, IsBranch
  <2>4. IsLeaf(u) => ~IsEmpty(u)
    BY DEF IsEmpty, IsLeaf
  <2> QED
    BY <1>6, <2>1, <2>2, <2>3, <2>4
<1>8. IsFlatten(g)
  BY <1>7 DEF IsFlatten
<1> QED
  BY <1>1, <1>4, <1>5, <1>8 DEF Flattens

\* Every branch in a tree that denotes something caches the right count.
LEMMA PartsCounted ==
  ASSUME NEW t, NEW s, Denotes(t, s)
  PROVE  \A u \in Nodes(t) : IsBranch(u) => u.measure = Len(Flatten(u))
<1> SUFFICES ASSUME NEW u \in Nodes(t), IsBranch(u)
             PROVE  u.measure = Len(Flatten(u))
  OBVIOUS
<1>1. PICK w : Denotes(u, w)
  BY PartsDenote
<1>2. Measure(u) = Len(w) /\ Flatten(u) = w
  BY <1>1, DenotesFacts, FlattenReads
<1>3. Measure(u) = u.measure
  BY DEF Measure, IsEmpty, IsLeaf, IsBranch
<1> QED
  BY <1>2, <1>3

-----------------------------------------------------------------------------
(* A view in progress.  A frame stands for the sequence that its branch      *)
(* denotes, and what is being viewed inside it lacks its far part.           *)
FarLinks(side, L) ==
  \A p \in L : /\ p[3] \in Seq(Value)
               /\ \E q : Denotes(Far(side, p[1]), q) /\ p[2] = Glue(side, p[3], q)

\* The frames' far parts complete s to the whole sequence.
Stacked(side, whole, frames, s) ==
  /\ s \in Seq(Value)
  /\ \E L : FarLinks(side, L) /\ Chain(frames, L, whole, s)

\* The first call is on the whole tree.
LEMMA StackedStart ==
  ASSUME NEW side, NEW s \in Seq(Value)
  PROVE  Stacked(side, s, <<>>, s)
<1>1. FarLinks(side, {})
  BY DEF FarLinks
<1> QED
  BY <1>1, ChainEmpty DEF Stacked

LEMMA StackedEnd ==
  ASSUME NEW side, NEW whole, NEW s, Stacked(side, whole, <<>>, s)
  PROVE  s = whole
BY ChainEmpty DEF Stacked

\* A call on the near part of branch t.
LEMMA StackedPush ==
  ASSUME NEW side, NEW whole, NEW S, NEW frames \in Seq(S), NEW t,
         NEW s \in Seq(Value), NEW q, Denotes(Far(side, t), q),
         Stacked(side, whole, frames, Glue(side, s, q))
  PROVE  Stacked(side, whole, Append(frames, t), s)
<1>1. PICK L : FarLinks(side, L) /\ Chain(frames, L, whole, Glue(side, s, q))
  BY DEF Stacked
<1> DEFINE M == L \cup {<<t, Glue(side, s, q), s>>}
<1>2. FarLinks(side, M)
  BY <1>1 DEF FarLinks
<1>3. Chain(Append(frames, t), M, whole, s)
  BY <1>1, ChainPush
<1> QED
  BY <1>2, <1>3 DEF Stacked

\* The innermost branch's turn is over: what was viewed is completed.
LEMMA StackedPop ==
  ASSUME NEW side, NEW whole, NEW S, NEW frames \in Seq(S), frames # <<>>, NEW s,
         Stacked(side, whole, frames, s)
  PROVE  \E q : /\ Denotes(Far(side, frames[Len(frames)]), q)
                /\ Stacked(side, whole, SubSeq(frames, 1, Len(frames) - 1), Glue(side, s, q))
<1>1. PICK L : FarLinks(side, L) /\ Chain(frames, L, whole, s)
  BY DEF Stacked
<1>2. PICK outer : /\ <<frames[Len(frames)], outer, s>> \in L
                   /\ Chain(SubSeq(frames, 1, Len(frames) - 1), L, whole, outer)
  BY <1>1, ChainPop
<1>3. PICK q : Denotes(Far(side, frames[Len(frames)]), q) /\ outer = Glue(side, s, q)
  BY <1>1, <1>2 DEF FarLinks
<1>4. s \in Seq(Value) /\ q \in Seq(Value)
  BY <1>3, DenotesFacts DEF Stacked
<1>5. Glue(side, s, q) \in Seq(Value)
  BY <1>4, GlueType
<1> QED
  BY <1>1, <1>2, <1>3, <1>5 DEF Stacked

-----------------------------------------------------------------------------
(* The inductive invariant.                                                  *)

Functions == /\ tree = [x \in Register |-> tree[x]]
             /\ seq \in [Register -> Seq(Value)]

\* Each register's tree denotes its client's sequence.
RegistersHold == \A x \in Register : Denotes(tree[x], seq[x])

CallShape(c) == /\ c.side \in {"left", "right"}
                /\ c.dst \in Register /\ c.src \in Register
                /\ \E S : c.frames \in Seq(S)

\* What a running view has still to look at, or has found: an end element and
\* a rest that make up what was viewed.
Viewing(c, whole) ==
  \/ /\ c.phase = "call"
     /\ \E s : Denotes(c.arg, s) /\ Stacked(c.side, whole, c.frames, s)
  \/ /\ c.phase = "return" /\ c.end = <<>>
     /\ Stacked(c.side, whole, c.frames, <<>>)
  \/ /\ c.phase = "return"
     /\ \E v \in Value : \E s : /\ c.end = <<v>>
                            /\ Denotes(c.rest, s)
                            /\ Stacked(c.side, whole, c.frames, Glue(c.side, <<v>>, s))

CallHolds == call # NoCall => CallShape(call) /\ Viewing(call, seq[call.src])

Inv == Functions /\ RegistersHold /\ CallHolds

LEMMA InitInv == Init => Inv
BY EmptyDenotes DEF Init, Inv, Functions, RegistersHold, CallHolds

LEMMA BuildInv ==
  ASSUME Inv, NEW x \in Register, NEW t, NEW s, Denotes(t, s), Build(x, t, s)
  PROVE  Inv' /\ Contract!Update(x, s)
<1>1. s \in Seq(Value)
  BY DenotesFacts
<1>2. /\ tree' = [tree EXCEPT ![x] = t] /\ seq' = [seq EXCEPT ![x] = s]
      /\ call = NoCall /\ call' = NoCall /\ answer' = <<>> /\ Len(s) <= MaxLength
  BY DEF Build
<1>3. Functions'
  BY <1>1, <1>2 DEF Inv, Functions
<1>4. RegistersHold'
  BY <1>2 DEF Inv, Functions, RegistersHold
<1>5. CallHolds'
  BY <1>2 DEF CallHolds
<1>6. Contract!Update(x, s)
  BY <1>2 DEF Contract!Update, Contract!NoView, Contract!None
<1> QED
  BY <1>3, <1>4, <1>5, <1>6 DEF Inv

\* The constructors, and concat, cons and snoc.
LEMMA ConstructorsInv ==
  ASSUME Inv, NEW x \in Register
  PROVE  /\ MakeEmpty(x) => Inv' /\ Contract!Clear(x)
         /\ \A v \in Value : MakeLeaf(x, v) => Inv' /\ Contract!Single(x, v)
         /\ \A y \in Register, v \in Value :
              /\ Cons(x, v, y) => Inv' /\ Contract!Cons(x, v, y)
              /\ Snoc(x, y, v) => Inv' /\ Contract!Snoc(x, y, v)
         /\ \A y, z \in Register :
              /\ MakeBranch(x, y, z) => Inv' /\ Contract!Concat(x, y, z)
              /\ Concat(x, y, z) => Inv' /\ Contract!Concat(x, y, z)
<1>1. \A y \in Register : Denotes(tree[y], seq[y])
  BY DEF Inv, RegistersHold
<1>2. MakeEmpty(x) => Inv' /\ Contract!Clear(x)
  BY EmptyDenotes, BuildInv DEF MakeEmpty, Contract!Clear
<1>3. \A v \in Value : MakeLeaf(x, v) => Inv' /\ Contract!Single(x, v)
  BY LeafDenotes, BuildInv DEF MakeLeaf, Contract!Single
<1>4. ASSUME NEW y \in Register, NEW v \in Value
      PROVE  /\ Cons(x, v, y) => Inv' /\ Contract!Cons(x, v, y)
             /\ Snoc(x, y, v) => Inv' /\ Contract!Snoc(x, y, v)
  <2>1. Denotes(Join(Leaf(v), tree[y]), <<v>> \o seq[y])
    BY <1>1, LeafDenotes, JoinDenotes
  <2>2. Denotes(Join(tree[y], Leaf(v)), seq[y] \o <<v>>)
    BY <1>1, LeafDenotes, JoinDenotes
  <2> QED
    BY <2>1, <2>2, BuildInv DEF Cons, Snoc, Contract!Cons, Contract!Snoc
<1>5. ASSUME NEW y \in Register, NEW z \in Register
      PROVE  /\ MakeBranch(x, y, z) => Inv' /\ Contract!Concat(x, y, z)
             /\ Concat(x, y, z) => Inv' /\ Contract!Concat(x, y, z)
  <2>1. Denotes(Branch(tree[y], tree[z]), seq[y] \o seq[z])
    BY <1>1, BranchDenotes
  <2>2. Denotes(Join(tree[y], tree[z]), seq[y] \o seq[z])
    BY <1>1, JoinDenotes
  <2> QED
    BY <2>1, <2>2, BuildInv DEF MakeBranch, Concat, Contract!Concat
<1> QED
  BY <1>2, <1>3, <1>4, <1>5

LEMMA AskMeasureInv ==
  ASSUME Inv, NEW y \in Register, AskMeasure(y)
  PROVE  Inv' /\ Contract!Measure(y)
<1>1. Measure(tree[y]) = Len(seq[y])
  BY DenotesFacts DEF Inv, RegistersHold
<1>2. Inv'
  BY DEF AskMeasure, Inv, Functions, RegistersHold, CallHolds
<1>3. Contract!Measure(y)
  BY <1>1 DEF AskMeasure, Contract!Measure, Contract!NoView, Contract!Some
<1> QED
  BY <1>2, <1>3

LEMMA StartViewInv ==
  ASSUME Inv, NEW x \in Register, NEW y \in Register, NEW side \in {"left", "right"},
         StartView(side, x, y)
  PROVE  Inv' /\ Contract!AskView(side, x, y)
<1>1. /\ call = NoCall /\ call' = Calling(side, x, y, <<>>, tree[y])
      /\ UNCHANGED <<tree, answer, seq>>
  BY DEF StartView
<1>2. /\ call'.phase = "call" /\ call'.side = side /\ call'.dst = x /\ call'.src = y
      /\ call'.frames = <<>> /\ call'.arg = tree[y]
  BY <1>1 DEF Calling
<1>3. Denotes(tree[y], seq[y]) /\ seq[y] \in Seq(Value)
  BY DenotesFacts DEF Inv, RegistersHold
<1>4. Stacked(side, seq[y], <<>>, seq[y])
  BY <1>3, StackedStart
<1>5. CallShape(call)'
  <2>1. <<>> \in Seq(Value)
    OBVIOUS
  <2> QED
    BY <1>2, <2>1 DEF CallShape
<1>6. Viewing(call, seq[call.src])'
  BY <1>1, <1>2, <1>3, <1>4 DEF Viewing
<1>7. Inv'
  BY <1>1, <1>5, <1>6 DEF Inv, Functions, RegistersHold, CallHolds
<1>8. call' # NoCall
  BY <1>2 DEF NoCall
<1>9. Contract!AskView(side, x, y)
  BY <1>1, <1>2, <1>8 DEF Contract!AskView, Contract!NoView
<1> QED
  BY <1>7, <1>9

\* A step inside a view that leaves registers and answer alone and keeps the
\* call's promise; the client sees nothing of it.
LEMMA InsideView ==
  ASSUME Inv, call # NoCall, UNCHANGED <<tree, answer, seq>>,
         call'.phase \in {"call", "return"},
         call'.side = call.side, call'.dst = call.dst, call'.src = call.src,
         NEW S, call'.frames \in Seq(S),
         Viewing(call', seq[call.src])
  PROVE  Inv' /\ UNCHANGED Contract!vars
<1>1. CallShape(call)
  BY DEF Inv, CallHolds
<1>2. CallShape(call)'
  BY <1>1 DEF CallShape
<1>3. call' # NoCall
  BY DEF NoCall
<1>4. Inv'
  BY <1>2, <1>3 DEF Inv, Functions, RegistersHold, CallHolds
<1>5. UNCHANGED Contract!vars
  BY <1>3 DEF Contract!vars
<1> QED
  BY <1>4, <1>5

LEMMA ViewCallInv ==
  ASSUME Inv, ViewCall
  PROVE  Inv' /\ UNCHANGED Contract!vars
<1> DEFINE whole == seq[call.src]
<1>1. call.phase = "call" /\ call # NoCall /\ UNCHANGED <<tree, answer, seq>>
  BY DEF ViewCall, NoCall
<1>2. CallShape(call) /\ Viewing(call, whole)
  BY <1>1 DEF Inv, CallHolds
<1>3. PICK s : Denotes(call.arg, s) /\ Stacked(call.side, whole, call.frames, s)
  BY <1>1, <1>2 DEF Viewing
<1>4. PICK S : call.frames \in Seq(S)
  BY <1>2 DEF CallShape
<1>5. CASE IsEmpty(call.arg)
  <2>1. s = <<>>
    BY <1>3, <1>5, DenotesInverted, KindsDiffer
  <2>2. call' = Returning(call, call.frames, <<>>, Empty)
    BY <1>5 DEF ViewCall
  <2>3. /\ call'.phase = "return" /\ call'.side = call.side /\ call'.dst = call.dst
        /\ call'.src = call.src /\ call'.frames = call.frames /\ call'.end = <<>>
    BY <2>2 DEF Returning
  <2>4. Viewing(call', whole)
    BY <1>3, <2>1, <2>3 DEF Viewing
  <2> QED
    BY <1>1, <1>4, <2>3, <2>4, InsideView
<1>6. CASE ~IsEmpty(call.arg) /\ IsLeaf(call.arg)
  <2>1. PICK v \in Value : s = <<v>> /\ call.arg.value = v
    BY <1>3, <1>6, DenotesInverted, KindsDiffer
  <2>2. call' = Returning(call, call.frames, <<v>>, Empty)
    BY <1>6, <2>1 DEF ViewCall
  <2>3. /\ call'.phase = "return" /\ call'.side = call.side /\ call'.dst = call.dst
        /\ call'.src = call.src /\ call'.frames = call.frames
        /\ call'.end = <<v>> /\ call'.rest = Empty
    BY <2>2 DEF Returning
  <2>4. Glue(call.side, <<v>>, <<>>) = <<v>>
    BY DEF Glue
  <2>5. Viewing(call', whole)
    BY <1>3, <2>1, <2>3, <2>4, EmptyDenotes DEF Viewing
  <2> QED
    BY <1>1, <1>4, <2>3, <2>5, InsideView
<1>7. CASE ~IsEmpty(call.arg) /\ ~IsLeaf(call.arg)
  <2> DEFINE t == call.arg
  <2>1. PICK l, r, u, w : /\ Denotes(l, u) /\ Denotes(r, w)
                          /\ t = Branch(l, r) /\ s = u \o w
    BY <1>3, <1>7, DenotesInverted, KindsDiffer
  <2>2. t.left = l /\ t.right = r
    BY <2>1, KindsDiffer
  <2>3. PICK a, b : /\ Denotes(Near(call.side, t), a) /\ Denotes(Far(call.side, t), b)
                    /\ s = Glue(call.side, a, b)
    <3>1. CASE call.side = "left"
      BY <2>1, <2>2, <3>1 DEF Near, Far, Glue
    <3>2. CASE call.side # "left"
      BY <2>1, <2>2, <3>2 DEF Near, Far, Glue
    <3> QED
      BY <3>1, <3>2
  <2>4. call' = Calling(call.side, call.dst, call.src, Append(call.frames, t),
                        Near(call.side, t))
    BY <1>7 DEF ViewCall
  <2>5. /\ call'.phase = "call" /\ call'.side = call.side /\ call'.dst = call.dst
        /\ call'.src = call.src /\ call'.frames = Append(call.frames, t)
        /\ call'.arg = Near(call.side, t)
    BY <2>4 DEF Calling
  <2>6. a \in Seq(Value)
    BY <2>3, DenotesFacts
  <2>7. Stacked(call.side, whole, Append(call.frames, t), a)
    BY <1>3, <1>4, <2>3, <2>6, StackedPush
  <2>8. Viewing(call', whole)
    BY <2>3, <2>5, <2>7 DEF Viewing
  <2>9. call.frames \in Seq(S \cup {t})
    BY <1>4
  <2>10. call'.frames \in Seq(S \cup {t})
    BY <2>5, <2>9
  <2> QED
    BY <1>1, <2>5, <2>8, <2>10, InsideView
<1> QED
  BY <1>5, <1>6, <1>7

LEMMA RejoinDenotes ==
  ASSUME NEW side, NEW near, NEW far, NEW s, NEW q, Denotes(near, s), Denotes(far, q)
  PROVE  Denotes(Rejoin(side, near, far), Glue(side, s, q))
BY JoinDenotes DEF Rejoin, Glue

LEMMA ViewReturnInv ==
  ASSUME Inv, ViewReturn
  PROVE  Inv' /\ UNCHANGED Contract!vars
<1> DEFINE whole == seq[call.src]
           far == Far(call.side, Innermost(call))
<1>1. /\ call.phase = "return" /\ call # NoCall /\ call.frames # <<>>
      /\ UNCHANGED <<tree, answer, seq>>
  BY DEF ViewReturn, NoCall
<1>2. CallShape(call) /\ Viewing(call, whole)
  BY <1>1 DEF Inv, CallHolds
<1>3. PICK S : call.frames \in Seq(S)
  BY <1>2 DEF CallShape
<1>4. Popped(call) \in Seq(S)
  BY <1>1, <1>3, PopFacts DEF Popped
<1>5. ASSUME NEW s, Stacked(call.side, whole, call.frames, s)
      PROVE  /\ s \in Seq(Value)
             /\ \E q : /\ Denotes(far, q)
                       /\ Stacked(call.side, whole, Popped(call), Glue(call.side, s, q))
  BY <1>1, <1>3, <1>5, StackedPop DEF Stacked, Innermost, Popped
<1>6. CASE call.end = <<>>
  <2>1. call' = Calling(call.side, call.dst, call.src, Popped(call), far)
    BY <1>6 DEF ViewReturn
  <2>2. /\ call'.phase = "call" /\ call'.side = call.side /\ call'.dst = call.dst
        /\ call'.src = call.src /\ call'.frames = Popped(call) /\ call'.arg = far
    BY <2>1 DEF Calling
  <2>3. Stacked(call.side, whole, call.frames, <<>>)
    BY <1>1, <1>2, <1>6 DEF Viewing
  <2>4. PICK q : /\ Denotes(far, q)
                 /\ Stacked(call.side, whole, Popped(call), Glue(call.side, <<>>, q))
    BY <1>5, <2>3
  <2>5. Glue(call.side, <<>>, q) = q
    BY <2>4, DenotesFacts, GlueEmpty
  <2>6. Viewing(call', whole)
    BY <2>2, <2>4, <2>5 DEF Viewing
  <2> QED
    BY <1>1, <1>4, <2>2, <2>6, InsideView
<1>7. CASE call.end # <<>>
  <2>1. PICK v, s : /\ v \in Value /\ call.end = <<v>>
                    /\ Denotes(call.rest, s)
                    /\ Stacked(call.side, whole, call.frames, Glue(call.side, <<v>>, s))
    BY <1>1, <1>2, <1>7 DEF Viewing
  <2>2. PICK q : /\ Denotes(far, q)
                 /\ Stacked(call.side, whole, Popped(call),
                            Glue(call.side, Glue(call.side, <<v>>, s), q))
    BY <1>5, <2>1
  <2>3. call' = Returning(call, Popped(call), <<v>>, Rejoin(call.side, call.rest, far))
    BY <1>7, <2>1 DEF ViewReturn
  <2>4. /\ call'.phase = "return" /\ call'.side = call.side /\ call'.dst = call.dst
        /\ call'.src = call.src /\ call'.frames = Popped(call)
        /\ call'.end = <<v>> /\ call'.rest = Rejoin(call.side, call.rest, far)
    BY <2>3 DEF Returning
  <2>5. <<v>> \in Seq(Value) /\ s \in Seq(Value) /\ q \in Seq(Value)
    BY <2>1, <2>2, DenotesFacts
  <2>6. Stacked(call.side, whole, Popped(call), Glue(call.side, <<v>>, Glue(call.side, s, q)))
    BY <2>2, <2>5, GlueAssociative
  <2>7. Denotes(call'.rest, Glue(call.side, s, q))
    BY <2>1, <2>2, <2>4, RejoinDenotes
  <2>8. Viewing(call', whole)
    BY <2>1, <2>4, <2>6, <2>7 DEF Viewing
  <2> QED
    BY <1>1, <1>4, <2>4, <2>8, InsideView
<1> QED
  BY <1>6, <1>7

\* What a view has found when it is done.
LEMMA ViewFound ==
  ASSUME Inv, ViewDone
  PROVE  /\ CallShape(call) /\ call # NoCall /\ call' = NoCall /\ answer' = call.end
         /\ \/ call.end = <<>> /\ seq[call.src] = <<>> /\ UNCHANGED <<tree, seq>>
            \/ \E v \in Value : \E s \in Seq(Value) :
                 /\ call.end = <<v>> /\ Denotes(call.rest, s)
                 /\ seq[call.src] = Glue(call.side, <<v>>, s)
                 /\ tree' = [tree EXCEPT ![call.dst] = call.rest]
                 /\ seq' = [seq EXCEPT ![call.dst] = s]
<1> DEFINE whole == seq[call.src]
<1>1. /\ call.phase = "return" /\ call # NoCall /\ call.frames = <<>>
      /\ answer' = call.end /\ call' = NoCall
  BY DEF ViewDone, NoCall
<1>2. CallShape(call) /\ Viewing(call, whole)
  BY <1>1 DEF Inv, CallHolds
<1>3. CASE call.end = <<>>
  <2>1. whole = <<>>
    BY <1>1, <1>2, <1>3, StackedEnd DEF Viewing
  <2>2. UNCHANGED <<tree, seq>>
    BY <1>3 DEF ViewDone
  <2> QED
    BY <1>1, <1>2, <1>3, <2>1, <2>2
<1>4. CASE call.end # <<>>
  <2>1. PICK v, s : /\ v \in Value /\ call.end = <<v>>
                    /\ Denotes(call.rest, s)
                    /\ Stacked(call.side, whole, <<>>, Glue(call.side, <<v>>, s))
    BY <1>1, <1>2, <1>4 DEF Viewing
  <2>2. whole = Glue(call.side, <<v>>, s) /\ s \in Seq(Value)
    BY <2>1, StackedEnd, DenotesFacts
  <2>3. Shortened(call.side, whole) = s
    BY <1>2, <2>1, <2>2, ShortenedGlue DEF CallShape
  <2>4. /\ tree' = [tree EXCEPT ![call.dst] = call.rest]
        /\ seq' = [seq EXCEPT ![call.dst] = s]
    BY <1>4, <2>3 DEF ViewDone
  <2> QED
    BY <1>1, <1>2, <2>1, <2>2, <2>4
<1> QED
  BY <1>3, <1>4

LEMMA ViewDoneInv ==
  ASSUME Inv, ViewDone
  PROVE  Inv' /\ (Contract!ViewL \/ Contract!ViewR \/ Contract!ViewNothing)
<1> DEFINE whole == seq[call.src]
<1>1. call # NoCall /\ answer' = call.end /\ call' = NoCall
  BY ViewFound
<1>2. CallShape(call)
  BY ViewFound
<1>3. call.side \in {"left", "right"} /\ call.dst \in Register /\ call.src \in Register
  BY <1>2 DEF CallShape
<1>4. CallHolds'
  BY <1>1 DEF CallHolds
<1> DEFINE pending == IF call = NoCall THEN [side |-> "none"]
                      ELSE [side |-> call.side, dst |-> call.dst, src |-> call.src]
<1>5. /\ pending # [side |-> "none"] /\ pending.side = call.side
      /\ pending.dst = call.dst /\ pending.src = call.src
  BY <1>1, <1>3
<1>6. CASE call.end = <<>>
  <2>1. whole = <<>> /\ UNCHANGED <<tree, seq>>
    BY <1>6, ViewFound
  <2>2. Inv'
    BY <1>4, <2>1 DEF Inv, Functions, RegistersHold
  <2>3. Contract!ViewNothing
    BY <1>1, <1>5, <1>6, <2>1
    DEF Contract!ViewNothing, Contract!NoView, Contract!Viewed, Contract!None
  <2> QED
    BY <2>2, <2>3
<1>7. CASE call.end # <<>>
  <2>1. PICK v \in Value, s \in Seq(Value) :
          /\ call.end = <<v>> /\ Denotes(call.rest, s)
          /\ whole = Glue(call.side, <<v>>, s)
          /\ tree' = [tree EXCEPT ![call.dst] = call.rest]
          /\ seq' = [seq EXCEPT ![call.dst] = s]
    BY <1>7, ViewFound
  <2>2. Inv'
    BY <1>3, <1>4, <2>1 DEF Inv, Functions, RegistersHold
  <2>3. CASE call.side = "left"
    <3>1. whole # <<>> /\ Head(whole) = v /\ Tail(whole) = s
      BY <2>1, <2>3, LeftEnd DEF Glue
    <3>2. Contract!ViewL
      BY <1>1, <1>5, <2>1, <2>3, <3>1
      DEF Contract!ViewL, Contract!Answer, Contract!NoView, Contract!Viewed, Contract!Some
    <3> QED
      BY <2>2, <3>2
  <2>4. CASE call.side = "right"
    <3>1. whole # <<>> /\ whole[Len(whole)] = v /\ SubSeq(whole, 1, Len(whole) - 1) = s
      BY <2>1, <2>4, RightEnd DEF Glue
    <3>2. Contract!ViewR
      BY <1>1, <1>5, <2>1, <2>4, <3>1
      DEF Contract!ViewR, Contract!Answer, Contract!NoView, Contract!Viewed, Contract!Some
    <3> QED
      BY <2>2, <3>2
  <2> QED
    BY <1>3, <2>3, <2>4
<1> QED
  BY <1>6, <1>7

-----------------------------------------------------------------------------
(* Every step keeps the invariant and is a step of Deque, or none.           *)

LEMMA StepInv == Inv /\ [Next]_vars => Inv' /\ [Contract!Next]_Contract!vars
<1> SUFFICES ASSUME Inv, [Next]_vars
             PROVE  Inv' /\ [Contract!Next]_Contract!vars
  OBVIOUS
<1>1. CASE UNCHANGED vars
  BY <1>1 DEF vars, Inv, Functions, RegistersHold, CallHolds, Contract!vars
<1>2. CASE View
  BY <1>2, ViewCallInv, ViewReturnInv, ViewDoneInv DEF View, Contract!Next
<1>3. ASSUME NEW x \in Register,
             \/ MakeEmpty(x)
             \/ AskMeasure(x)
             \/ \E v \in Value : MakeLeaf(x, v)
             \/ \E y \in Register, v \in Value : Cons(x, v, y) \/ Snoc(x, y, v)
             \/ \E y, z \in Register : MakeBranch(x, y, z) \/ Concat(x, y, z)
             \/ \E y \in Register, side \in {"left", "right"} : StartView(side, x, y)
      PROVE  Inv' /\ Contract!Next
  BY <1>3, ConstructorsInv, AskMeasureInv, StartViewInv DEF Contract!Next
<1> QED
  BY <1>1, <1>2, <1>3 DEF Next

LEMMA Invariance == Spec => []Inv
<1> QED
  BY InitInv, StepInv, PTL DEF Spec

\* Every answer is the sequence's: FringeTree implements Deque, through the
\* history variable, whatever shapes the trees have
\* (fringe_tree.hpp:87-161, 183-238).
THEOREM FringeImplementsDeque == Spec => ImplementsDeque
<1>1. Init => Contract!Init
  BY DEF Init, Contract!Init, Contract!NoView, Contract!None
<1> QED
  BY <1>1, Invariance, StepInv, PTL DEF Spec, ImplementsDeque, Contract!Spec

\* Each register's tree is made up, part by part, of the values its client
\* built in their order, with the right count cached at every part; and any
\* function that satisfies flatten's equations gives that sequence for it
\* (fringe_tree.hpp:50, 132-144).
THEOREM FringeDenotes ==
  Spec => [](\A x \in Register : Denotes(tree[x], seq[x]) /\ Flattens(tree[x], seq[x]))
<1>1. Inv => \A x \in Register : Denotes(tree[x], seq[x]) /\ Flattens(tree[x], seq[x])
  BY DenotesFacts DEF Inv, RegistersHold
<1> QED
  BY <1>1, Invariance, PTL

\* The values of each register's tree, in order, are the sequence its client
\* built, and every branch of it, at any depth, caches the right count
\* (fringe_tree.hpp:50, 132-144).
THEOREM FringeRepresents == Spec => []Represents
<1>1. Inv => Represents
  BY FlattenReads, PartsCounted DEF Inv, RegistersHold, Represents
<1> QED
  BY <1>1, Invariance, PTL

-----------------------------------------------------------------------------
(* Compact trees: no part of them is a branch with an empty child.  As with  *)
(* Denotes, a set of parts that vouch for each other replaces recursion.     *)

Closed(C) == \A t \in C : IsBranch(t) => /\ ~IsEmpty(t.left) /\ ~IsEmpty(t.right)
                                         /\ t.left \in C /\ t.right \in C

IsCompact(t) == \E C : t \in C /\ Closed(C)

\* Compact, which looks at all parts of a finite tree, says the same.
LEMMA CompactRead ==
  ASSUME NEW t, Finite(t)
  PROVE  Compact(t) <=> IsCompact(t)
<1>1. ASSUME Compact(t)
      PROVE  IsCompact(t)
  <2>1. t \in Nodes(t) /\ Closed(Nodes(t))
    BY <1>1, NodesClosed DEF Compact, Closed
  <2> QED
    BY <2>1 DEF IsCompact
<1>2. ASSUME IsCompact(t)
      PROVE  Compact(t)
  <2>1. PICK C : t \in C /\ Closed(C)
    BY <1>2 DEF IsCompact
  <2>2. \A u \in C : IsBranch(u) => u.left \in C /\ u.right \in C
    BY <2>1 DEF Closed
  <2>3. Nodes(t) \subseteq C
    BY <2>1, <2>2, NodesLeast
  <2> QED
    BY <2>1, <2>3 DEF Compact, Closed
<1> QED
  BY <1>1, <1>2

LEMMA CompactParts ==
  ASSUME NEW t, IsBranch(t), IsCompact(t)
  PROVE  \A side : IsCompact(Near(side, t)) /\ IsCompact(Far(side, t))
BY DEF IsCompact, Closed, Near, Far

LEMMA CompactAtoms == IsCompact(Empty) /\ \A v : IsCompact(Leaf(v))
<1>1. Closed({Empty}) /\ \A v : Closed({Leaf(v)})
  BY KindsDiffer DEF Closed
<1> QED
  BY <1>1 DEF IsCompact

LEMMA CompactJoin ==
  ASSUME NEW l, NEW r, IsCompact(l), IsCompact(r)
  PROVE  IsCompact(Join(l, r))
<1>1. CASE IsEmpty(l) \/ IsEmpty(r)
  BY <1>1 DEF Join
<1>2. CASE ~IsEmpty(l) /\ ~IsEmpty(r)
  <2>1. PICK C : l \in C /\ Closed(C)
    BY DEF IsCompact
  <2>2. PICK D : r \in D /\ Closed(D)
    BY DEF IsCompact
  <2>3. PICK t : t = Branch(l, r) /\ t.left = l /\ t.right = r
    BY KindsDiffer
  <2>4. Closed(C \cup D \cup {t})
    BY <1>2, <2>1, <2>2, <2>3 DEF Closed
  <2>5. t \in C \cup D \cup {t}
    OBVIOUS
  <2>6. IsCompact(t)
    BY <2>4, <2>5 DEF IsCompact
  <2> QED
    BY <1>2, <2>3, <2>6 DEF Join
<1> QED
  BY <1>1, <1>2

\* A view of a compact tree has compact parts in all its frames.
CompactCall ==
  call # NoCall /\ IsCompact(tree[call.src]) =>
    /\ \A i \in 1..Len(call.frames) : IsCompact(Far(call.side, call.frames[i]))
    /\ call.phase = "call" => IsCompact(call.arg)
    /\ call.phase = "return" => IsCompact(call.rest)

\* What a register receives is compact, unless something was not already, or
\* branch() was called on an empty operand.
CompactResult(x) ==
  \/ IsCompact(tree'[x])
  \/ \E y \in Register : ~IsCompact(tree[y])
  \/ \E y, z \in Register : /\ Empty \in {tree[y], tree[z]}
                            /\ tree'[x] = Branch(tree[y], tree[z])

\* The parts of a step inside a view that matter for compactness.
LEMMA CompactStepInside ==
  ASSUME Inv, call # NoCall, CompactCall, IsCompact(tree[call.src]), ViewCall \/ ViewReturn
  PROVE  /\ \A i \in 1..Len(call'.frames) : IsCompact(Far(call'.side, call'.frames[i]))
         /\ call'.phase = "call" => IsCompact(call'.arg)
         /\ call'.phase = "return" => IsCompact(call'.rest)
<1>1. /\ \A i \in 1..Len(call.frames) : IsCompact(Far(call.side, call.frames[i]))
      /\ call.phase = "call" => IsCompact(call.arg)
      /\ call.phase = "return" => IsCompact(call.rest)
  BY DEF CompactCall
<1>2. PICK S : call.frames \in Seq(S)
  BY DEF Inv, CallHolds, CallShape
<1>3. CASE ViewCall
  <2>1. call.phase = "call" /\ IsCompact(call.arg)
    BY <1>1, <1>3 DEF ViewCall
  <2>2. CASE IsEmpty(call.arg) \/ IsLeaf(call.arg)
    <3>1. /\ call'.frames = call.frames /\ call'.side = call.side
          /\ call'.phase = "return" /\ call'.rest = Empty
      BY <1>3, <2>2 DEF ViewCall, Returning
    <3> QED
      BY <1>1, <3>1, CompactAtoms
  <2>3. CASE ~IsEmpty(call.arg) /\ ~IsLeaf(call.arg)
    <3>1. Viewing(call, seq[call.src])
      BY DEF Inv, CallHolds
    <3>2. PICK s : Denotes(call.arg, s)
      BY <2>1, <3>1 DEF Viewing
    <3>3. IsBranch(call.arg)
      BY <2>3, <3>2, DenotesInverted, KindsDiffer
    <3>4. /\ call'.frames = Append(call.frames, call.arg) /\ call'.side = call.side
          /\ call'.phase = "call" /\ call'.arg = Near(call.side, call.arg)
      BY <1>3, <2>3 DEF ViewCall, Calling
    <3>5. IsCompact(Near(call.side, call.arg)) /\ IsCompact(Far(call.side, call.arg))
      BY <2>1, <3>3, CompactParts
    <3>6. ASSUME NEW i \in 1..Len(call'.frames)
          PROVE  IsCompact(Far(call'.side, call'.frames[i]))
      <4>1. /\ Len(call.frames) \in Nat
            /\ Len(call'.frames) = Len(call.frames) + 1
            /\ call'.frames[Len(call.frames) + 1] = call.arg
            /\ \A j \in 1..Len(call.frames) : call'.frames[j] = call.frames[j]
        BY <1>2, <3>4, AppendFacts
      <4>2. i = Len(call.frames) + 1 \/ i \in 1..Len(call.frames)
        BY <4>1
      <4> QED
        BY <1>1, <3>4, <3>5, <4>1, <4>2
    <3> QED
      BY <3>4, <3>5, <3>6
  <2> QED
    BY <2>2, <2>3
<1>4. CASE ViewReturn
  <2> DEFINE far == Far(call.side, Innermost(call))
  <2>1. call.phase = "return" /\ call.frames # <<>> /\ IsCompact(call.rest)
    BY <1>1, <1>4 DEF ViewReturn
  <2>2. /\ Len(call.frames) \in Nat /\ Len(call.frames) >= 1
        /\ Len(Popped(call)) = Len(call.frames) - 1
        /\ \A i \in 1..Len(call.frames) - 1 : Popped(call)[i] = call.frames[i]
    BY <1>2, <2>1, PopFacts DEF Popped
  <2>3. \A i \in 1..Len(Popped(call)) : IsCompact(Far(call.side, Popped(call)[i]))
    BY <1>1, <2>2
  <2>4. IsCompact(far)
    BY <1>1, <2>2 DEF Innermost
  <2>5. /\ call'.frames = Popped(call) /\ call'.side = call.side
        /\ \/ call'.phase = "call" /\ call'.arg = far
           \/ call'.phase = "return" /\ call'.rest = Rejoin(call.side, call.rest, far)
    BY <1>4 DEF ViewReturn, Calling, Returning
  <2>6. IsCompact(Rejoin(call.side, call.rest, far))
    BY <2>1, <2>4, CompactJoin DEF Rejoin
  <2> QED
    BY <2>3, <2>4, <2>5, <2>6
<1> QED
  BY <1>3, <1>4

LEMMA CompactCallStep == Inv /\ CompactCall /\ [Next]_vars => CompactCall'
<1> SUFFICES ASSUME Inv, CompactCall, [Next]_vars, call' # NoCall, IsCompact(tree[call.src])'
             PROVE  /\ \A i \in 1..Len(call'.frames) : IsCompact(Far(call'.side, call'.frames[i]))
                    /\ call'.phase = "call" => IsCompact(call'.arg)
                    /\ call'.phase = "return" => IsCompact(call'.rest)
  BY DEF CompactCall
<1>1. CASE UNCHANGED vars
  BY <1>1 DEF vars, CompactCall
<1>2. CASE ViewCall \/ ViewReturn
  <2>1. call # NoCall /\ tree' = tree /\ call'.src = call.src
    BY <1>2 DEF ViewCall, ViewReturn, Calling, Returning, NoCall
  <2> QED
    BY <1>2, <2>1, CompactStepInside
<1>3. CASE ViewDone
  BY <1>3 DEF ViewDone
<1>4. ASSUME NEW x \in Register, NEW y \in Register, NEW side \in {"left", "right"},
             StartView(side, x, y)
      PROVE  /\ \A i \in 1..Len(call'.frames) : IsCompact(Far(call'.side, call'.frames[i]))
             /\ call'.phase = "call" => IsCompact(call'.arg)
             /\ call'.phase = "return" => IsCompact(call'.rest)
  <2>1. /\ call'.frames = <<>> /\ call'.phase = "call" /\ call'.arg = tree[y]
        /\ call'.src = y /\ tree' = tree
    BY <1>4 DEF StartView, Calling
  <2>2. \A i \in 1..Len(call'.frames) : FALSE
    BY <2>1
  <2> QED
    BY <2>1, <2>2
<1>5. ASSUME NEW x \in Register, NEW t, NEW s, Build(x, t, s)
      PROVE  FALSE
  BY <1>5 DEF Build
<1>6. ASSUME NEW y \in Register, AskMeasure(y)
      PROVE  FALSE
  BY <1>6 DEF AskMeasure
<1> QED
  BY <1>1, <1>2, <1>3, <1>4, <1>5, <1>6
  DEF Next, View, MakeEmpty, MakeLeaf, Cons, Snoc, MakeBranch, Concat

LEMMA CompactBuild ==
  ASSUME Inv, NEW x \in Register, NEW t, NEW s, Build(x, t, s),
         \/ IsCompact(t)
         \/ \E y, z \in Register : Empty \in {tree[y], tree[z]} /\ t = Branch(tree[y], tree[z])
         \/ \E y \in Register : ~IsCompact(tree[y])
  PROVE  \A u \in Register : CompactResult(u)
<1>1. tree' = [tree EXCEPT ![x] = t] /\ DOMAIN tree = Register
  BY DEF Build, Inv, Functions
<1> QED
  BY <1>1 DEF CompactResult

LEMMA CompactStep == Inv /\ CompactCall /\ [Next]_vars => \A x \in Register : CompactResult(x)
<1> SUFFICES ASSUME Inv, CompactCall, [Next]_vars
             PROVE  \A x \in Register : CompactResult(x)
  OBVIOUS
<1>1. CASE UNCHANGED tree
  BY <1>1 DEF CompactResult
<1>2. CASE ViewDone /\ tree' # tree
  <2>1. call # NoCall /\ call.phase = "return" /\ tree' = [tree EXCEPT ![call.dst] = call.rest]
    BY <1>2 DEF ViewDone, NoCall
  <2>2. call.src \in Register /\ DOMAIN tree = Register
    BY <2>1 DEF Inv, CallHolds, CallShape, Functions
  <2>3. IsCompact(tree[call.src]) => IsCompact(call.rest)
    BY <2>1 DEF CompactCall
  <2> QED
    BY <2>1, <2>2, <2>3 DEF CompactResult
<1>3. ASSUME NEW x \in Register,
             \/ MakeEmpty(x)
             \/ \E v \in Value : MakeLeaf(x, v)
             \/ \E y \in Register, v \in Value : Cons(x, v, y) \/ Snoc(x, y, v)
             \/ \E y, z \in Register : Concat(x, y, z)
      PROVE  \A u \in Register : CompactResult(u)
  BY <1>3, CompactBuild, CompactAtoms, CompactJoin DEF MakeEmpty, MakeLeaf, Cons, Snoc, Concat
<1>4. ASSUME NEW x \in Register, NEW y \in Register, NEW z \in Register, MakeBranch(x, y, z)
      PROVE  \A u \in Register : CompactResult(u)
  <2>1. CASE Empty \in {tree[y], tree[z]}
    BY <1>4, <2>1, CompactBuild DEF MakeBranch
  <2>2. CASE Empty \notin {tree[y], tree[z]}
    <3>1. Denotes(tree[y], seq[y]) /\ Denotes(tree[z], seq[z])
      BY DEF Inv, RegistersHold
    <3>2. ~IsEmpty(tree[y]) /\ ~IsEmpty(tree[z])
      BY <2>2, <3>1, DenotesInverted, KindsDiffer
    <3>3. Branch(tree[y], tree[z]) = Join(tree[y], tree[z])
      BY <3>2 DEF Join
    <3>4. Build(x, Join(tree[y], tree[z]), seq[y] \o seq[z])
      BY <1>4, <3>3 DEF MakeBranch
    <3> QED
      BY <3>4, CompactBuild, CompactJoin
  <2> QED
    BY <2>1, <2>2
<1> QED
  BY <1>1, <1>2, <1>3, <1>4
  DEF Next, View, vars, AskMeasure, StartView, ViewCall, ViewReturn

LEMMA CompactSeen ==
  ASSUME Inv, Inv', \A x \in Register : CompactResult(x)
  PROVE  \A x \in Register :
           \/ Compact(tree'[x])
           \/ \E y \in Register : ~Compact(tree[y])
           \/ \E y, z \in Register : /\ Empty \in {tree[y], tree[z]}
                                     /\ tree'[x] = Branch(tree[y], tree[z])
<1>1. \A x \in Register : Finite(tree[x])
  BY DenotesFacts DEF Inv, RegistersHold
<1>2. \A x \in Register : Finite(tree'[x])
  BY DenotesFacts DEF Inv, RegistersHold
<1>3. \A x \in Register : /\ Compact(tree[x]) <=> IsCompact(tree[x])
                          /\ Compact(tree'[x]) <=> IsCompact(tree'[x])
  BY <1>1, <1>2, CompactRead
<1> QED
  BY <1>3 DEF CompactResult

\* Only branch() on an empty operand brings an empty part into a tree, at any
\* depth: concat, cons and snoc, and views at either end in whatever order,
\* keep trees compact (fringe_tree.hpp:146-170, 208-238).
THEOREM FringeStaysCompact == Spec => StaysCompact
<1>1. Init => CompactCall
  BY DEF Init, CompactCall
<1>2. Inv /\ Inv' /\ (\A x \in Register : CompactResult(x)) =>
        \A x \in Register :
          \/ Compact(tree'[x])
          \/ \E y \in Register : ~Compact(tree[y])
          \/ \E y, z \in Register : /\ Empty \in {tree[y], tree[z]}
                                    /\ tree'[x] = Branch(tree[y], tree[z])
  BY CompactSeen
<1> QED
  BY <1>1, <1>2, Invariance, CompactCallStep, CompactStep, PTL DEF Spec, StaysCompact
=============================================================================
