---------------------------- MODULE SharedProof -----------------------------
(***************************************************************************)
(* Proofs about SharedTree and SharedFringe, for every number of variables *)
(* and every size of the memory: shared nodes live as long as some         *)
(* variable's tree has them and no longer, and sharing cannot be seen.     *)
(***************************************************************************)
EXTENDS SharedTree, SharedFringe, ProofLemmas

Nodes(m) == DOMAIN m \cap Block

\* What a variable or a node may be: its children are live nodes.
IsNode(m, node) ==
  /\ node = [k \in DOMAIN node |-> node[k]] /\ {"left", "right"} \subseteq DOMAIN node
  /\ node.left \in Nodes(m) \cup {Null} /\ node.right \in Nodes(m) \cup {Null}

\* Among any nodes there is one with no child and one with no holder among
\* them: no node is below itself.
Grounded(m) ==
  \A Z \in SUBSET Nodes(m) : Z # {} =>
    /\ \E a \in Z : Children(m, a) \cap Z = {}
    /\ \E a \in Z : Holders(m, a) \cap Z = {}

Sound(m) ==
  /\ m = [o \in DOMAIN m |-> m[o]] /\ DOMAIN m \subseteq Register \cup Block
  /\ \A o \in DOMAIN m : IsNode(m, m[o])
  /\ Grounded(m)

\* The nodes that should not be there.
Unheld(m) == {a \in Nodes(m) : Holders(m, a) = {}}

LEMMA NodesFinite ==
  ASSUME NEW m
  PROVE  /\ IsFiniteSet(Nodes(m)) /\ Nodes(m) \subseteq Block /\ Nodes(m) \subseteq DOMAIN m
         /\ Cardinality(Block) \in Nat /\ Cardinality(Nodes(m)) \in Nat
         /\ Cardinality(Nodes(m)) <= Cardinality(Block)
         /\ Null \notin Nodes(m) /\ Nodes(m) \cap Register = {}
<1>1. Nodes(m) \subseteq Block /\ IsFiniteSet(Block)
  BY BlockAssumption DEF Nodes
<1>2. IsFiniteSet(Nodes(m)) /\ Cardinality(Nodes(m)) <= Cardinality(Block)
  BY <1>1, FS_Subset
<1> QED
  BY <1>1, <1>2, BlockAssumption, FS_CardinalityType DEF Nodes

LEMMA ChildrenFacts ==
  ASSUME NEW m, Sound(m)
  PROVE  /\ \A o \in DOMAIN m : Children(m, o) \subseteq Nodes(m)
         /\ \A o \in DOMAIN m : \A a : a \in Children(m, o) <=> o \in Holders(m, a)
         /\ \A a : Holders(m, a) \subseteq DOMAIN m
<1>1. \A o \in DOMAIN m : Children(m, o) \subseteq Nodes(m)
  BY DEF Sound, IsNode, Children
<1> QED
  BY <1>1 DEF Holders

-----------------------------------------------------------------------------
(* Put, and a variable's end.                                               *)

\* If nodes neither come nor change, no circle comes up.
LEMMA StaysGrounded ==
  ASSUME NEW m, NEW n, Grounded(m), Nodes(n) \subseteq Nodes(m), \A a \in Nodes(n) : n[a] = m[a]
  PROVE  Grounded(n)
<1> SUFFICES ASSUME NEW Z \in SUBSET Nodes(n), Z # {}
             PROVE  /\ \E a \in Z : Children(n, a) \cap Z = {}
                    /\ \E a \in Z : Holders(n, a) \cap Z = {}
  BY DEF Grounded
<1>1. Z \in SUBSET Nodes(m) /\ \A a \in Z : a \in DOMAIN m /\ a \in DOMAIN n /\ Children(n, a) = Children(m, a)
  BY DEF Children, Nodes
<1>2. PICK a \in Z : Children(m, a) \cap Z = {}
  BY <1>1 DEF Grounded
<1>3. PICK b \in Z : Holders(m, b) \cap Z = {}
  BY <1>1 DEF Grounded
<1>4. Holders(n, b) \cap Z = {}
  BY <1>1, <1>3 DEF Holders
<1> QED
  BY <1>1, <1>2, <1>4

\* What holds once variable x has received a node.
Received(m, x, node, n) ==
  /\ Sound(n) /\ DOMAIN n = DOMAIN m \cup {x} /\ Nodes(n) = Nodes(m)
  /\ n[x] = node /\ \A o \in DOMAIN m : o # x => n[o] = m[o]
  /\ \A k : IsNode(m, k) <=> IsNode(n, k)
  /\ \A a \in Unheld(n) : a \in Unheld(m) \/
       (x \in DOMAIN m /\ a \in {m[x].left, m[x].right} /\ a \notin {node.left, node.right})

LEMMA PutFacts ==
  ASSUME NEW m, Sound(m), NEW x \in Register, NEW node, IsNode(m, node), NEW n, n = Put(m, x, node)
  PROVE  Received(m, x, node, n)
<1>1. /\ DOMAIN n = DOMAIN m \cup {x} /\ n[x] = node /\ \A o \in DOMAIN m : o # x => n[o] = m[o]
      /\ n = [o \in DOMAIN n |-> n[o]]
  BY DEF Put
<1>2. x \notin Block /\ Nodes(n) = Nodes(m) /\ \A a \in Nodes(m) : n[a] = m[a] /\ a # Null
  BY <1>1, BlockAssumption DEF Nodes
<1>3. \A k : IsNode(m, k) <=> IsNode(n, k)
  BY <1>2 DEF IsNode
<1>4. \A o \in DOMAIN n : IsNode(n, n[o])
  BY <1>1, <1>3 DEF Sound
<1>5. Grounded(n)
  BY <1>2, StaysGrounded DEF Sound
<1>6. Sound(n)
  BY <1>1, <1>4, <1>5 DEF Sound
<1>7. ASSUME NEW a \in Unheld(n), a \notin Unheld(m)
      PROVE  x \in DOMAIN m /\ a \in {m[x].left, m[x].right} /\ a \notin {node.left, node.right}
  <2>1. a \in Nodes(m) /\ a # Null /\ Holders(n, a) = {} /\ Holders(m, a) # {}
    BY <1>2, <1>7 DEF Unheld
  <2>2. \A o \in DOMAIN n : a \notin {n[o].left, n[o].right}
    BY <2>1 DEF Holders, Children
  <2>3. PICK o \in DOMAIN m : a \in Children(m, o)
    BY <2>1 DEF Holders
  <2>4. o = x
    BY <1>1, <2>2, <2>3 DEF Children
  <2> QED
    BY <1>1, <2>2, <2>3, <2>4 DEF Children
<1> QED
  BY <1>1, <1>2, <1>3, <1>6, <1>7 DEF Received

LEMMA EndFacts ==
  ASSUME NEW m, Sound(m), NEW x \in InUse(m), NEW n, n = Restrict(m, DOMAIN m \ {x})
  PROVE  /\ Sound(n) /\ DOMAIN n = DOMAIN m \ {x} /\ Nodes(n) = Nodes(m)
         /\ \A o \in DOMAIN n : n[o] = m[o]
         /\ Unheld(n) \subseteq Unheld(m) \cup Children(m, x)
<1>1. /\ DOMAIN n = DOMAIN m \ {x} /\ \A o \in DOMAIN n : n[o] = m[o]
      /\ n = [o \in DOMAIN n |-> n[o]]
  BY DEF Restrict
<1>2. x \notin Block /\ Nodes(n) = Nodes(m) /\ \A a \in Nodes(m) : n[a] = m[a]
  BY <1>1, BlockAssumption DEF Nodes, InUse
<1>3. \A o \in DOMAIN n : IsNode(n, n[o])
  <2>1. \A k : IsNode(m, k) => IsNode(n, k)
    BY <1>2 DEF IsNode
  <2> QED
    BY <1>1, <2>1 DEF Sound
<1>4. Grounded(n)
  BY <1>2, StaysGrounded DEF Sound
<1>5. Sound(n)
  BY <1>1, <1>3, <1>4 DEF Sound
<1>6. ASSUME NEW a \in Unheld(n), a \notin Unheld(m)
      PROVE  a \in Children(m, x)
  <2>1. a \in Nodes(m) /\ Holders(n, a) = {} /\ Holders(m, a) # {}
    BY <1>2, <1>6 DEF Unheld
  <2>2. \A o \in DOMAIN n : a \notin Children(n, o)
    BY <2>1 DEF Holders
  <2>3. PICK o \in DOMAIN m : a \in Children(m, o)
    BY <2>1 DEF Holders
  <2>4. o = x \/ (o \in DOMAIN n /\ n[o] = m[o])
    BY <1>1
  <2> QED
    BY <2>2, <2>3, <2>4 DEF Children
<1> QED
  BY <1>1, <1>2, <1>5, <1>6

-----------------------------------------------------------------------------
(* Released: the set of nodes that are destroyed together.                  *)

\* The nodes that nobody outside X holds, once X is destroyed.
Loosed(m, X) == X \cup {a \in UNION {Children(m, o) : o \in X} : Holders(m, a) \subseteq X}
Loosen(m) == [X \in SUBSET Nodes(m) |-> Loosed(m, X)]
First(m, q) == {a \in {q} \cap DOMAIN m : Holders(m, a) = {}}

LEMMA LoosenFacts ==
  ASSUME NEW m, Sound(m)
  PROVE  /\ Loosen(m) \in [SUBSET Nodes(m) -> SUBSET Nodes(m)]
         /\ \A X \in SUBSET Nodes(m) : Loosen(m)[X] = Loosed(m, X)
         /\ Grows(Loosen(m), Nodes(m))
<1>1. ASSUME NEW X \in SUBSET Nodes(m)
      PROVE  X \subseteq Loosed(m, X) /\ Loosed(m, X) \subseteq Nodes(m)
  <2>1. \A o \in X : Children(m, o) \subseteq Nodes(m)
    BY ChildrenFacts DEF Nodes
  <2> QED
    BY <2>1 DEF Loosed
<1>2. \A X \in SUBSET Nodes(m) : Loosen(m)[X] = Loosed(m, X)
  BY DEF Loosen
<1>3. Loosen(m) \in [SUBSET Nodes(m) -> SUBSET Nodes(m)]
  BY <1>1 DEF Loosen
<1> QED
  BY <1>1, <1>2, <1>3 DEF Grows

LEMMA FirstFacts ==
  ASSUME NEW m, Sound(m), NEW q \in Block \cup {Null}
  PROVE  First(m, q) \in SUBSET Nodes(m)
<1>1. Null \notin DOMAIN m
  BY BlockAssumption, ClientAssumption DEF Sound
<1> QED
  BY <1>1 DEF First, Nodes

LEMMA ReleasedIterates ==
  ASSUME NEW m, Sound(m), NEW q \in Block \cup {Null}
  PROVE  \E f : /\ Iteration(f, SUBSET Nodes(m), First(m, q), Loosen(m), Cardinality(Block))
                /\ Released(m, q) = Restrict(m, DOMAIN m \ f[Cardinality(Block)])
<1> DEFINE N == Cardinality(Block)
           X == SUBSET Nodes(m)
           base == First(m, q)
           Body(f) == [n \in 0..N |-> IF n = 0 THEN base ELSE Loosed(m, f[n - 1])]
           W == CHOOSE f : f = Body(f)
<1>1. N \in Nat /\ 0 \in 0..N /\ \A n \in 1..N : n - 1 \in 0..N /\ n \in 0..N /\ n # 0
  BY NodesFinite
<1>2. base \in X /\ Loosen(m) \in [X -> X]
  BY LoosenFacts, FirstFacts
<1>3. PICK g : Iteration(g, X, base, Loosen(m), N)
  <2> HIDE DEF X, base, N
  <2> QED
    BY <1>1, <1>2, Iterates
<1>4. /\ g \in [0..N -> X] /\ g[0] = base
      /\ \A n \in 1..N : g[n] = Loosed(m, g[n - 1])
  BY <1>1, <1>3, LoosenFacts DEF Iteration
<1>5. g = Body(g)
  <2> HIDE DEF base, N
  <2>1. g = [n \in 0..N |-> g[n]]
    BY <1>4
  <2>2. \A n \in 0..N : n = 0 \/ n \in 1..N
    BY <1>1
  <2> QED
    BY <1>4, <2>1, <2>2
<1>6. W = Body(W)
  <2> HIDE DEF Body
  <2> QED
    BY <1>5
<1>7. Released(m, q) = Restrict(m, DOMAIN m \ W[N])
  BY DEF Released, Loosed, First
<1> HIDE DEF W
<1>8. \A n \in 0..N : W[n] = IF n = 0 THEN base ELSE Loosed(m, W[n - 1])
  <2> HIDE DEF base, N
  <2> QED
    BY <1>6, Zenon
<1>9. W[0] = base /\ \A n \in 1..N : W[n] = Loosed(m, W[n - 1])
  <2> HIDE DEF base, N
  <2> QED
    BY <1>1, <1>8, Zenon
<1>10. ASSUME NEW n \in 1..N, W[n - 1] \in X
       PROVE  W[n] = Loosen(m)[W[n - 1]]
  <2>1. \A Y \in X : Loosen(m)[Y] = Loosed(m, Y)
    BY LoosenFacts
  <2> HIDE DEF X, base, N
  <2> QED
    BY <1>9, <1>10, <2>1
<1>11. W = [n \in 0..N |-> W[n]]
  BY <1>6
<1>12. Iteration(W, X, base, Loosen(m), N)
  <2> HIDE DEF X, base, N
  <2> QED
    BY <1>1, <1>2, <1>9, <1>10, <1>11, Iterated
<1> QED
  BY <1>7, <1>12

\* What a release leaves in memory: a part of it that is sound again.
Shrunk(m, n) ==
  /\ Sound(n) /\ DOMAIN n \subseteq DOMAIN m /\ InUse(n) = InUse(m)
  /\ \A o \in DOMAIN n : n[o] = m[o]

\* Every node of R is held by an object of R.
Supported(m, R) == R \subseteq DOMAIN m /\ \A a \in R \cap Block : Holders(m, a) \cap R # {}

\* Nodes that nobody holds are destroyed, and no node that is supported by a
\* variable is.
LEMMA ReleasedFacts ==
  ASSUME NEW m, Sound(m), NEW q \in Block \cup {Null}, NEW U, Unheld(m) \subseteq U \cup {q},
         NEW n, n = Released(m, q)
  PROVE  /\ Shrunk(m, n)
         /\ Unheld(n) \subseteq U
         /\ \A R : Supported(m, R) => Supported(n, R)
<1> DEFINE N == Cardinality(Block)
           base == First(m, q)
<1>1. PICK f : Iteration(f, SUBSET Nodes(m), base, Loosen(m), N) /\ n = Restrict(m, DOMAIN m \ f[N])
  BY ReleasedIterates
<1> DEFINE D == f[N]
<1>2. base \in SUBSET Nodes(m)
  BY FirstFacts
<1>3. base \subseteq D /\ Loosen(m)[D] = D
  <2>1. N \in Nat /\ IsFiniteSet(Nodes(m)) /\ Cardinality(Nodes(m)) <= N + Cardinality(base)
    <3>1. IsFiniteSet(base)
      BY <1>2, NodesFinite, FS_Subset
    <3> HIDE DEF base
    <3> QED
      BY <3>1, NodesFinite, FS_CardinalityType
  <2>2. Grows(Loosen(m), Nodes(m))
    BY LoosenFacts
  <2> HIDE DEF base, N
  <2> QED
    BY <1>1, <1>2, <2>1, <2>2, Saturation
<1>4. D \in SUBSET Nodes(m)
  BY <1>1, NodesFinite DEF Iteration
<1>5. \A a \in D : Holders(m, a) \subseteq D
  <2> DEFINE X == {a \in D : Holders(m, a) \subseteq D}
  <2>1. base \subseteq X
    BY <1>3 DEF First
  <2>2. Stays(Loosen(m), Nodes(m), X)
    <3> SUFFICES ASSUME NEW Y \in SUBSET Nodes(m), Y \subseteq X, NEW a \in Loosed(m, Y)
                 PROVE  a \in X
      BY LoosenFacts DEF Stays
    <3>1. CASE a \in Y
      BY <3>1
    <3>2. CASE a \notin Y
      <4>1. (\E o \in Y : a \in Children(m, o)) /\ Holders(m, a) \subseteq Y
        BY <3>2 DEF Loosed
      <4>2. Y \subseteq D
        OBVIOUS
      <4> HIDE DEF D, X
      <4>3. a \in Loosed(m, D)
        BY <4>1, <4>2 DEF Loosed
      <4>4. a \in D /\ Holders(m, a) \subseteq D
        BY <1>3, <1>4, <4>1, <4>2, <4>3, LoosenFacts
      <4> QED
        BY <4>4 DEF X
    <3> QED
      BY <3>1, <3>2
  <2>3. N \in Nat
    BY NodesFinite
  <2> HIDE DEF N, base, X
  <2>4. D \subseteq X
    BY <1>1, <2>1, <2>2, <2>3, LeastSaturation
  <2> QED
    BY <2>4 DEF X
<1> HIDE DEF D, base
<1>6. /\ DOMAIN n = DOMAIN m \ D /\ n = [o \in DOMAIN n |-> n[o]]
      /\ \A o \in DOMAIN n : n[o] = m[o]
  BY <1>1 DEF Restrict, D
<1>7. D \subseteq Block /\ D \cap Register = {} /\ Nodes(n) = Nodes(m) \ D
  BY <1>4, <1>6, BlockAssumption DEF Nodes
<1>8. \A o \in DOMAIN n : \A a : a \in Children(m, o) => a \notin D
  BY <1>5, <1>6 DEF Holders
<1>9. Shrunk(m, n)
  <2>1. ASSUME NEW o \in DOMAIN n
        PROVE  IsNode(n, n[o])
    <3>1. IsNode(m, n[o]) /\ n[o] = m[o]
      BY <1>6 DEF Sound
    <3>2. n[o].left \notin D /\ n[o].right \notin D
      <4>1. Null \notin D
        BY <1>7, BlockAssumption
      <4> QED
        BY <1>8, <3>1, <4>1 DEF Children
    <3> QED
      BY <1>7, <3>1, <3>2 DEF IsNode
  <2>2. Grounded(n)
    BY <1>6, <1>7, StaysGrounded DEF Sound, Nodes
  <2>3. DOMAIN n \subseteq DOMAIN m /\ InUse(n) = InUse(m) /\ DOMAIN n \subseteq Register \cup Block
    BY <1>6, <1>7 DEF InUse, Sound
  <2>4. Sound(n)
    BY <1>6, <2>1, <2>2, <2>3 DEF Sound
  <2> QED
    BY <1>6, <2>3, <2>4 DEF Shrunk
<1>10. ASSUME NEW a \in Nodes(n)
       PROVE  Holders(n, a) = Holders(m, a) \ D
  BY <1>6 DEF Holders, Children
<1>11. ASSUME NEW a \in Unheld(n)
       PROVE  a \in U
  <2>1. a \in Nodes(m) /\ a \notin D /\ Holders(m, a) \subseteq D
    BY <1>7, <1>10, <1>11 DEF Unheld
  <2>2. Holders(m, a) = {}
    <3> SUFFICES ASSUME NEW o \in Holders(m, a)
                 PROVE  FALSE
      OBVIOUS
    <3>1. o \in D /\ a \in Children(m, o)
      BY <2>1 DEF Holders
    <3>2. a \in Loosed(m, D)
      BY <2>1, <3>1 DEF Loosed
    <3> QED
      BY <1>3, <1>4, <2>1, <3>2, LoosenFacts
  <2>3. a # q
    BY <1>3, <2>1, <2>2 DEF base, First, Nodes
  <2> QED
    BY <2>1, <2>2, <2>3 DEF Unheld
<1>12. ASSUME NEW R, Supported(m, R)
       PROVE  Supported(n, R)
  <2>1. R \cap D = {}
    <3> SUFFICES ASSUME R \cap D # {}
                 PROVE  FALSE
      OBVIOUS
    <3>1. R \cap D \in SUBSET Nodes(m)
      BY <1>4
    <3>2. PICK a \in R \cap D : Holders(m, a) \cap (R \cap D) = {}
      BY <3>1 DEF Sound, Grounded
    <3>3. Holders(m, a) \subseteq D /\ Holders(m, a) \cap R # {}
      BY <1>5, <1>7, <1>12, <3>2 DEF Supported
    <3> QED
      BY <3>2, <3>3
  <2>2. R \subseteq DOMAIN n
    BY <1>6, <1>12, <2>1 DEF Supported
  <2>3. \A a \in R \cap Block : Holders(n, a) \cap R # {}
    BY <1>10, <1>12, <2>1, <2>2 DEF Supported, Nodes
  <2> QED
    BY <2>2, <2>3 DEF Supported
<1> QED
  BY <1>9, <1>11, <1>12

LEMMA ReleasedAll ==
  ASSUME NEW m, Sound(m), NEW q \in Block \cup {Null}, Unheld(m) \subseteq {q},
         NEW n, n = Released(m, q)
  PROVE  /\ Shrunk(m, n) /\ Unheld(n) = {}
         /\ \A R : Supported(m, R) => Supported(n, R)
<1>1. PICK U : U = {}
  OBVIOUS
<1>2. Unheld(m) \subseteq U \cup {q}
  BY <1>1
<1>3. Shrunk(m, n) /\ Unheld(n) \subseteq U /\ \A R : Supported(m, R) => Supported(n, R)
  BY <1>2, ReleasedFacts
<1> QED
  BY <1>1, <1>3

LEMMA DroppedSome ==
  ASSUME NEW m, Sound(m), NEW node, node.left \in Block \cup {Null}, node.right \in Block \cup {Null},
         NEW U, Unheld(m) \subseteq U \cup {node.left, node.right}, NEW n, n = Dropped(m, node)
  PROVE  /\ Shrunk(m, n) /\ Unheld(n) \subseteq U
         /\ \A R : Supported(m, R) => Supported(n, R)
<1> DEFINE k == Released(m, node.left)
           V == U \cup {node.right}
<1>1. n = Released(k, node.right)
  BY DEF Dropped
<1>2. Unheld(m) \subseteq V \cup {node.left}
  OBVIOUS
<1> HIDE DEF V
<1>3. /\ Shrunk(m, k) /\ Unheld(k) \subseteq V
      /\ \A R : Supported(m, R) => Supported(k, R)
  BY <1>2, ReleasedFacts
<1> HIDE DEF k
<1>4. Sound(k) /\ Unheld(k) \subseteq U \cup {node.right}
  BY <1>3 DEF Shrunk, V
<1>5. Shrunk(k, n) /\ Unheld(n) \subseteq U /\ \A R : Supported(k, R) => Supported(n, R)
  BY <1>1, <1>4, ReleasedFacts
<1>6. Shrunk(m, n)
  BY <1>3, <1>5 DEF Shrunk
<1> QED
  BY <1>3, <1>5, <1>6

LEMMA DroppedFacts ==
  ASSUME NEW m, Sound(m), NEW node, node.left \in Block \cup {Null}, node.right \in Block \cup {Null},
         Unheld(m) \subseteq {node.left, node.right}, NEW n, n = Dropped(m, node)
  PROVE  /\ Shrunk(m, n) /\ Unheld(n) = {}
         /\ \A R : Supported(m, R) => Supported(n, R)
<1>1. PICK U : U = {}
  OBVIOUS
<1>2. Unheld(m) \subseteq U \cup {node.left, node.right}
  BY <1>1
<1>3. Shrunk(m, n) /\ Unheld(n) \subseteq U /\ \A R : Supported(m, R) => Supported(n, R)
  BY <1>2, DroppedSome
<1> QED
  BY <1>1, <1>3

\* Setting one child of a node lets go of no other.
LEMMA SetChild ==
  ASSUME NEW m, NEW node, IsNode(m, node), NEW s \in Side, NEW q \in Nodes(m) \cup {Null},
         NEW k, k = [node EXCEPT ![s] = q]
  PROVE  /\ IsNode(m, k) /\ {node.left, node.right} \ {k.left, k.right} \subseteq {node[s]}
         /\ node[s] \in Nodes(m) \cup {Null}
<1>1. /\ DOMAIN k = DOMAIN node /\ k = [j \in DOMAIN k |-> k[j]]
      /\ \A j \in DOMAIN node : k[j] = IF j = s THEN q ELSE node[j]
  BY DEF IsNode, Side
<1>2. CASE s = "left"
  <2>1. k.left = q /\ k.right = node.right
    BY <1>1, <1>2 DEF IsNode
  <2> QED
    BY <1>1, <1>2, <2>1 DEF IsNode
<1>3. CASE s = "right"
  <2>1. k.right = q /\ k.left = node.left
    BY <1>1, <1>3 DEF IsNode
  <2> QED
    BY <1>1, <1>3, <2>1 DEF IsNode
<1> QED
  BY <1>2, <1>3 DEF Side

LEMMA PutSupports ==
  ASSUME NEW m, Sound(m), NEW x \in Register, NEW node, IsNode(m, node), NEW n, n = Put(m, x, node),
         NEW R, Supported(m, R), x \notin R
  PROVE  Supported(n, R)
<1>1. DOMAIN m \subseteq DOMAIN n /\ \A o \in R : o \in DOMAIN m /\ n[o] = m[o]
  BY DEF Supported, Put
<1> QED
  BY <1>1 DEF Supported, Holders, Children

LEMMA ResetFacts ==
  ASSUME NEW m, Sound(m), Unheld(m) = {}, NEW d \in InUse(m), NEW s \in Side,
         NEW q \in Nodes(m) \cup {Null}, NEW n, n = Reset(m, d, s, q)
  PROVE  /\ Sound(n) /\ Unheld(n) = {} /\ DOMAIN n \subseteq DOMAIN m /\ InUse(n) = InUse(m)
         /\ n[d] = [m[d] EXCEPT ![s] = q]
         /\ \A o \in DOMAIN n : o # d => n[o] = m[o]
         /\ \A R : Supported(m, R) /\ d \notin R => Supported(n, R)
<1> DEFINE node == [m[d] EXCEPT ![s] = q]
           k == Put(m, d, node)
           old == m[d][s]
<1>1. d \in Register /\ d \in DOMAIN m /\ IsNode(m, m[d])
  BY DEF InUse, Sound
<1>2. /\ IsNode(m, node) /\ old \in Nodes(m) \cup {Null}
      /\ {m[d].left, m[d].right} \ {node.left, node.right} \subseteq {old}
  BY <1>1, SetChild
<1>3. n = Released(k, old)
  BY DEF Reset
<1> HIDE DEF node
<1>4. /\ Sound(k) /\ DOMAIN k = DOMAIN m /\ k[d] = node /\ \A o \in DOMAIN m : o # d => k[o] = m[o]
      /\ Unheld(k) \subseteq {old}
  <2>1. Received(m, d, node, k)
    BY <1>1, <1>2, PutFacts
  <2> QED
    BY <1>1, <1>2, <2>1 DEF Received
<1>5. \A R : Supported(m, R) /\ d \notin R => Supported(k, R)
  BY <1>1, <1>2, PutSupports
<1> HIDE DEF k, old
<1>6. old \in Block \cup {Null}
  BY <1>2 DEF Nodes
<1>7. Shrunk(k, n) /\ Unheld(n) = {} /\ \A R : Supported(k, R) => Supported(n, R)
  BY <1>3, <1>4, <1>6, ReleasedAll
<1>8. Sound(n) /\ DOMAIN n \subseteq DOMAIN m /\ InUse(n) = InUse(m) /\ \A o \in DOMAIN n : n[o] = k[o]
  BY <1>4, <1>7 DEF Shrunk, InUse
<1>9. n[d] = node
  BY <1>4, <1>8 DEF InUse
<1> QED
  BY <1>4, <1>5, <1>7, <1>8, <1>9 DEF node

-----------------------------------------------------------------------------
(* Reachable(m, o) is closed, and in memory without unheld nodes every node *)
(* is reached from a variable.                                              *)

From(m, o) == {o} \cup Nodes(m)
Spreads(m, X) == X \cup UNION {Children(m, p) : p \in X}
Spread(m, o) == [X \in SUBSET From(m, o) |-> Spreads(m, X)]

LEMMA SpreadFacts ==
  ASSUME NEW m, Sound(m), NEW o \in DOMAIN m
  PROVE  /\ Spread(m, o) \in [SUBSET From(m, o) -> SUBSET From(m, o)]
         /\ \A X \in SUBSET From(m, o) : Spread(m, o)[X] = Spreads(m, X)
         /\ Grows(Spread(m, o), From(m, o))
         /\ From(m, o) \subseteq DOMAIN m
<1>1. From(m, o) \subseteq DOMAIN m
  BY DEF From, Nodes
<1>2. ASSUME NEW X \in SUBSET From(m, o)
      PROVE  X \subseteq Spreads(m, X) /\ Spreads(m, X) \subseteq From(m, o)
  <2>1. \A p \in X : Children(m, p) \subseteq Nodes(m)
    BY <1>1, ChildrenFacts
  <2> QED
    BY <2>1 DEF Spreads, From
<1>3. \A X \in SUBSET From(m, o) : Spread(m, o)[X] = Spreads(m, X)
  BY DEF Spread
<1>4. Spread(m, o) \in [SUBSET From(m, o) -> SUBSET From(m, o)]
  BY <1>2 DEF Spread
<1> QED
  BY <1>1, <1>2, <1>3, <1>4 DEF Grows

LEMMA ReachableIterates ==
  ASSUME NEW m, Sound(m), NEW o \in DOMAIN m
  PROVE  \E f : /\ Iteration(f, SUBSET From(m, o), {o}, Spread(m, o), Cardinality(Block))
                /\ Reachable(m, o) = f[Cardinality(Block)]
<1> DEFINE N == Cardinality(Block)
           X == SUBSET From(m, o)
           base == {o}
           Body(f) == [n \in 0..N |-> IF n = 0 THEN base ELSE Spreads(m, f[n - 1])]
           W == CHOOSE f : f = Body(f)
<1>1. N \in Nat /\ 0 \in 0..N /\ \A n \in 1..N : n - 1 \in 0..N /\ n \in 0..N /\ n # 0
  BY NodesFinite
<1>2. base \in X /\ Spread(m, o) \in [X -> X]
  BY SpreadFacts DEF From
<1>3. PICK g : Iteration(g, X, base, Spread(m, o), N)
  <2> HIDE DEF X, base, N
  <2> QED
    BY <1>1, <1>2, Iterates
<1>4. /\ g \in [0..N -> X] /\ g[0] = base
      /\ \A n \in 1..N : g[n] = Spreads(m, g[n - 1])
  <2>1. /\ g \in [0..N -> X] /\ g[0] = base
        /\ \A n \in 1..N : g[n] = Spread(m, o)[g[n - 1]]
    BY <1>3 DEF Iteration
  <2>2. \A n \in 1..N : g[n - 1] \in X
    <3> HIDE DEF X, N
    <3> QED
      BY <1>1, <2>1
  <2>3. \A Y \in X : Spread(m, o)[Y] = Spreads(m, Y)
    BY SpreadFacts
  <2> HIDE DEF X, base, N
  <2> QED
    BY <2>1, <2>2, <2>3
<1>5. g = Body(g)
  <2> HIDE DEF base, N
  <2>1. g = [n \in 0..N |-> g[n]]
    BY <1>4
  <2>2. \A n \in 0..N : n = 0 \/ n \in 1..N
    BY <1>1
  <2> QED
    BY <1>4, <2>1, <2>2
<1>6. W = Body(W)
  <2> HIDE DEF Body
  <2> QED
    BY <1>5
<1>7. Reachable(m, o) = W[N]
  BY DEF Reachable, Spreads
<1> HIDE DEF W
<1>8. \A n \in 0..N : W[n] = IF n = 0 THEN base ELSE Spreads(m, W[n - 1])
  <2> HIDE DEF base, N
  <2> QED
    BY <1>6, Zenon
<1>9. W[0] = base /\ \A n \in 1..N : W[n] = Spreads(m, W[n - 1])
  <2> HIDE DEF base, N
  <2> QED
    BY <1>1, <1>8, Zenon
<1>10. ASSUME NEW n \in 1..N, W[n - 1] \in X
       PROVE  W[n] = Spread(m, o)[W[n - 1]]
  <2>1. \A Y \in X : Spread(m, o)[Y] = Spreads(m, Y)
    BY SpreadFacts
  <2> HIDE DEF X, base, N
  <2> QED
    BY <1>9, <1>10, <2>1
<1>11. W = [n \in 0..N |-> W[n]]
  BY <1>6
<1>12. Iteration(W, X, base, Spread(m, o), N)
  <2> HIDE DEF X, base, N
  <2> QED
    BY <1>1, <1>2, <1>9, <1>10, <1>11, Iterated
<1> QED
  BY <1>7, <1>12

LEMMA ReachableFacts ==
  ASSUME NEW m, Sound(m), NEW o \in DOMAIN m
  PROVE  /\ o \in Reachable(m, o) /\ Reachable(m, o) \subseteq {o} \cup Nodes(m)
         /\ \A p \in Reachable(m, o) : Children(m, p) \subseteq Reachable(m, o)
         /\ o \in Register => Supported(m, Reachable(m, o))
<1> DEFINE N == Cardinality(Block)
           S == From(m, o)
           base == {o}
<1>1. PICK f : Iteration(f, SUBSET S, base, Spread(m, o), N) /\ Reachable(m, o) = f[N]
  BY ReachableIterates
<1> DEFINE W == f[N]
<1>2. N \in Nat /\ base \in SUBSET S /\ S \subseteq DOMAIN m
  BY NodesFinite, SpreadFacts DEF From
<1>3. IsFiniteSet(S) /\ Cardinality(S) <= N + Cardinality(base)
  <2>1. IsFiniteSet(Nodes(m)) /\ Cardinality(Nodes(m)) \in Nat /\ Cardinality(Nodes(m)) <= N
    BY NodesFinite
  <2>2. /\ IsFiniteSet(Nodes(m) \cup {o})
        /\ Cardinality(Nodes(m) \cup {o}) =
             IF o \in Nodes(m) THEN Cardinality(Nodes(m)) ELSE Cardinality(Nodes(m)) + 1
    BY <2>1, FS_AddElement
  <2>3. Cardinality(base) = 1
    BY FS_Singleton
  <2>4. S = Nodes(m) \cup {o}
    BY DEF From
  <2> HIDE DEF S, N, base
  <2> QED
    BY <1>2, <2>1, <2>2, <2>3, <2>4
<1>4. W \in SUBSET S
  BY <1>1, <1>2 DEF Iteration
<1>5. base \subseteq W /\ Spread(m, o)[W] = W
  <2>1. Grows(Spread(m, o), S)
    BY SpreadFacts
  <2> HIDE DEF S, N, base
  <2> QED
    BY <1>1, <1>2, <1>3, <2>1, Saturation
<1>6. Spreads(m, W) = W
  BY <1>4, <1>5, SpreadFacts
<1> HIDE DEF W
<1>7. \A p \in W : Children(m, p) \subseteq W
  BY <1>6 DEF Spreads
<1>8. ASSUME o \in Register
      PROVE  Supported(m, W)
  <2> DEFINE X == {a \in W : a = o \/ Holders(m, a) \cap W # {}}
  <2>1. base \subseteq X
    BY <1>5
  <2>2. Stays(Spread(m, o), S, X)
    <3> SUFFICES ASSUME NEW Y \in SUBSET S, Y \subseteq X, NEW a \in Spreads(m, Y)
                 PROVE  a \in X
      BY SpreadFacts DEF Stays
    <3>1. CASE a \in Y
      BY <3>1
    <3>2. CASE a \notin Y
      <4>1. PICK p \in Y : a \in Children(m, p)
        BY <3>2 DEF Spreads
      <4>2. p \in W /\ p \in DOMAIN m
        BY <1>2, <1>4
      <4>3. a \in W /\ p \in Holders(m, a)
        BY <1>7, <4>1, <4>2 DEF Holders
      <4> QED
        BY <4>2, <4>3
    <3> QED
      BY <3>1, <3>2
  <2> HIDE DEF N, S, base, X
  <2>3. W \subseteq X
    BY <1>1, <1>2, <2>1, <2>2, LeastSaturation DEF W
  <2>4. \A a \in W \cap Block : Holders(m, a) \cap W # {}
    BY <1>8, <2>3, BlockAssumption DEF X
  <2> QED
    BY <1>2, <1>4, <2>4 DEF Supported
<1> QED
  BY <1>1, <1>4, <1>5, <1>7, <1>8 DEF W, From

LEMMA ObjectsFacts ==
  ASSUME Sound(memory)
  PROVE  /\ Objects \subseteq DOMAIN memory
         /\ \A o \in Objects : \E x \in InUse(memory) : o \in Reachable(memory, x)
<1>1. \A x \in InUse(memory) : x \in DOMAIN memory
  BY DEF InUse
<1>2. \A x \in InUse(memory) : Reachable(memory, x) \subseteq DOMAIN memory
  BY <1>1, ReachableFacts, NodesFinite
<1> QED
  BY <1>2 DEF Objects

\* In sound memory, where every node is held, every node is reached: one of
\* those that are not would have no holder among them.
LEMMA HeldReclaimed ==
  ASSUME Sound(memory), Unheld(memory) = {}
  PROVE  Reclaimed
<1>1. \A o \in DOMAIN memory : Children(memory, o) \subseteq DOMAIN memory
  BY ChildrenFacts, NodesFinite
<1>2. InUse(memory) \subseteq Objects
  BY ReachableFacts DEF Objects, InUse
<1>3. \A o \in Objects : o \in DOMAIN memory /\ Children(memory, o) \subseteq Objects
  <2> SUFFICES ASSUME NEW x \in InUse(memory), NEW o \in Reachable(memory, x)
               PROVE  o \in DOMAIN memory /\ Children(memory, o) \subseteq Objects
    BY DEF Objects
  <2>1. Children(memory, o) \subseteq Reachable(memory, x)
    BY ReachableFacts DEF InUse
  <2> QED
    BY <2>1, ObjectsFacts DEF Objects
<1> DEFINE Z == Nodes(memory) \ Objects
<1>4. Z = {}
  <2> SUFFICES ASSUME Z # {}
               PROVE  FALSE
    OBVIOUS
  <2>1. PICK a \in Z : Holders(memory, a) \cap Z = {}
    <3> HIDE DEF Z
    <3>1. Z \in SUBSET Nodes(memory)
      BY DEF Z
    <3> QED
      BY <3>1 DEF Sound, Grounded
  <2>2. PICK o \in DOMAIN memory : a \in Children(memory, o)
    BY DEF Unheld, Holders
  <2>3. o \notin Z
    BY <2>1, <2>2 DEF Holders
  <2>4. o \in Objects
    BY <1>2, <2>2, <2>3 DEF Sound, Nodes, InUse
  <2> QED
    BY <1>3, <2>2, <2>4
<1>5. DOMAIN memory \subseteq Objects
  BY <1>2, <1>4 DEF Sound, Nodes, InUse
<1> QED
  BY <1>1, <1>5 DEF Reclaimed

-----------------------------------------------------------------------------
(* New nodes.                                                               *)

\* n is m with a new node, which is the child of nothing yet.
Grown(m, a, l, n) ==
  /\ Sound(n) /\ DOMAIN n = DOMAIN m \cup {a} /\ n[a] = l
  /\ \A o \in DOMAIN m : n[o] = m[o]
  /\ Unheld(n) \subseteq Unheld(m) \cup {a}
  /\ \A k : IsNode(m, k) => IsNode(n, k)
  /\ \A o \in DOMAIN n : a \notin Children(n, o)

LEMMA NewNodeFacts ==
  ASSUME NEW m, Sound(m), NEW a \in Block \ DOMAIN m, NEW l, IsNode(m, l), NEW n, n = Put(m, a, l)
  PROVE  Grown(m, a, l, n)
<1>1. /\ DOMAIN n = DOMAIN m \cup {a} /\ n = [o \in DOMAIN n |-> n[o]]
      /\ n[a] = l /\ \A o \in DOMAIN m : n[o] = m[o]
  BY DEF Put
<1>2. Nodes(n) = Nodes(m) \cup {a} /\ a \notin Nodes(m)
  BY <1>1 DEF Nodes
<1>3. \A k : IsNode(m, k) => IsNode(n, k)
  BY <1>2 DEF IsNode
<1>4. \A o \in DOMAIN n : IsNode(m, n[o])
  BY <1>1 DEF Sound
<1>5. \A o \in DOMAIN n : Children(n, o) \subseteq Nodes(m)
  BY <1>4 DEF Children, IsNode
<1>6. \A o \in Nodes(m) : o \in DOMAIN m /\ o # a /\ Children(n, o) = Children(m, o)
  BY <1>1, <1>2 DEF Children, Nodes
<1>7. Grounded(n)
  <2> SUFFICES ASSUME NEW Z \in SUBSET Nodes(n), Z # {}
               PROVE  /\ \E c \in Z : Children(n, c) \cap Z = {}
                      /\ \E c \in Z : Holders(n, c) \cap Z = {}
    BY DEF Grounded
  <2> DEFINE Y == Z \cap Nodes(m)
  <2>1. \E c \in Z : Children(n, c) \cap Z = {}
    <3>1. CASE Y = {}
      BY <1>2, <1>5, <3>1 DEF Nodes
    <3>2. CASE Y # {}
      <4>1. PICK c \in Y : Children(m, c) \cap Y = {}
        BY <3>2 DEF Sound, Grounded
      <4> QED
        BY <1>5, <1>6, <4>1 DEF Nodes
    <3> QED
      BY <3>1, <3>2
  <2>2. \E c \in Z : Holders(n, c) \cap Z = {}
    <3>1. CASE Z \subseteq Nodes(m)
      <4>1. PICK c \in Z : Holders(m, c) \cap Z = {}
        BY <3>1 DEF Sound, Grounded
      <4> QED
        BY <1>6, <3>1, <4>1 DEF Holders
    <3>2. CASE ~(Z \subseteq Nodes(m))
      <4>1. PICK c \in Z : c \notin Nodes(m)
        BY <3>2
      <4> QED
        BY <1>5, <4>1 DEF Holders
    <3> QED
      BY <3>1, <3>2
  <2> QED
    BY <2>1, <2>2
<1>8. Sound(n)
  BY <1>1, <1>3, <1>4, <1>7 DEF Sound
<1>9. ASSUME NEW c \in Unheld(n), c # a
      PROVE  c \in Unheld(m)
  <2>1. c \in Nodes(m) /\ Holders(n, c) = {}
    BY <1>2, <1>9 DEF Unheld
  <2>2. Holders(m, c) = {}
    BY <1>1, <2>1 DEF Holders, Children
  <2> QED
    BY <2>1, <2>2 DEF Unheld
<1> QED
  BY <1>1, <1>2, <1>3, <1>5, <1>8, <1>9 DEF Grown

\* n is m with two new nodes, which are the children of nothing yet.
Extended(m, p, l, r, n) ==
  /\ {p[1], p[2]} \subseteq Block \ DOMAIN m
  /\ Sound(n) /\ DOMAIN n = DOMAIN m \cup {p[1], p[2]} /\ n[p[1]] = l /\ n[p[2]] = r
  /\ \A o \in DOMAIN m : n[o] = m[o]
  /\ Unheld(n) \subseteq Unheld(m) \cup {p[1], p[2]}
  /\ \A k : IsNode(m, k) => IsNode(n, k)

LEMMA AllocatedFacts ==
  ASSUME NEW m, Sound(m), NEW p \in TwoFree(m), NEW l, IsNode(m, l), NEW r, IsNode(m, r),
         NEW n, n = Allocated(m, p, l, r)
  PROVE  Extended(m, p, l, r, n)
<1> DEFINE a == p[1]
           b == p[2]
           h == Put(m, a, l)
<1>1. a \in Block \ DOMAIN m /\ b \in Block \ DOMAIN m /\ a # b
  BY DEF TwoFree
<1>2. n = Put(h, b, r) /\ h = Put(m, a, l)
  BY DEF Allocated
<1> HIDE DEF a, b, h
<1>3. Grown(m, a, l, h)
  BY <1>1, <1>2, NewNodeFacts
<1>4. Sound(h) /\ b \in Block \ DOMAIN h /\ IsNode(h, r)
  BY <1>1, <1>3 DEF Grown
<1>5. Grown(h, b, r, n)
  BY <1>2, <1>4, NewNodeFacts
<1> QED
  BY <1>1, <1>3, <1>5 DEF a, b, Extended, Grown

\* The call of make_shared that throws leaves nothing of what the parameters
\* held or the other call made.
LEMMA UnwoundFacts ==
  ASSUME NEW m, Sound(m), NEW l, IsNode(m, l), NEW r, IsNode(m, r),
         Unheld(m) \subseteq {l.left, l.right, r.left, r.right}, NEW n, n = Unwound(m, l, r)
  PROVE  Shrunk(m, n) /\ Unheld(n) = {}
<1>1. /\ l.left \in Block \cup {Null} /\ l.right \in Block \cup {Null}
      /\ r.left \in Block \cup {Null} /\ r.right \in Block \cup {Null}
  BY DEF IsNode, Nodes
<1> DEFINE U == {r.left, r.right}
<1>2. CASE Block \subseteq DOMAIN m
  <2> DEFINE h == Dropped(m, l)
  <2>1. n = Dropped(h, r) /\ h = Dropped(m, l)
    BY <1>2 DEF Unwound
  <2>2. Unheld(m) \subseteq U \cup {l.left, l.right}
    OBVIOUS
  <2> HIDE DEF h, U
  <2>3. Shrunk(m, h) /\ Unheld(h) \subseteq U
    BY <1>1, <2>1, <2>2, DroppedSome
  <2>4. Sound(h) /\ Unheld(h) \subseteq {r.left, r.right}
    BY <2>3 DEF Shrunk, U
  <2>5. Shrunk(h, n) /\ Unheld(n) = {}
    BY <1>1, <2>1, <2>4, DroppedFacts
  <2> QED
    BY <2>3, <2>5 DEF Shrunk
<1>3. CASE ~(Block \subseteq DOMAIN m)
  <2>1. PICK a \in Block \ DOMAIN m : n = Dropped(Released(Put(m, a, l), a), r)
    <3> DEFINE c == CHOOSE a \in Block \ DOMAIN m : TRUE
    <3>1. c \in Block \ DOMAIN m
      BY <1>3
    <3>2. n = Dropped(Released(Put(m, c, l), c), r)
      BY <1>3 DEF Unwound
    <3> QED
      BY <3>1, <3>2
  <2> DEFINE h == Put(m, a, l)
             k == Released(h, a)
  <2>2. n = Dropped(k, r) /\ k = Released(h, a) /\ h = Put(m, a, l)
    BY <2>1
  <2> HIDE DEF h, k
  <2>3. Grown(m, a, l, h)
    BY <2>2, NewNodeFacts
  <2>4. Sound(h) /\ Unheld(h) \subseteq U \cup {a}
    <3>1. Sound(h) /\ a \in DOMAIN h /\ h[a] = l /\ Unheld(h) \subseteq Unheld(m) \cup {a}
      BY <2>3 DEF Grown
    <3>2. ASSUME NEW c \in Unheld(h), c \in {l.left, l.right}
          PROVE  FALSE
      <4>1. c # Null /\ Holders(h, c) = {}
        BY <3>2, NodesFinite DEF Unheld
      <4>2. a \in Holders(h, c)
        BY <3>1, <3>2, <4>1 DEF Holders, Children
      <4> QED
        BY <4>1, <4>2
    <3> QED
      BY <3>1, <3>2
  <2> HIDE DEF U
  <2>5. Shrunk(h, k) /\ Unheld(k) \subseteq U
    BY <2>2, <2>4, ReleasedFacts
  <2>6. Sound(k) /\ Unheld(k) \subseteq {r.left, r.right}
    BY <2>5 DEF Shrunk, U
  <2>7. Shrunk(k, n) /\ Unheld(n) = {}
    BY <1>1, <2>2, <2>6, DroppedFacts
  <2>8. Sound(n) /\ DOMAIN n \subseteq DOMAIN h /\ InUse(n) = InUse(h) /\ \A o \in DOMAIN n : n[o] = h[o]
    BY <2>5, <2>7 DEF Shrunk
  <2>9. a \notin DOMAIN n
    <3> SUFFICES ASSUME a \in DOMAIN n
                 PROVE  FALSE
      OBVIOUS
    <3>1. Holders(n, a) = {}
      BY <2>3, <2>8 DEF Grown, Holders, Children
    <3> QED
      BY <2>7, <3>1 DEF Unheld, Nodes
  <2>10. InUse(h) = InUse(m)
    BY <2>3, BlockAssumption DEF Grown, InUse
  <2>11. Shrunk(m, n)
    BY <2>3, <2>8, <2>9, <2>10 DEF Grown, Shrunk
  <2> QED
    BY <2>7, <2>11
<1> QED
  BY <1>2, <1>3

-----------------------------------------------------------------------------
(* The trees that nodes are.  The depth bound is enough: no path is longer  *)
(* than there are nodes.                                                    *)

With(node, l, r) == [node EXCEPT !.left = l, !.right = r]

\* The trees of the nodes of m down to depth n, given those down to depth n - 1.
Layer(m, n, nearer) ==
  [p \in Block \cup {Null} |->
     IF n = 0 \/ p \notin DOMAIN m THEN Null
     ELSE [m[p] EXCEPT !.left = nearer[@], !.right = nearer[@]]]

Trees(m) ==
  LET below[n \in 0..Cardinality(Block)] == Layer(m, n, below[n - 1]) IN below

LEMMA LayersExist ==
  ASSUME NEW m, NEW N \in Nat
  PROVE  \E t : t = [n \in 0..N |-> Layer(m, n, t[n - 1])]
<1> DEFINE Upto(k) == \E t : t = [n \in 0..k |-> Layer(m, n, t[n - 1])]
           P == {k \in 0..N : Upto(k)}
<1>0. \A u, v : Layer(m, 0, u) = Layer(m, 0, v)
  BY DEF Layer
<1>1. 0 \in P
  <2> DEFINE t == [n \in 0..0 |-> Layer(m, 0, <<>>)]
  <2>1. t = [n \in 0..0 |-> Layer(m, n, t[n - 1])]
    <3>1. \A n \in 0..0 : n = 0
      OBVIOUS
    <3> QED
      BY <1>0, <3>1
  <2>2. Upto(0)
    <3> HIDE DEF t
    <3> QED
      BY <2>1
  <2> QED
    BY <2>2
<1>2. ASSUME NEW k \in 0..N, k # N, k \in P
      PROVE  k + 1 \in P
  <2>1. PICK t : t = [n \in 0..k |-> Layer(m, n, t[n - 1])]
    BY <1>2
  <2> DEFINE u == [n \in 0..k + 1 |-> IF n = k + 1 THEN Layer(m, n, t[k]) ELSE t[n]]
  <2>2. \A n \in 0..k : u[n] = t[n]
    BY <1>2
  <2>3. ASSUME NEW n \in 0..k + 1
        PROVE  u[n] = Layer(m, n, u[n - 1])
    <3>1. CASE n = k + 1
      <4>1. n - 1 = k /\ k \in 0..k
        BY <1>2, <3>1
      <4> QED
        BY <2>2, <3>1, <4>1
    <3>2. CASE n # k + 1 /\ n # 0
      <4>1. n \in 0..k /\ n - 1 \in 0..k
        BY <1>2, <3>2
      <4>2. t[n] = Layer(m, n, t[n - 1])
        BY <2>1, <4>1
      <4> QED
        BY <2>2, <4>1, <4>2
    <3>3. CASE n # k + 1 /\ n = 0
      <4>1. n \in 0..k
        BY <1>2, <3>3
      <4>2. t[n] = Layer(m, n, t[n - 1])
        BY <2>1, <4>1
      <4> QED
        BY <1>0, <2>2, <3>3, <4>1, <4>2
    <3> QED
      BY <3>1, <3>2, <3>3
  <2>4. u = [n \in 0..k + 1 |-> Layer(m, n, u[n - 1])]
    <3>1. u = [n \in 0..k + 1 |-> u[n]]
      OBVIOUS
    <3> HIDE DEF u
    <3> QED
      BY <2>3, <3>1
  <2>5. Upto(k + 1)
    <3> HIDE DEF u
    <3> QED
      BY <2>4
  <2> QED
    BY <1>2, <2>5
<1>3. N \in P
  <2> HIDE DEF P
  <2> QED
    BY <1>1, <1>2, CountingInduction
<1> QED
  BY <1>3

LEMMA TreesFacts ==
  ASSUME NEW m, Sound(m), NEW T, T = Trees(m), NEW N, N = Cardinality(Block)
  PROVE  /\ \A n \in 0..N : T[n][Null] = Null
         /\ \A p \in Nodes(m) : T[0][p] = Null
         /\ \A n \in 1..N, p \in Nodes(m) : T[n][p] = With(m[p], T[n - 1][m[p].left], T[n - 1][m[p].right])
         /\ \A node : IsNode(m, node) => TreeOf(m, node) = With(node, T[N][node.left], T[N][node.right])
<1>1. N \in Nat /\ Null \notin DOMAIN m
  BY NodesFinite, BlockAssumption, ClientAssumption DEF Sound
<1>2. T = [n \in 0..N |-> Layer(m, n, T[n - 1])]
  <2>1. \E t : t = [n \in 0..N |-> Layer(m, n, t[n - 1])]
    <3>1. N \in Nat
      BY <1>1
    <3> QED
      BY <3>1, LayersExist, Zenon
  <2>2. T = CHOOSE t : t = [n \in 0..N |-> Layer(m, n, t[n - 1])]
    BY DEF Trees
  <2> QED
    BY <2>1, <2>2
<1>3. \A n \in 0..N : T[n] = Layer(m, n, T[n - 1])
  BY <1>2, Zenon
<1>4. \A node, t : IsNode(m, node) =>
        [node EXCEPT !.left = t[@], !.right = t[@]] = With(node, t[node.left], t[node.right])
  BY DEF IsNode, With
<1>5. ASSUME NEW n \in 0..N
      PROVE  T[n][Null] = Null
  <2>1. T[n] = Layer(m, n, T[n - 1])
    BY <1>3
  <2> QED
    BY <1>1, <2>1 DEF Layer
<1>6. ASSUME NEW n \in 1..N, NEW p \in Nodes(m)
      PROVE  T[n][p] = With(m[p], T[n - 1][m[p].left], T[n - 1][m[p].right])
  <2>1. n \in 0..N /\ n # 0 /\ p \in DOMAIN m /\ p \in Block /\ IsNode(m, m[p])
    BY <1>1 DEF Nodes, Sound
  <2>2. T[n] = Layer(m, n, T[n - 1])
    BY <1>3, <2>1
  <2> DEFINE t == T[n - 1]
  <2>3. T[n] = Layer(m, n, t)
    BY <2>2
  <2> HIDE DEF t
  <2>4. T[n][p] = [m[p] EXCEPT !.left = t[@], !.right = t[@]]
    BY <2>1, <2>3 DEF Layer
  <2>5. T[n][p] = With(m[p], t[m[p].left], t[m[p].right])
    BY <1>4, <2>1, <2>4
  <2> QED
    BY <2>5 DEF t
<1>7. ASSUME NEW p \in Nodes(m)
      PROVE  T[0][p] = Null
  <2>1. T[0] = Layer(m, 0, T[0 - 1]) /\ p \in Block
    BY <1>1, <1>3 DEF Nodes
  <2> DEFINE t == T[0 - 1]
  <2>2. T[0] = Layer(m, 0, t)
    BY <2>1
  <2> HIDE DEF t
  <2> QED
    BY <2>1, <2>2 DEF Layer
<1>8. ASSUME NEW node, IsNode(m, node)
      PROVE  TreeOf(m, node) = With(node, T[N][node.left], T[N][node.right])
  <2>1. TreeOf(m, node) = [node EXCEPT !.left = T[N][@], !.right = T[N][@]]
    BY DEF TreeOf, Trees, Layer
  <2> QED
    BY <1>4, <1>8, <2>1
<1> QED
  BY <1>5, <1>6, <1>7, <1>8

\* Nodes all of whose children are in X join X.
Deepens(m, X) == X \cup {a \in Nodes(m) : Children(m, a) \subseteq X}
Deepen(m) == [X \in SUBSET Nodes(m) |-> Deepens(m, X)]

LEMMA DepthFacts ==
  ASSUME NEW m, Sound(m), NEW N, N = Cardinality(Block)
  PROVE  \E f : /\ Iteration(f, SUBSET Nodes(m), {}, Deepen(m), N) /\ f[N] = Nodes(m)
                /\ \A n \in 1..N : f[n] = Deepens(m, f[n - 1])
<1>1. \A X \in SUBSET Nodes(m) : Deepen(m)[X] = Deepens(m, X)
  BY DEF Deepen
<1>2. Deepen(m) \in [SUBSET Nodes(m) -> SUBSET Nodes(m)]
  BY DEF Deepen, Deepens
<1>3. Grows(Deepen(m), Nodes(m))
  BY <1>1 DEF Grows, Deepens
<1>4. N \in Nat /\ IsFiniteSet(Nodes(m)) /\ Cardinality(Nodes(m)) <= N + Cardinality({})
  BY NodesFinite, FS_EmptySet
<1>5. {} \in SUBSET Nodes(m)
  OBVIOUS
<1>6. PICK base : base = {}
  OBVIOUS
<1>7. PICK f : Iteration(f, SUBSET Nodes(m), base, Deepen(m), N)
  BY <1>2, <1>4, <1>5, <1>6, Iterates
<1>8. f \in [0..N -> SUBSET Nodes(m)] /\ \A n \in 1..N : f[n] = Deepen(m)[f[n - 1]]
  BY <1>7 DEF Iteration
<1>9. \A n \in 1..N : f[n] = Deepens(m, f[n - 1])
  <2> SUFFICES ASSUME NEW n \in 1..N
               PROVE  f[n] = Deepens(m, f[n - 1])
    OBVIOUS
  <2>1. n - 1 \in 0..N
    BY <1>4
  <2>2. f[n - 1] \in SUBSET Nodes(m)
    BY <1>8, <2>1
  <2> QED
    BY <1>1, <1>8, <2>2
<1>10. Deepen(m)[f[N]] = f[N]
  BY <1>3, <1>4, <1>5, <1>6, <1>7, Saturation
<1> DEFINE Z == Nodes(m) \ f[N]
<1>11. f[N] \in SUBSET Nodes(m)
  BY <1>4, <1>8
<1>12. Z = {}
  <2> SUFFICES ASSUME Z # {}
               PROVE  FALSE
    OBVIOUS
  <2>1. PICK a \in Z : Children(m, a) \cap Z = {}
    <3> HIDE DEF Z
    <3>1. Z \in SUBSET Nodes(m)
      BY DEF Z
    <3> QED
      BY <3>1 DEF Sound, Grounded
  <2>2. Children(m, a) \subseteq Nodes(m)
    BY ChildrenFacts, NodesFinite
  <2>3. a \in Deepens(m, f[N])
    BY <2>1, <2>2 DEF Deepens
  <2> QED
    BY <1>1, <1>10, <1>11, <2>3
<1>13. f[N] = Nodes(m)
  BY <1>11, <1>12
<1> HIDE DEF Z
<1> QED
  BY <1>6, <1>7, <1>9, <1>13

Below(m) == Trees(m)[Cardinality(Block)]

LEMMA TreeOfFacts ==
  ASSUME NEW m, Sound(m), NEW B, B = Below(m)
  PROVE  /\ B[Null] = Null
         /\ \A p \in Nodes(m) : B[p] = With(m[p], B[m[p].left], B[m[p].right])
         /\ \A node : IsNode(m, node) => TreeOf(m, node) = With(node, B[node.left], B[node.right])
<1> DEFINE N == Cardinality(Block)
           T == Trees(m)
<1>1. N \in Nat
  BY NodesFinite
<1>2. /\ \A n \in 0..N : T[n][Null] = Null
      /\ \A n \in 1..N, p \in Nodes(m) : T[n][p] = With(m[p], T[n - 1][m[p].left], T[n - 1][m[p].right])
      /\ \A node : IsNode(m, node) => TreeOf(m, node) = With(node, T[N][node.left], T[N][node.right])
  BY TreesFacts
<1>3. PICK f : /\ Iteration(f, SUBSET Nodes(m), {}, Deepen(m), N) /\ f[N] = Nodes(m)
               /\ \A n \in 1..N : f[n] = Deepens(m, f[n - 1])
  <2>1. N = Cardinality(Block)
    OBVIOUS
  <2> HIDE DEF N
  <2> QED
    BY <2>1, DepthFacts
<1>4. f \in [0..N -> SUBSET Nodes(m)] /\ f[0] = {}
  BY <1>3 DEF Iteration
<1>5. B = T[N]
  BY DEF Below
<1> HIDE DEF N, T
<1> DEFINE Q == {k \in 0..N : \A a \in f[k], j \in k..N : T[j][a] = With(m[a], B[m[a].left], B[m[a].right])}
<1>6. 0 \in Q
  BY <1>1, <1>4
<1>7. ASSUME NEW k \in 0..N, k # N, k \in Q
      PROVE  k + 1 \in Q
  <2>1. k + 1 \in 1..N /\ k + 1 \in 0..N /\ (k + 1) - 1 = k /\ N \in k..N
    BY <1>1, <1>7
  <2>2. \A a \in f[k], j \in k..N : T[j][a] = With(m[a], B[m[a].left], B[m[a].right])
    BY <1>7
  <2>3. \A a \in f[k] \cup {Null}, j \in k..N : T[j][a] = B[a]
    BY <1>1, <1>2, <1>5, <2>1, <2>2
  <2>4. ASSUME NEW a \in f[k + 1], NEW j \in k + 1..N
        PROVE  T[j][a] = With(m[a], B[m[a].left], B[m[a].right])
    <3>1. j \in k..N /\ j \in 1..N /\ j - 1 \in k..N
      BY <1>1, <2>1
    <3>2. CASE a \in f[k]
      BY <2>2, <3>1, <3>2
    <3>3. CASE a \notin f[k]
      <4>1. a \in Nodes(m) /\ Children(m, a) \subseteq f[k]
        BY <1>3, <2>1, <3>3 DEF Deepens
      <4>2. m[a].left \in f[k] \cup {Null} /\ m[a].right \in f[k] \cup {Null}
        BY <4>1 DEF Children
      <4>3. T[j - 1][m[a].left] = B[m[a].left] /\ T[j - 1][m[a].right] = B[m[a].right]
        BY <2>3, <3>1, <4>2
      <4>4. T[j][a] = With(m[a], T[j - 1][m[a].left], T[j - 1][m[a].right])
        BY <1>2, <3>1, <4>1
      <4> QED
        BY <4>3, <4>4
    <3> QED
      BY <3>2, <3>3
  <2> QED
    BY <2>1, <2>4
<1>8. N \in Q
  <2> HIDE DEF Q
  <2>1. \A k \in 0..N : k # N /\ k \in Q => k + 1 \in Q
    BY <1>7
  <2>2. N \in 0..N
    BY <1>1
  <2> QED
    BY <1>1, <1>6, <2>1, <2>2, CountingInduction
<1>9. N \in 0..N /\ N \in N..N
  BY <1>1
<1> QED
  BY <1>2, <1>3, <1>5, <1>8, <1>9

\* The nodes that are in both memories are the same.
Agree(m, n) == \A a \in Nodes(m) \cap Nodes(n) : m[a] = n[a]

\* A tree is what its nodes are, wherever else they are held and whatever
\* else there is.
LEMMA AgreementKeepsTrees ==
  ASSUME NEW m, Sound(m), NEW n, Sound(n), Agree(m, n)
  PROVE  \A node : IsNode(m, node) /\ IsNode(n, node) => TreeOf(m, node) = TreeOf(n, node)
<1> DEFINE B == Below(m)
           C == Below(n)
           Z == {a \in Nodes(m) \cap Nodes(n) : B[a] # C[a]}
<1>1. /\ B[Null] = Null
      /\ \A p \in Nodes(m) : B[p] = With(m[p], B[m[p].left], B[m[p].right])
      /\ \A node : IsNode(m, node) => TreeOf(m, node) = With(node, B[node.left], B[node.right])
  BY TreeOfFacts
<1>2. /\ C[Null] = Null
      /\ \A p \in Nodes(n) : C[p] = With(n[p], C[n[p].left], C[n[p].right])
      /\ \A node : IsNode(n, node) => TreeOf(n, node) = With(node, C[node.left], C[node.right])
  BY TreeOfFacts
<1> HIDE DEF B, C
<1>3. Z = {}
  <2> SUFFICES ASSUME Z # {}
               PROVE  FALSE
    OBVIOUS
  <2>1. PICK a \in Z : Children(m, a) \cap Z = {}
    <3> HIDE DEF Z
    <3>1. Z \in SUBSET Nodes(m)
      BY DEF Z
    <3> QED
      BY <3>1 DEF Sound, Grounded
  <2>2. a \in Nodes(m) /\ a \in Nodes(n) /\ m[a] = n[a] /\ B[a] # C[a]
    BY <2>1 DEF Agree
  <2>3. IsNode(m, m[a]) /\ IsNode(n, m[a])
    BY <2>2 DEF Sound, Nodes
  <2>4. \A c \in {m[a].left, m[a].right} : c = Null \/ (c \in Nodes(m) /\ c \in Nodes(n) /\ c \notin Z)
    BY <2>1, <2>3 DEF IsNode, Children
  <2>5. \A c \in {m[a].left, m[a].right} : B[c] = C[c]
    BY <1>1, <1>2, <2>4
  <2> QED
    BY <1>1, <1>2, <2>2, <2>5
<1>4. \A c \in (Nodes(m) \cap Nodes(n)) \cup {Null} : B[c] = C[c]
  BY <1>1, <1>2, <1>3
<1> SUFFICES ASSUME NEW node, IsNode(m, node), IsNode(n, node)
             PROVE  TreeOf(m, node) = TreeOf(n, node)
  OBVIOUS
<1>5. {node.left, node.right} \subseteq (Nodes(m) \cap Nodes(n)) \cup {Null}
  BY DEF IsNode
<1> QED
  BY <1>1, <1>2, <1>4, <1>5

Sub(m, q) == IF q = Null THEN Null ELSE TreeOf(m, m[q])

LEMMA Unfold ==
  ASSUME NEW m, Sound(m), NEW node, IsNode(m, node)
  PROVE  TreeOf(m, node) = With(node, Sub(m, node.left), Sub(m, node.right))
<1> DEFINE B == Below(m)
<1>1. /\ B[Null] = Null
      /\ \A p \in Nodes(m) : B[p] = With(m[p], B[m[p].left], B[m[p].right])
      /\ \A k : IsNode(m, k) => TreeOf(m, k) = With(k, B[k.left], B[k.right])
  BY TreeOfFacts
<1> HIDE DEF B
<1>2. ASSUME NEW q \in Nodes(m) \cup {Null}
      PROVE  Sub(m, q) = B[q]
  <2>1. CASE q = Null
    BY <1>1, <2>1 DEF Sub
  <2>2. CASE q # Null
    <3>1. q \in Nodes(m) /\ IsNode(m, m[q])
      BY <2>2 DEF Sound, Nodes
    <3> QED
      BY <1>1, <2>2, <3>1 DEF Sub
  <2> QED
    BY <2>1, <2>2
<1>3. node.left \in Nodes(m) \cup {Null} /\ node.right \in Nodes(m) \cup {Null}
  BY DEF IsNode
<1> QED
  BY <1>1, <1>2, <1>3

LEMMA WithFacts ==
  ASSUME NEW m, NEW node, IsNode(m, node), NEW l, NEW r, NEW k, k = With(node, l, r)
  PROVE  /\ k.left = l /\ k.right = r
         /\ l \in Nodes(m) \cup {Null} /\ r \in Nodes(m) \cup {Null} => IsNode(m, k)
         /\ \A a, b : With(k, a, b) = With(node, a, b)
         /\ [[k EXCEPT !["left"] = node.left] EXCEPT !["right"] = node.right] = node
<1>1. node = [j \in DOMAIN node |-> node[j]] /\ "left" \in DOMAIN node /\ "right" \in DOMAIN node
  BY DEF IsNode
<1>2. /\ DOMAIN k = DOMAIN node /\ k = [j \in DOMAIN k |-> k[j]] /\ k["left"] = l /\ k["right"] = r
      /\ \A j \in DOMAIN node : j # "left" /\ j # "right" => k[j] = node[j]
  BY <1>1 DEF With
<1>3. k.left = l /\ k.right = r
  BY <1>2
<1>4. l \in Nodes(m) \cup {Null} /\ r \in Nodes(m) \cup {Null} => IsNode(m, k)
  BY <1>1, <1>2, <1>3 DEF IsNode
<1>5. ASSUME NEW a, NEW b
      PROVE  With(k, a, b) = With(node, a, b)
  <2> DEFINE u == With(k, a, b)
             w == With(node, a, b)
  <2>1. /\ DOMAIN u = DOMAIN node /\ u = [j \in DOMAIN u |-> u[j]] /\ u["left"] = a /\ u["right"] = b
        /\ \A j \in DOMAIN node : j # "left" /\ j # "right" => u[j] = node[j]
    BY <1>1, <1>2 DEF With
  <2>2. /\ DOMAIN w = DOMAIN node /\ w = [j \in DOMAIN w |-> w[j]] /\ w["left"] = a /\ w["right"] = b
        /\ \A j \in DOMAIN node : j # "left" /\ j # "right" => w[j] = node[j]
    BY <1>1 DEF With
  <2> HIDE DEF u, w
  <2>3. \A j \in DOMAIN node : u[j] = w[j]
    BY <2>1, <2>2
  <2>4. u = w
    BY <2>1, <2>2, <2>3
  <2> QED
    BY <2>4 DEF u, w
<1>6. [[k EXCEPT !["left"] = node.left] EXCEPT !["right"] = node.right] = node
  <2> DEFINE u == [k EXCEPT !["left"] = node.left]
             w == [u EXCEPT !["right"] = node.right]
  <2>1. /\ DOMAIN u = DOMAIN node /\ u = [j \in DOMAIN u |-> u[j]] /\ u["left"] = node["left"]
        /\ \A j \in DOMAIN node : j # "left" /\ j # "right" => u[j] = node[j]
    BY <1>1, <1>2
  <2> HIDE DEF u
  <2>2. /\ DOMAIN w = DOMAIN node /\ w = [j \in DOMAIN w |-> w[j]]
        /\ \A j \in DOMAIN node : w[j] = node[j]
    BY <1>1, <2>1
  <2> HIDE DEF w
  <2>3. w = node
    BY <1>1, <2>2
  <2> QED
    BY <2>3 DEF u, w
<1> QED
  BY <1>3, <1>4, <1>5, <1>6

-----------------------------------------------------------------------------
(* What the operations do to the memory.                                    *)

Healthy(m) == Sound(m) /\ Unheld(m) = {}

\* From m to n only the variables X change, or come or go, and no node does.
Affects(m, n, X) ==
  /\ Healthy(n) /\ Nodes(n) \subseteq Nodes(m) /\ Agree(m, n)
  /\ \A x \in InUse(n) : x \notin X => x \in InUse(m) /\ n[x] = m[x]
  /\ InUse(m) \subseteq InUse(n) \cup X

LEMMA ConstructFacts ==
  ASSUME NEW m, Sound(m), NEW x \in Register, x \notin DOMAIN m, NEW node, IsNode(m, node),
         Unheld(m) \subseteq {node.left, node.right}, NEW n, n = Put(m, x, node)
  PROVE  Affects(m, n, {x}) /\ InUse(n) = InUse(m) \cup {x} /\ n[x] = node
<1>1. /\ Sound(n) /\ DOMAIN n = DOMAIN m \cup {x} /\ Nodes(n) = Nodes(m)
      /\ n[x] = node /\ \A o \in DOMAIN m : o # x => n[o] = m[o]
      /\ \A a \in Unheld(n) : a \in Unheld(m)
  <2>1. Received(m, x, node, n)
    BY PutFacts
  <2> QED
    BY <2>1 DEF Received
<1>2. \A a \in {node.left, node.right} : a \notin Unheld(n)
  <2> SUFFICES ASSUME NEW a \in {node.left, node.right}, a \in Unheld(n)
               PROVE  FALSE
    OBVIOUS
  <2>1. a # Null
    BY NodesFinite DEF Unheld
  <2>2. x \in Holders(n, a)
    BY <1>1, <2>1 DEF Holders, Children
  <2> QED
    BY <2>2 DEF Unheld
<1>3. Healthy(n)
  BY <1>1, <1>2 DEF Healthy
<1>4. InUse(n) = InUse(m) \cup {x} /\ \A o \in Nodes(m) : n[o] = m[o]
  BY <1>1 DEF InUse, Nodes
<1> QED
  BY <1>1, <1>3, <1>4 DEF Affects, Agree, InUse

\* n, where d has the value and the left child of o, comes halfway from m to
\* memory where d is what o was; o is still there if it is part of something
\* that d is not.
Halfway(m, d, o, n) ==
  /\ \A j : o \in DOMAIN n /\ j = Reset(n, d, "right", n[o].right) =>
       Affects(m, j, {d}) /\ InUse(j) = InUse(m) /\ j[d] = m[o]
  /\ (\E R : Supported(m, R) /\ o \in R /\ d \notin R) => o \in DOMAIN n

LEMMA MembersFacts ==
  ASSUME NEW m, Healthy(m), NEW d \in InUse(m), NEW o \in DOMAIN m, o # d,
         NEW k, k = Put(m, d, With(m[o], m[d].left, m[d].right)),
         NEW n, n = Reset(k, d, "left", m[o].left)
  PROVE  Halfway(m, d, o, n)
<1> DEFINE node == With(m[o], m[d].left, m[d].right)
<1>1. Sound(m) /\ IsNode(m, m[d]) /\ IsNode(m, m[o]) /\ d \in Register /\ d \in DOMAIN m
  BY DEF Healthy, Sound, InUse
<1>2. /\ IsNode(m, node) /\ node.left = m[d].left /\ node.right = m[d].right
      /\ [[node EXCEPT !["left"] = m[o].left] EXCEPT !["right"] = m[o].right] = m[o]
  <2>1. m[d].left \in Nodes(m) \cup {Null} /\ m[d].right \in Nodes(m) \cup {Null}
    BY <1>1 DEF IsNode
  <2> QED
    BY <1>1, <2>1, WithFacts
<1>3. k = Put(m, d, node)
  OBVIOUS
<1> HIDE DEF node
<1>4. /\ Sound(k) /\ DOMAIN k = DOMAIN m /\ Nodes(k) = Nodes(m) /\ k[d] = node
      /\ \A p \in DOMAIN m : p # d => k[p] = m[p]
      /\ Unheld(k) \subseteq Unheld(m)
  <2>1. Received(m, d, node, k)
    BY <1>1, <1>2, <1>3, PutFacts
  <2> QED
    BY <1>1, <1>2, <2>1 DEF Received
<1>5. Unheld(k) = {} /\ d \in InUse(k) /\ InUse(k) = InUse(m) /\ m[o].left \in Nodes(k) \cup {Null}
  BY <1>1, <1>4 DEF Healthy, InUse, IsNode
<1>6. "left" \in Side /\ "right" \in Side
  BY DEF Side
<1>7. /\ Sound(n) /\ Unheld(n) = {} /\ DOMAIN n \subseteq DOMAIN k /\ InUse(n) = InUse(k)
      /\ n[d] = [k[d] EXCEPT !["left"] = m[o].left]
      /\ \A p \in DOMAIN n : p # d => n[p] = k[p]
      /\ \A R : Supported(k, R) /\ d \notin R => Supported(n, R)
  BY <1>4, <1>5, <1>6, ResetFacts
<1>8. ASSUME NEW R, Supported(m, R), o \in R, d \notin R
      PROVE  o \in DOMAIN n
  <2>1. Supported(k, R)
    BY <1>1, <1>2, <1>3, <1>8, PutSupports
  <2> QED
    BY <1>7, <1>8, <2>1 DEF Supported
<1>9. ASSUME NEW j, o \in DOMAIN n, j = Reset(n, d, "right", n[o].right)
      PROVE  Affects(m, j, {d}) /\ InUse(j) = InUse(m) /\ j[d] = m[o]
  <2>1. n[o] = m[o] /\ IsNode(n, n[o]) /\ d \in InUse(n)
    BY <1>4, <1>5, <1>7, <1>9 DEF Sound
  <2>2. n[o].right \in Nodes(n) \cup {Null}
    BY <2>1 DEF IsNode
  <2>3. /\ Sound(j) /\ Unheld(j) = {} /\ DOMAIN j \subseteq DOMAIN n /\ InUse(j) = InUse(n)
        /\ j[d] = [n[d] EXCEPT !["right"] = n[o].right]
        /\ \A p \in DOMAIN j : p # d => j[p] = n[p]
    BY <1>6, <1>7, <1>9, <2>1, <2>2, ResetFacts
  <2>4. j[d] = m[o]
    BY <1>2, <1>4, <1>7, <2>1, <2>3
  <2>5. DOMAIN j \subseteq DOMAIN m /\ \A p \in DOMAIN j : p # d => j[p] = m[p]
    BY <1>4, <1>7, <2>3
  <2>6. Nodes(j) \subseteq Nodes(m) /\ d \notin Nodes(m) /\ Agree(m, j)
    BY <1>1, <2>5, NodesFinite DEF Nodes, Agree
  <2> QED
    BY <1>5, <1>7, <2>3, <2>4, <2>5, <2>6 DEF Affects, Healthy, InUse
<1> QED
  BY <1>8, <1>9 DEF Halfway

\* A variable without children that receives a node.
LEMMA FillFacts ==
  ASSUME NEW m, Healthy(m), NEW d \in InUse(m), m[d].left = Null, m[d].right = Null,
         NEW node, IsNode(m, node), NEW n, n = Put(m, d, node)
  PROVE  Affects(m, n, {d}) /\ InUse(n) = InUse(m) /\ n[d] = node
<1>1. Sound(m) /\ d \in Register /\ d \in DOMAIN m
  BY DEF Healthy, InUse
<1>2. /\ Sound(n) /\ DOMAIN n = DOMAIN m \cup {d} /\ Nodes(n) = Nodes(m)
      /\ n[d] = node /\ \A o \in DOMAIN m : o # d => n[o] = m[o]
      /\ \A a \in Unheld(n) : a \in Unheld(m) \/ a \in {m[d].left, m[d].right}
  <2>1. Received(m, d, node, n)
    BY <1>1, PutFacts
  <2> QED
    BY <2>1 DEF Received
<1>3. Unheld(n) = {}
  BY <1>2, NodesFinite DEF Unheld, Healthy
<1>4. InUse(n) = InUse(m) /\ \A o \in Nodes(m) : n[o] = m[o]
  <2>1. InUse(n) = InUse(m)
    BY <1>1, <1>2 DEF InUse
  <2>2. ASSUME NEW o \in Nodes(m)
        PROVE  n[o] = m[o]
    <3>1. o \in DOMAIN m /\ o # d
      BY <1>1, NodesFinite DEF Nodes
    <3> QED
      BY <1>2, <3>1
  <2> QED
    BY <2>1, <2>2
<1> QED
  BY <1>2, <1>3, <1>4 DEF Affects, Healthy, Agree, InUse

\* A variable lets go of its children.
LEMMA ClearFacts ==
  ASSUME NEW m, Healthy(m), NEW d \in InUse(m), NEW node, IsNode(m, node),
         NEW n, n = Dropped(Put(m, d, node), m[d])
  PROVE  /\ Affects(m, n, {d}) /\ InUse(n) = InUse(m) /\ n[d] = node
         /\ \A R : Supported(m, R) /\ d \notin R => Supported(n, R)
<1> DEFINE k == Put(m, d, node)
<1>1. Sound(m) /\ d \in Register /\ d \in DOMAIN m /\ IsNode(m, m[d])
  BY DEF Healthy, InUse, Sound
<1>2. k = Put(m, d, node) /\ n = Dropped(k, m[d])
  OBVIOUS
<1> HIDE DEF k
<1>3. /\ Sound(k) /\ DOMAIN k = DOMAIN m \cup {d} /\ Nodes(k) = Nodes(m)
      /\ k[d] = node /\ \A o \in DOMAIN m : o # d => k[o] = m[o]
      /\ \A a \in Unheld(k) : a \in Unheld(m) \/
           (d \in DOMAIN m /\ a \in {m[d].left, m[d].right} /\ a \notin {node.left, node.right})
  <2>1. Received(m, d, node, k)
    BY <1>1, <1>2, PutFacts
  <2> QED
    BY <2>1 DEF Received
<1>4. \A R : Supported(m, R) /\ d \notin R => Supported(k, R)
  BY <1>1, <1>2, PutSupports
<1>5. m[d].left \in Block \cup {Null} /\ m[d].right \in Block \cup {Null}
  BY <1>1 DEF IsNode, Nodes
<1>6. Unheld(k) \subseteq {m[d].left, m[d].right}
  BY <1>3 DEF Healthy
<1>7. Shrunk(k, n) /\ Unheld(n) = {} /\ \A R : Supported(k, R) => Supported(n, R)
  BY <1>2, <1>3, <1>5, <1>6, DroppedFacts
<1>8. Healthy(n) /\ DOMAIN n \subseteq DOMAIN m /\ InUse(n) = InUse(m) /\ \A o \in DOMAIN n : n[o] = k[o]
  <2>1. Sound(n) /\ DOMAIN n \subseteq DOMAIN k /\ InUse(n) = InUse(k) /\ \A o \in DOMAIN n : n[o] = k[o]
    BY <1>7 DEF Shrunk
  <2>2. DOMAIN k = DOMAIN m /\ InUse(k) = InUse(m)
    BY <1>1, <1>3 DEF InUse
  <2> QED
    BY <1>7, <2>1, <2>2 DEF Healthy
<1>9. Nodes(n) \subseteq Nodes(m) /\ d \notin Nodes(n) /\ Agree(m, n)
  <2>1. Nodes(n) \subseteq Nodes(m)
    BY <1>8 DEF Nodes
  <2>2. d \notin Nodes(n)
    BY <1>1, NodesFinite
  <2>3. \A a \in Nodes(m) \cap Nodes(n) : a # d /\ a \in DOMAIN m /\ a \in DOMAIN n
    BY <2>2 DEF Nodes
  <2>4. Agree(m, n)
    BY <1>3, <1>8, <2>3 DEF Agree
  <2> QED
    BY <2>1, <2>2, <2>4
<1>10. Affects(m, n, {d}) /\ n[d] = node
  BY <1>1, <1>3, <1>8, <1>9 DEF Affects, InUse
<1> QED
  BY <1>4, <1>7, <1>8, <1>10

\* A variable ends.
LEMMA LeaveFacts ==
  ASSUME NEW m, Healthy(m), NEW x \in InUse(m), NEW n, n = Dropped(Restrict(m, DOMAIN m \ {x}), m[x])
  PROVE  Affects(m, n, {x}) /\ InUse(n) = InUse(m) \ {x}
<1> DEFINE k == Restrict(m, DOMAIN m \ {x})
<1>1. Sound(m) /\ x \in Register /\ x \in DOMAIN m /\ IsNode(m, m[x])
  BY DEF Healthy, InUse, Sound
<1>2. /\ Sound(k) /\ DOMAIN k = DOMAIN m \ {x} /\ Nodes(k) = Nodes(m)
      /\ \A o \in DOMAIN k : k[o] = m[o]
      /\ Unheld(k) \subseteq Unheld(m) \cup Children(m, x)
  BY <1>1, EndFacts
<1>3. n = Dropped(k, m[x])
  OBVIOUS
<1> HIDE DEF k
<1>4. m[x].left \in Block \cup {Null} /\ m[x].right \in Block \cup {Null}
  BY <1>1 DEF IsNode, Nodes
<1>5. Unheld(k) \subseteq {m[x].left, m[x].right}
  BY <1>2 DEF Healthy, Children
<1>6. Shrunk(k, n) /\ Unheld(n) = {}
  BY <1>2, <1>3, <1>4, <1>5, DroppedFacts
<1>7. /\ Healthy(n) /\ DOMAIN n \subseteq DOMAIN m /\ InUse(n) = InUse(m) \ {x}
      /\ \A o \in DOMAIN n : n[o] = m[o]
  BY <1>2, <1>6 DEF Healthy, Shrunk, InUse
<1> QED
  BY <1>7 DEF Affects, InUse, Nodes, Agree

\* x takes over the children of y.
LEMMA MoveFacts ==
  ASSUME NEW m, Healthy(m), NEW x \in Register, NEW y \in InUse(m), x # y,
         NEW husk, husk = With(m[y], Null, Null),
         NEW h, h = Put(m, y, husk), NEW k, k = Put(h, x, m[y]),
         NEW n, n = IF x \in InUse(m) THEN Dropped(k, m[x]) ELSE k
  PROVE  Affects(m, n, {x, y}) /\ InUse(n) = InUse(m) \cup {x} /\ n[x] = m[y] /\ n[y] = husk
<1>1. Sound(m) /\ y \in Register /\ y \in DOMAIN m /\ IsNode(m, m[y])
  BY DEF Healthy, InUse, Sound
<1>2. IsNode(m, husk) /\ husk.left = Null /\ husk.right = Null
  BY <1>1, WithFacts
<1>3. /\ Sound(h) /\ DOMAIN h = DOMAIN m \cup {y} /\ Nodes(h) = Nodes(m)
      /\ h[y] = husk /\ \A o \in DOMAIN m : o # y => h[o] = m[o]
      /\ \A j : IsNode(m, j) <=> IsNode(h, j)
      /\ \A a \in Unheld(h) : a \in Unheld(m) \/
           (y \in DOMAIN m /\ a \in {m[y].left, m[y].right} /\ a \notin {husk.left, husk.right})
  <2>1. Received(m, y, husk, h)
    BY <1>1, <1>2, PutFacts
  <2> QED
    BY <2>1 DEF Received
<1>4. PICK node : node = m[y]
  OBVIOUS
<1>5. /\ Sound(k) /\ DOMAIN k = DOMAIN h \cup {x} /\ Nodes(k) = Nodes(h)
      /\ k[x] = m[y] /\ \A o \in DOMAIN h : o # x => k[o] = h[o]
      /\ \A a \in Unheld(k) : a \in Unheld(h) \/
           (x \in DOMAIN h /\ a \in {h[x].left, h[x].right} /\ a \notin {m[y].left, m[y].right})
  <2>1. Sound(h) /\ IsNode(h, node) /\ k = Put(h, x, node)
    BY <1>1, <1>3, <1>4
  <2>2. /\ Sound(k) /\ DOMAIN k = DOMAIN h \cup {x} /\ Nodes(k) = Nodes(h)
        /\ k[x] = node /\ \A o \in DOMAIN h : o # x => k[o] = h[o]
        /\ \A a \in Unheld(k) : a \in Unheld(h) \/
             (x \in DOMAIN h /\ a \in {h[x].left, h[x].right} /\ a \notin {node.left, node.right})
    <3>1. Received(h, x, node, k)
      BY <2>1, PutFacts
    <3> QED
      BY <3>1 DEF Received
  <2> QED
    BY <1>4, <2>2
<1>6. /\ DOMAIN k = DOMAIN m \cup {x} /\ Nodes(k) = Nodes(m) /\ k[y] = husk
      /\ \A o \in DOMAIN m : o # x /\ o # y => k[o] = m[o]
  BY <1>1, <1>3, <1>5
<1>7. ASSUME NEW a \in Unheld(k)
      PROVE  x \in InUse(m) /\ a \in {m[x].left, m[x].right}
  <2>1. a \notin {m[y].left, m[y].right}
    <3> SUFFICES ASSUME a \in {m[y].left, m[y].right}
                 PROVE  FALSE
      OBVIOUS
    <3>1. a # Null
      BY NodesFinite DEF Unheld
    <3>2. x \in Holders(k, a)
      BY <1>5, <3>1 DEF Holders, Children
    <3> QED
      BY <3>2 DEF Unheld
  <2>2. a \notin Unheld(h)
    BY <1>3, <2>1 DEF Healthy
  <2>3. x \in DOMAIN h /\ a \in {h[x].left, h[x].right}
    BY <1>5, <2>2
  <2> QED
    BY <1>1, <1>3, <2>3 DEF InUse
<1>8. x \notin Nodes(m) /\ y \notin Nodes(m) /\ InUse(k) = InUse(m) \cup {x} /\ k[x] = m[y] /\ x \in DOMAIN k
  BY <1>1, <1>5, <1>6, NodesFinite DEF InUse
<1>9. CASE x \notin InUse(m)
  <2>1. n = k /\ Unheld(n) = {}
    BY <1>7, <1>9
  <2>2. Agree(m, n)
    BY <1>6, <1>8, <2>1 DEF Nodes, Agree
  <2> QED
    BY <1>5, <1>6, <1>8, <2>1, <2>2 DEF Affects, Healthy, InUse
<1>10. CASE x \in InUse(m)
  <2>1. n = Dropped(k, m[x]) /\ IsNode(m, m[x])
    BY <1>10 DEF Healthy, Sound, InUse
  <2>2. m[x].left \in Block \cup {Null} /\ m[x].right \in Block \cup {Null}
    BY <2>1 DEF IsNode, Nodes
  <2>3. Unheld(k) \subseteq {m[x].left, m[x].right}
    BY <1>7
  <2>4. Shrunk(k, n) /\ Unheld(n) = {}
    BY <1>5, <2>1, <2>2, <2>3, DroppedFacts
  <2>5. /\ Healthy(n) /\ DOMAIN n \subseteq DOMAIN m /\ InUse(n) = InUse(m) \cup {x}
        /\ \A o \in DOMAIN n : n[o] = k[o]
    BY <1>6, <1>8, <1>10, <2>4 DEF Healthy, Shrunk, InUse
  <2>6. Nodes(n) \subseteq Nodes(m) /\ Agree(m, n)
    BY <1>6, <1>8, <2>5 DEF Nodes, Agree
  <2> QED
    BY <1>1, <1>6, <1>8, <2>5, <2>6 DEF Affects, InUse
<1> QED
  BY <1>9, <1>10

-----------------------------------------------------------------------------
(* What the operations do to the variables' trees.                          *)

Matches(trees, m) == trees = [x \in InUse(m) |-> TreeOf(m, m[x])]

LEMMA InUseFacts ==
  ASSUME NEW m, Sound(m), NEW x \in InUse(m)
  PROVE  x \in Register /\ x \in DOMAIN m /\ IsNode(m, m[x])
BY DEF InUse, Sound

LEMMA MatchesStep ==
  ASSUME NEW m, Sound(m), NEW X, NEW n, Affects(m, n, X), NEW t, Matches(t, m),
         NEW u, u = [x \in InUse(n) |-> u[x]],
         \A x \in InUse(n) : u[x] = IF x \in X THEN TreeOf(n, n[x]) ELSE t[x]
  PROVE  Matches(u, n)
<1>1. Sound(n) /\ Agree(m, n)
  BY DEF Affects, Healthy
<1>2. ASSUME NEW x \in InUse(n)
      PROVE  u[x] = TreeOf(n, n[x])
  <2>1. CASE x \in X
    BY <2>1
  <2>2. CASE x \notin X
    <3>1. x \in InUse(m) /\ n[x] = m[x] /\ u[x] = t[x]
      BY <2>2 DEF Affects
    <3>2. IsNode(m, m[x]) /\ IsNode(n, m[x])
      BY <1>1, <3>1, InUseFacts
    <3>3. TreeOf(m, m[x]) = TreeOf(n, m[x])
      BY <1>1, <3>2, AgreementKeepsTrees
    <3> QED
      BY <3>1, <3>3 DEF Matches
  <2> QED
    BY <2>1, <2>2
<1> QED
  BY <1>2 DEF Matches

\* One variable becomes a tree.
LEMMA MatchesPut ==
  ASSUME NEW m, Sound(m), NEW x, NEW n, Affects(m, n, {x}), InUse(n) = InUse(m) \cup {x},
         NEW t, Matches(t, m), NEW u, u = Put(t, x, TreeOf(n, n[x]))
  PROVE  Matches(u, n)
<1>1. DOMAIN t = InUse(m)
  BY DEF Matches
<1>2. u = [y \in InUse(n) |-> u[y]] /\ \A y \in InUse(n) : u[y] = IF y \in {x} THEN TreeOf(n, n[x]) ELSE t[y]
  BY <1>1 DEF Put
<1>3. \A y \in InUse(n) : u[y] = IF y \in {x} THEN TreeOf(n, n[y]) ELSE t[y]
  BY <1>2
<1> QED
  BY <1>2, <1>3, MatchesStep

\* Nodes that are added change no variable's tree.
LEMMA MatchesMore ==
  ASSUME NEW m, Sound(m), NEW n, Sound(n), InUse(n) = InUse(m), \A o \in DOMAIN m : n[o] = m[o],
         \A k : IsNode(m, k) => IsNode(n, k)
  PROVE  /\ \A k : IsNode(m, k) => TreeOf(n, k) = TreeOf(m, k)
         /\ \A t : Matches(t, m) => Matches(t, n)
<1>1. Agree(m, n)
  BY DEF Agree, Nodes
<1>2. \A k : IsNode(m, k) => TreeOf(n, k) = TreeOf(m, k)
  BY <1>1, AgreementKeepsTrees
<1>3. \A x \in InUse(m) : n[x] = m[x] /\ TreeOf(n, n[x]) = TreeOf(m, m[x])
  BY <1>2, InUseFacts
<1> QED
  BY <1>2, <1>3 DEF Matches

\* A node of FringeTree that is no branch has no children.
Flat(node) == "kind" \in DOMAIN node /\ (node.kind # "branch" => node.left = Null /\ node.right = Null)
Plain(m) == \A o \in DOMAIN m : Flat(m[o])

LEMMA PlainStep ==
  ASSUME NEW m, Plain(m), NEW X, NEW n, Affects(m, n, X), \A x \in X : x \in InUse(n) => Flat(n[x])
  PROVE  Plain(n)
<1> SUFFICES ASSUME NEW o \in DOMAIN n
             PROVE  Flat(n[o])
  BY DEF Plain
<1>1. CASE o \in Nodes(n)
  BY <1>1 DEF Affects, Agree, Plain, Nodes
<1>2. CASE o \notin Nodes(n)
  <2>1. o \in InUse(n)
    BY <1>2 DEF Affects, Healthy, Sound, Nodes, InUse
  <2>2. o \notin X => o \in DOMAIN m /\ n[o] = m[o]
    BY <2>1 DEF Affects, InUse
  <2> QED
    BY <2>1, <2>2 DEF Plain
<1> QED
  BY <1>1, <1>2

Kept == Healthy(memory)
Shown == ~lost /\ Matches(made, memory)

LEMMA ShownPersistent == Shown <=> Persistent
BY DEF Shown, Matches, Persistent

LEMMA ConstructStep ==
  ASSUME NEW m, Sound(m), NEW x \in Register, NEW node, IsNode(m, node),
         Unheld(m) \subseteq {node.left, node.right}, NEW t, NEW tree, Construct(m, t, x, node, tree)
  PROVE  /\ Kept' /\ (Matches(t, m) /\ tree = TreeOf(m, node) => Shown')
         /\ Plain(m) /\ Flat(node) => Plain(memory')
<1>1. x \notin DOMAIN m /\ memory' = Put(m, x, node) /\ ~lost' /\ made' = Put(t, x, tree)
  BY DEF Construct, Becomes
<1>2. Affects(m, memory', {x}) /\ InUse(memory') = InUse(m) \cup {x} /\ memory'[x] = node
  BY <1>1, ConstructFacts
<1>3. Kept'
  BY <1>2 DEF Kept, Affects
<1>4. ASSUME Matches(t, m), tree = TreeOf(m, node)
      PROVE  Shown'
  <2>1. TreeOf(memory', memory'[x]) = tree
    <3>1. Sound(memory') /\ Agree(m, memory') /\ IsNode(memory', memory'[x]) /\ memory'[x] = node
      BY <1>2, InUseFacts DEF Affects, Healthy
    <3> QED
      BY <1>4, <3>1, AgreementKeepsTrees
  <2>2. Matches(made', memory')
    BY <1>1, <1>2, <1>4, <2>1, MatchesPut
  <2> QED
    BY <1>1, <2>2 DEF Shown
<1>5. Plain(m) /\ Flat(node) => Plain(memory')
  BY <1>2, PlainStep
<1> QED
  BY <1>3, <1>4, <1>5

LEMMA CopyStep ==
  ASSUME Kept, NEW x \in Register, NEW node, IsNode(memory, node), Copy(x, node)
  PROVE  Kept' /\ (Shown => Shown') /\ (Plain(memory) /\ Flat(node) => Plain(memory'))
<1>1. Sound(memory) /\ Unheld(memory) \subseteq {node.left, node.right}
  BY DEF Kept, Healthy
<1>2. Construct(memory, made, x, node, TreeOf(memory, node))
  BY DEF Copy
<1>3. Shown => Matches(made, memory)
  BY DEF Shown
<1> QED
  BY <1>1, <1>2, <1>3, ConstructStep

\* d = o, however it is done.
LEMMA AssignedStep ==
  ASSUME Kept, NEW d \in InUse(memory), NEW o \in DOMAIN memory, NEW n,
         Affects(memory, n, {d}), InUse(n) = InUse(memory), n[d] = memory[o], Assigned(d, o, n)
  PROVE  Kept' /\ (Shown => Shown') /\ (Plain(memory) => Plain(memory'))
<1>1. memory' = n /\ ~lost /\ ~lost' /\ made' = Put(made, d, TreeOf(memory, memory[o]))
  BY DEF Assigned, Becomes
<1>2. Kept'
  BY <1>1 DEF Kept, Affects
<1>3. ASSUME Shown
      PROVE  Shown'
  <2>1. Sound(memory) /\ Sound(n) /\ Agree(memory, n)
    BY DEF Kept, Affects, Healthy
  <2>2. TreeOf(n, n[d]) = TreeOf(memory, memory[o])
    <3>1. IsNode(memory, memory[o]) /\ IsNode(n, memory[o])
      BY <2>1, InUseFacts DEF Sound
    <3> QED
      BY <2>1, <3>1, AgreementKeepsTrees
  <2>3. InUse(n) = InUse(memory) \cup {d}
    OBVIOUS
  <2>4. made' = Put(made, d, TreeOf(n, n[d])) /\ Matches(made, memory)
    BY <1>1, <1>3, <2>2 DEF Shown
  <2>5. Matches(made', n)
    BY <2>1, <2>3, <2>4, MatchesPut
  <2> QED
    BY <1>1, <2>5 DEF Shown
<1>4. Plain(memory) => Plain(memory')
  <2>1. Plain(memory) => Flat(n[d])
    BY DEF Plain
  <2> QED
    BY <1>1, <2>1, PlainStep
<1> QED
  BY <1>2, <1>3, <1>4

LEMMA ReadsDestroyedStep ==
  ASSUME Kept, ReadsDestroyed
  PROVE  Kept' /\ (Plain(memory) => Plain(memory'))
BY DEF Kept, ReadsDestroyed

\* o is part of a tree that d does not have to itself.
HeldElsewhere(d, o) == \E R : Supported(memory, R) /\ o \in R /\ d \notin R

LEMMA HeldElsewhereFacts ==
  ASSUME Kept, NEW d \in InUse(memory), NEW o \in Objects, MayAssign(d, o)
  PROVE  o \in DOMAIN memory /\ o # d /\ (~AliasedAssign => HeldElsewhere(d, o))
<1>1. Sound(memory)
  BY DEF Kept, Healthy
<1>2. o \in DOMAIN memory /\ o # d
  BY <1>1, ObjectsFacts DEF MayAssign
<1>3. ASSUME ~AliasedAssign
      PROVE  HeldElsewhere(d, o)
  <2>1. PICK x \in InUse(memory) : x # d /\ o \in Reachable(memory, x)
    <3>1. PICK z \in InUse(memory) : o \in Reachable(memory, z)
      BY <1>1, ObjectsFacts
    <3> QED
      BY <1>3, <3>1 DEF MayAssign, OnlyPartOf
  <2>2. x \in DOMAIN memory /\ x \in Register /\ d \in Register
    BY DEF InUse
  <2>3. Supported(memory, Reachable(memory, x)) /\ Reachable(memory, x) \subseteq {x} \cup Nodes(memory)
    BY <1>1, <2>2, ReachableFacts
  <2>4. d \notin Reachable(memory, x)
    BY <2>1, <2>2, <2>3, NodesFinite
  <2> QED
    BY <2>1, <2>3, <2>4 DEF HeldElsewhere
<1> QED
  BY <1>2, <1>3

LEMMA AssignMembersStep ==
  ASSUME Kept, NEW d \in InUse(memory), NEW o \in DOMAIN memory, o # d, AssignMembers(d, o)
  PROVE  Kept' /\ (Shown /\ HeldElsewhere(d, o) => Shown') /\ (Plain(memory) => Plain(memory'))
<1> DEFINE k == Put(memory, d, With(memory[o], memory[d].left, memory[d].right))
           n == Reset(k, d, "left", memory[o].left)
           j == Reset(n, d, "right", n[o].right)
<1>1. IF o \in DOMAIN n THEN Assigned(d, o, j) ELSE ReadsDestroyed
  BY DEF AssignMembers, With
<1>2. /\ o \in DOMAIN n => Affects(memory, j, {d}) /\ InUse(j) = InUse(memory) /\ j[d] = memory[o]
      /\ HeldElsewhere(d, o) => o \in DOMAIN n
  <2>1. /\ k = Put(memory, d, With(memory[o], memory[d].left, memory[d].right))
        /\ n = Reset(k, d, "left", memory[o].left)
        /\ j = Reset(n, d, "right", n[o].right)
        /\ Healthy(memory)
    BY DEF Kept
  <2> HIDE DEF k, n, j
  <2>2. Halfway(memory, d, o, n)
    BY <2>1, MembersFacts
  <2> QED
    BY <2>1, <2>2 DEF HeldElsewhere, Halfway
<1> HIDE DEF k, n, j
<1>3. CASE o \in DOMAIN n
  BY <1>1, <1>2, <1>3, AssignedStep
<1>4. CASE o \notin DOMAIN n
  BY <1>1, <1>2, <1>4, ReadsDestroyedStep
<1> QED
  BY <1>3, <1>4

LEMMA MoveStep ==
  ASSUME Kept, NEW x \in Register, NEW y, Move(x, y)
  PROVE  Kept' /\ (Shown => Shown') /\ (Plain(memory) => Plain(memory'))
<1> DEFINE husk == With(memory[y], Null, Null)
           h == Put(memory, y, husk)
           k == Put(h, x, memory[y])
           n == IF x \in InUse(memory) THEN Dropped(k, memory[x]) ELSE k
<1>1. x # y /\ y \in InUse(memory) /\ ~lost /\ ~lost' /\ memory' = n
      /\ made' = Put(Put(made, y, With(made[y], Null, Null)), x, made[y])
  BY DEF Move, Becomes, With, Husk
<1>2. Healthy(memory) /\ Sound(memory) /\ IsNode(memory, memory[y])
  BY <1>1, InUseFacts DEF Kept, Healthy
<1>3. Affects(memory, n, {x, y}) /\ InUse(n) = InUse(memory) \cup {x} /\ n[x] = memory[y] /\ n[y] = husk
  <2>1. husk = With(memory[y], Null, Null) /\ h = Put(memory, y, husk) /\ k = Put(h, x, memory[y])
        /\ n = IF x \in InUse(memory) THEN Dropped(k, memory[x]) ELSE k
    OBVIOUS
  <2> HIDE DEF husk, h, k, n
  <2> QED
    BY <1>1, <1>2, <2>1, MoveFacts
<1> HIDE DEF n, k, h
<1>4. Kept'
  BY <1>1, <1>3 DEF Kept, Affects
<1>5. ASSUME Shown
      PROVE  Shown'
  <2>1. /\ Sound(n) /\ Agree(memory, n) /\ x \in InUse(n) /\ y \in InUse(n)
        /\ IsNode(n, n[x]) /\ IsNode(n, n[y])
    BY <1>1, <1>3, InUseFacts DEF Affects, Healthy
  <2>2. made[y] = TreeOf(memory, memory[y]) /\ DOMAIN made = InUse(memory)
    BY <1>1, <1>5 DEF Shown, Matches
  <2>3. TreeOf(n, n[x]) = made[y]
    BY <1>2, <1>3, <2>1, <2>2, AgreementKeepsTrees
  <2>4. With(made[y], Null, Null) = husk
    BY <1>2, <2>2, Unfold, WithFacts
  <2>5. TreeOf(n, n[y]) = husk
    <3>1. husk.left = Null /\ husk.right = Null /\ With(husk, Null, Null) = husk
      <4>1. husk = With(memory[y], Null, Null)
        OBVIOUS
      <4> HIDE DEF husk
      <4> QED
        BY <1>2, <4>1, WithFacts
    <3> HIDE DEF husk
    <3>2. TreeOf(n, husk) = With(husk, Sub(n, Null), Sub(n, Null))
      BY <1>3, <2>1, <3>1, Unfold
    <3> QED
      BY <1>3, <3>1, <3>2 DEF Sub
  <2> HIDE DEF husk
  <2>6. made' = Put(Put(made, y, husk), x, made[y])
    BY <1>1, <2>4
  <2>7. made' = [z \in InUse(n) |-> made'[z]]
    BY <1>1, <1>3, <2>2, <2>6 DEF Put
  <2>8. \A z \in InUse(n) : made'[z] = IF z \in {x, y} THEN TreeOf(n, n[z]) ELSE made[z]
    BY <1>1, <1>3, <2>2, <2>3, <2>5, <2>6 DEF Put
  <2>9. Matches(made', n)
    BY <1>2, <1>3, <1>5, <2>7, <2>8, MatchesStep DEF Shown
  <2> QED
    BY <1>1, <2>9 DEF Shown
<1>6. ASSUME Plain(memory)
      PROVE  Plain(memory')
  <2>1. Flat(memory[y])
    BY <1>1, <1>6 DEF Plain, InUse
  <2>2. Flat(husk)
    <3>1. husk.left = Null /\ husk.right = Null
      BY <1>2, WithFacts
    <3>2. DOMAIN husk = DOMAIN memory[y]
      BY DEF With
    <3> QED
      BY <2>1, <3>1, <3>2 DEF Flat
  <2> QED
    BY <1>1, <1>3, <1>6, <2>1, <2>2, PlainStep
<1> QED
  BY <1>4, <1>5, <1>6

LEMMA LeaveScopeStep ==
  ASSUME Kept, NEW x, LeaveScope(x)
  PROVE  Kept' /\ (Shown => Shown') /\ (Plain(memory) => Plain(memory'))
<1> DEFINE n == Dropped(Restrict(memory, DOMAIN memory \ {x}), memory[x])
<1>1. /\ x \in InUse(memory) /\ ~lost /\ ~lost' /\ memory' = n
      /\ made' = Restrict(made, DOMAIN made \ {x})
  BY DEF LeaveScope, Becomes
<1>2. Affects(memory, n, {x}) /\ InUse(n) = InUse(memory) \ {x}
  <2>1. n = Dropped(Restrict(memory, DOMAIN memory \ {x}), memory[x])
    OBVIOUS
  <2> HIDE DEF n
  <2> QED
    BY <1>1, <2>1, LeaveFacts DEF Kept
<1> HIDE DEF n
<1>3. Kept'
  BY <1>1, <1>2 DEF Kept, Affects
<1>4. ASSUME Shown
      PROVE  Shown'
  <2>1. DOMAIN made = InUse(memory) /\ Matches(made, memory) /\ Sound(memory)
    BY <1>4 DEF Shown, Matches, Kept, Healthy
  <2>2. made' = [z \in InUse(n) |-> made'[z]]
    BY <1>1, <1>2, <2>1 DEF Restrict
  <2>3. \A z \in InUse(n) : made'[z] = IF z \in {x} THEN TreeOf(n, n[z]) ELSE made[z]
    BY <1>1, <1>2, <2>1 DEF Restrict
  <2>4. Matches(made', n)
    BY <1>2, <2>1, <2>2, <2>3, MatchesStep
  <2> QED
    BY <1>1, <2>4 DEF Shown
<1>5. Plain(memory) => Plain(memory')
  BY <1>1, <1>2, PlainStep
<1> QED
  BY <1>3, <1>4, <1>5

-----------------------------------------------------------------------------
(* Variables that are moved into parameters.                                *)

\* The variables M may be moved into parameters l and r.
MovedInto(M, l, r) == M \subseteq InUse(memory) /\ \A y \in M : memory[y] \in {l, r}

LEMMA SourcesFacts ==
  ASSUME NEW l, NEW r, NEW M \in Sources(l, r)
  PROVE  MovedInto(M, l, r)
BY DEF Sources, MovedInto

LEMMA HuskFacts ==
  ASSUME NEW m, Sound(m), NEW node, IsNode(m, node), NEW n, Sound(n), NEW k, k = Husk(node)
  PROVE  /\ IsNode(n, k) /\ k.left = Null /\ k.right = Null
         /\ TreeOf(n, k) = Husk(TreeOf(m, node))
         /\ Flat(node) => Flat(k)
<1>1. k = With(node, Null, Null)
  BY DEF Husk, With
<1>2. k.left = Null /\ k.right = Null /\ With(k, Null, Null) = k
  BY <1>1, WithFacts
<1>3. k = [j \in DOMAIN k |-> k[j]] /\ DOMAIN k = DOMAIN node
  BY <1>1 DEF With, IsNode
<1>4. IsNode(n, k)
  BY <1>2, <1>3 DEF IsNode
<1>5. TreeOf(n, k) = k
  BY <1>2, <1>4, Unfold DEF Sub
<1>6. Husk(TreeOf(m, node)) = k
  <2>1. PICK l, r : TreeOf(m, node) = With(node, l, r)
    BY Unfold
  <2>2. With(With(node, l, r), Null, Null) = With(node, Null, Null)
    BY WithFacts
  <2> QED
    BY <1>1, <2>1, <2>2 DEF Husk, With
<1>7. Flat(node) => Flat(k)
  <2>1. "kind" \in DOMAIN node => k["kind"] = node["kind"]
    BY <1>1 DEF With, IsNode
  <2> QED
    BY <1>2, <1>3, <2>1 DEF Flat
<1> QED
  BY <1>2, <1>4, <1>5, <1>6, <1>7

\* n is m, perhaps with fewer nodes, where the variables M have been moved from.
Emptied(m, M, n) ==
  /\ Sound(n) /\ Agree(m, n) /\ DOMAIN n \subseteq DOMAIN m /\ InUse(n) = InUse(m)
  /\ \A o \in DOMAIN n : n[o] = IF o \in M THEN Husk(m[o]) ELSE m[o]

LEMMA EmptiedFacts ==
  ASSUME NEW m, Sound(m), NEW M, M \subseteq InUse(m), NEW n, Emptied(m, M, n)
  PROVE  /\ \A t : Matches(t, m) => Matches(Vacated(t, M), n)
         /\ Plain(m) => Plain(n)
<1>1. ASSUME NEW o \in DOMAIN n, o \in M
      PROVE  TreeOf(n, n[o]) = Husk(TreeOf(m, m[o])) /\ (Flat(m[o]) => Flat(n[o]))
  <2>1. n[o] = Husk(m[o]) /\ IsNode(m, m[o]) /\ Sound(n)
    BY <1>1 DEF Emptied, Sound
  <2> QED
    BY <2>1, HuskFacts
<1>2. ASSUME NEW o \in DOMAIN n, o \notin M
      PROVE  n[o] = m[o] /\ TreeOf(n, n[o]) = TreeOf(m, m[o])
  <2>1. n[o] = m[o] /\ IsNode(m, m[o]) /\ IsNode(n, m[o]) /\ Sound(n) /\ Agree(m, n)
    BY <1>2 DEF Emptied, Sound
  <2> QED
    BY <2>1, AgreementKeepsTrees
<1>3. ASSUME NEW t, Matches(t, m)
      PROVE  Matches(Vacated(t, M), n)
  <2>1. DOMAIN t = InUse(m) /\ \A x \in InUse(m) : t[x] = TreeOf(m, m[x])
    BY <1>3 DEF Matches
  <2>2. \A x \in InUse(m) : TreeOf(n, n[x]) = IF x \in M THEN Husk(t[x]) ELSE t[x]
    BY <1>1, <1>2, <2>1 DEF Emptied, InUse
  <2>3. Vacated(t, M) = [x \in InUse(m) |-> TreeOf(n, n[x])]
    BY <2>1, <2>2 DEF Vacated
  <2>4. InUse(n) = InUse(m)
    BY DEF Emptied
  <2> QED
    BY <2>3, <2>4 DEF Matches
<1>4. Plain(m) => Plain(n)
  BY <1>1, <1>2 DEF Plain, Emptied
<1> QED
  BY <1>3, <1>4

LEMMA VacatedFacts ==
  ASSUME NEW m, Healthy(m), NEW M, M \subseteq InUse(m), NEW l, NEW r, \A y \in M : m[y] \in {l, r},
         NEW h, h = Vacated(m, M)
  PROVE  /\ Emptied(m, M, h) /\ DOMAIN h = DOMAIN m
         /\ \A k : IsNode(m, k) => IsNode(h, k)
         /\ Unheld(h) \subseteq {l.left, l.right, r.left, r.right}
<1>1. /\ DOMAIN h = DOMAIN m /\ h = [o \in DOMAIN h |-> h[o]]
      /\ \A o \in DOMAIN m : h[o] = IF o \in M THEN Husk(m[o]) ELSE m[o]
  BY DEF Vacated
<1>2. Sound(m) /\ Unheld(m) = {} /\ Nodes(h) = Nodes(m) /\ InUse(h) = InUse(m)
  BY <1>1 DEF Healthy, Nodes, InUse
<1>3. \A k : IsNode(m, k) <=> IsNode(h, k)
  BY <1>2 DEF IsNode
<1>4. \A a \in Nodes(m) : h[a] = m[a]
  <2>1. \A a \in Nodes(m) : a \in DOMAIN m /\ a \notin M
    BY NodesFinite DEF InUse
  <2> QED
    BY <1>1, <2>1
<1>5. \A y \in M : y \in DOMAIN m /\ h[y] = Husk(m[y]) /\ IsNode(m, Husk(m[y]))
  <2> SUFFICES ASSUME NEW y \in M
               PROVE  y \in DOMAIN m /\ h[y] = Husk(m[y]) /\ IsNode(m, Husk(m[y]))
    OBVIOUS
  <2>1. y \in DOMAIN m /\ IsNode(m, m[y])
    BY <1>2, InUseFacts
  <2> QED
    BY <1>1, <1>2, <2>1, HuskFacts
<1>6. Sound(h)
  <2>1. \A o \in DOMAIN h : IsNode(h, h[o])
    BY <1>1, <1>2, <1>3, <1>5 DEF Sound
  <2>2. Grounded(h)
    BY <1>2, <1>4, StaysGrounded DEF Sound
  <2> QED
    BY <1>1, <1>2, <2>1, <2>2 DEF Sound
<1>7. Agree(m, h)
  BY <1>4 DEF Agree
<1>8. Emptied(m, M, h)
  BY <1>1, <1>2, <1>6, <1>7 DEF Emptied
<1>9. ASSUME NEW a \in Unheld(h)
      PROVE  a \in {l.left, l.right, r.left, r.right}
  <2>1. a \in Nodes(m) /\ Holders(h, a) = {}
    BY <1>2, <1>9 DEF Unheld
  <2>2. PICK o \in DOMAIN m : a \in Children(m, o)
    BY <1>2, <2>1 DEF Unheld, Holders
  <2>3. o \in M
    BY <1>1, <2>1, <2>2 DEF Holders, Children
  <2> QED
    BY <2>2, <2>3 DEF Children
<1> QED
  BY <1>1, <1>3, <1>8, <1>9

\* l and r in new nodes become the children of a new variable.
LEMMA GraftStep ==
  ASSUME Kept, NEW l, IsNode(memory, l), NEW r, IsNode(memory, r), NEW M, MovedInto(M, l, r),
         NEW h, h = Vacated(memory, M), NEW p \in TwoFree(h), NEW m, m = Allocated(h, p, l, r),
         NEW x \in Register, NEW node, node = [k \in DOMAIN node |-> node[k]],
         {"left", "right"} \subseteq DOMAIN node, node.left = p[1], node.right = p[2],
         Construct(m, Vacated(made, M), x, node, With(node, TreeOf(memory, l), TreeOf(memory, r)))
  PROVE  /\ Kept' /\ (Shown => Shown')
         /\ Plain(memory) /\ Flat(l) /\ Flat(r) /\ Flat(node) => Plain(memory')
<1>1. Sound(memory) /\ Healthy(memory) /\ M \subseteq InUse(memory)
  BY DEF Kept, Healthy, MovedInto
<1>2. /\ Emptied(memory, M, h) /\ DOMAIN h = DOMAIN memory
      /\ \A k : IsNode(memory, k) => IsNode(h, k)
      /\ Unheld(h) \subseteq {l.left, l.right, r.left, r.right}
  BY <1>1, VacatedFacts DEF MovedInto
<1>3. Sound(h) /\ Agree(memory, h) /\ IsNode(h, l) /\ IsNode(h, r)
  BY <1>2 DEF Emptied
<1>4. /\ {p[1], p[2]} \subseteq Block \ DOMAIN h
      /\ Sound(m) /\ DOMAIN m = DOMAIN h \cup {p[1], p[2]} /\ m[p[1]] = l /\ m[p[2]] = r
      /\ \A o \in DOMAIN h : m[o] = h[o]
      /\ Unheld(m) \subseteq Unheld(h) \cup {p[1], p[2]}
      /\ \A k : IsNode(h, k) => IsNode(m, k)
  <2>1. Extended(h, p, l, r, m)
    BY <1>3, AllocatedFacts
  <2> QED
    BY <2>1 DEF Extended
<1>5. IsNode(m, node) /\ p[1] # Null /\ p[2] # Null
  BY <1>4, BlockAssumption DEF IsNode, Nodes
<1>6. Unheld(m) \subseteq {node.left, node.right}
  <2> SUFFICES ASSUME NEW a \in Unheld(m), a \in {l.left, l.right, r.left, r.right}
               PROVE  FALSE
    BY <1>2, <1>4
  <2>1. a # Null /\ Holders(m, a) = {}
    BY NodesFinite DEF Unheld
  <2>2. a \in Children(m, p[1]) \/ a \in Children(m, p[2])
    BY <1>4, <2>1 DEF Children
  <2> QED
    BY <1>4, <2>1, <2>2 DEF Holders
<1>7. InUse(m) = InUse(h)
  BY <1>4, BlockAssumption DEF InUse
<1>8. TreeOf(m, node) = With(node, TreeOf(memory, l), TreeOf(memory, r))
  <2>1. TreeOf(h, l) = TreeOf(memory, l) /\ TreeOf(h, r) = TreeOf(memory, r)
    BY <1>1, <1>3, AgreementKeepsTrees
  <2>2. TreeOf(m, l) = TreeOf(h, l) /\ TreeOf(m, r) = TreeOf(h, r)
    BY <1>3, <1>4, <1>7, MatchesMore
  <2>3. TreeOf(m, node) = With(node, Sub(m, p[1]), Sub(m, p[2]))
    BY <1>4, <1>5, Unfold
  <2> QED
    BY <1>4, <1>5, <2>1, <2>2, <2>3 DEF Sub
<1>9. Shown => Matches(Vacated(made, M), m)
  <2>1. Shown => Matches(Vacated(made, M), h)
    BY <1>1, <1>2, EmptiedFacts DEF Shown
  <2> QED
    BY <1>3, <1>4, <1>7, <2>1, MatchesMore
<1>10. Plain(memory) /\ Flat(l) /\ Flat(r) => Plain(m)
  <2>1. Plain(memory) => Plain(h)
    BY <1>1, <1>2, EmptiedFacts
  <2> QED
    BY <1>4, <2>1 DEF Plain
<1> QED
  BY <1>4, <1>5, <1>6, <1>8, <1>9, <1>10, ConstructStep

\* The constructor that would have made them throws.
LEMMA ThrownStep ==
  ASSUME Kept, NEW l, IsNode(memory, l), NEW r, IsNode(memory, r), NEW M, MovedInto(M, l, r),
         NEW h, h = Vacated(memory, M), NEW n, n = Unwound(h, l, r), Thrown(n, M)
  PROVE  Kept' /\ (Shown => Shown') /\ (Plain(memory) => Plain(memory'))
<1>1. Sound(memory) /\ Healthy(memory) /\ M \subseteq InUse(memory)
  BY DEF Kept, Healthy, MovedInto
<1>2. memory' = n /\ ~lost' /\ made' = Vacated(made, M)
  BY DEF Thrown, Becomes
<1>3. /\ Emptied(memory, M, h) /\ DOMAIN h = DOMAIN memory
      /\ \A k : IsNode(memory, k) => IsNode(h, k)
      /\ Unheld(h) \subseteq {l.left, l.right, r.left, r.right}
  BY <1>1, VacatedFacts DEF MovedInto
<1>4. Sound(h) /\ IsNode(h, l) /\ IsNode(h, r)
  BY <1>3 DEF Emptied
<1>5. Shrunk(h, n) /\ Unheld(n) = {}
  BY <1>3, <1>4, UnwoundFacts
<1>6. Emptied(memory, M, n)
  BY <1>3, <1>5 DEF Emptied, Shrunk, Agree, Nodes
<1>7. Kept'
  BY <1>2, <1>5 DEF Kept, Healthy, Shrunk
<1>8. (Shown => Shown') /\ (Plain(memory) => Plain(memory'))
  <2>1. Shown => Matches(made', n)
    BY <1>1, <1>2, <1>6, EmptiedFacts DEF Shown
  <2>2. Plain(memory) => Plain(n)
    BY <1>1, <1>6, EmptiedFacts
  <2> QED
    BY <1>2, <2>1, <2>2 DEF Shown
<1> QED
  BY <1>7, <1>8

LEMMA ObjectIsNode ==
  ASSUME Kept, NEW o \in Objects
  PROVE  o \in DOMAIN memory /\ IsNode(memory, memory[o])
<1>1. Sound(memory)
  BY DEF Kept, Healthy
<1> QED
  BY <1>1, ObjectsFacts DEF Sound

LEMMA InitKept == SharedInit => Kept /\ Shown /\ Plain(memory)
<1> SUFFICES ASSUME SharedInit
             PROVE  Kept /\ Shown /\ Plain(memory)
  OBVIOUS
<1>1. DOMAIN memory = {} /\ lost = FALSE /\ made = << >>
  BY DEF SharedInit
<1>2. memory = [o \in DOMAIN memory |-> memory[o]]
  BY DEF SharedInit
<1>3. Nodes(memory) = {} /\ InUse(memory) = {}
  BY <1>1 DEF Nodes, InUse
<1>4. Kept
  BY <1>1, <1>2, <1>3 DEF Kept, Healthy, Sound, Grounded, Unheld
<1>5. made = [x \in {} |-> TreeOf(memory, memory[x])]
  BY <1>1
<1>6. Shown
  BY <1>1, <1>3, <1>5 DEF Shown, Matches
<1> QED
  BY <1>1, <1>4, <1>6 DEF Plain

LEMMA UnchangedStep ==
  ASSUME Kept, UNCHANGED sharedVars
  PROVE  Kept' /\ (Shown => Shown') /\ (Plain(memory) => Plain(memory'))
BY DEF sharedVars, Kept, Shown

-----------------------------------------------------------------------------
(* BinaryTree.                                                              *)

LEMMA BinaryNodeFacts ==
  ASSUME NEW v, NEW l, NEW r
  PROVE  /\ Node(v, l, r).left = l /\ Node(v, l, r).right = r
         /\ \A a, b : With(Node(v, l, r), a, b) = Node(v, a, b)
         /\ Node(v, l, r) = [k \in DOMAIN Node(v, l, r) |-> Node(v, l, r)[k]]
         /\ {"left", "right"} \subseteq DOMAIN Node(v, l, r)
         /\ \A m : l \in Nodes(m) \cup {Null} /\ r \in Nodes(m) \cup {Null} => IsNode(m, Node(v, l, r))
<1> DEFINE node == Node(v, l, r)
<1>1. /\ node.left = l /\ node.right = r /\ node = [k \in DOMAIN node |-> node[k]]
      /\ {"left", "right"} \subseteq DOMAIN node
  BY DEF Node
<1>2. ASSUME NEW a, NEW b
      PROVE  With(node, a, b) = Node(v, a, b)
  <2> DEFINE k == With(node, a, b)
             j == Node(v, a, b)
  <2>1. /\ DOMAIN k = {"value", "left", "right"} /\ k = [i \in DOMAIN k |-> k[i]]
        /\ k["value"] = v /\ k["left"] = a /\ k["right"] = b
    BY DEF Node, With
  <2>2. /\ DOMAIN j = {"value", "left", "right"} /\ j = [i \in DOMAIN j |-> j[i]]
        /\ j["value"] = v /\ j["left"] = a /\ j["right"] = b
    BY DEF Node
  <2> HIDE DEF k, j
  <2>3. k = j
    BY <2>1, <2>2
  <2> QED
    BY <2>3 DEF k, j
<1> HIDE DEF node
<1>3. \A m : l \in Nodes(m) \cup {Null} /\ r \in Nodes(m) \cup {Null} => IsNode(m, node)
  BY <1>1 DEF IsNode
<1> QED
  BY <1>1, <1>2, <1>3 DEF node

LEMMA MakeNodeStep ==
  ASSUME Kept, NEW x \in Register, NEW v, NEW l, IsNode(memory, l), NEW r, IsNode(memory, r),
         NEW M, MovedInto(M, l, r), MakeNode(x, v, l, r, M)
  PROVE  Kept' /\ (Shown => Shown')
<1> DEFINE h == Vacated(memory, M)
<1>1. ASSUME NEW p \in TwoFree(h),
             Construct(Allocated(h, p, l, r), Vacated(made, M), x, Node(v, p[1], p[2]),
                       Node(v, TreeOf(memory, l), TreeOf(memory, r)))
      PROVE  Kept' /\ (Shown => Shown')
  <2> DEFINE node == Node(v, p[1], p[2])
             m == Allocated(h, p, l, r)
  <2>1. /\ node = [k \in DOMAIN node |-> node[k]] /\ {"left", "right"} \subseteq DOMAIN node
        /\ node.left = p[1] /\ node.right = p[2]
        /\ With(node, TreeOf(memory, l), TreeOf(memory, r)) = Node(v, TreeOf(memory, l), TreeOf(memory, r))
    BY BinaryNodeFacts
  <2>2. /\ h = Vacated(memory, M) /\ m = Allocated(h, p, l, r)
        /\ Construct(m, Vacated(made, M), x, node, With(node, TreeOf(memory, l), TreeOf(memory, r)))
    BY <1>1, <2>1
  <2> HIDE DEF node, m, h
  <2> QED
    BY <2>1, <2>2, GraftStep
<1>2. ASSUME Thrown(Unwound(h, l, r), M) \/ Thrown(Unwound(h, r, l), M)
      PROVE  Kept' /\ (Shown => Shown')
  <2>1. MovedInto(M, r, l) /\ h = Vacated(memory, M)
    BY DEF MovedInto
  <2> HIDE DEF h
  <2> QED
    BY <1>2, <2>1, ThrownStep
<1> QED
  BY <1>1, <1>2 DEF MakeNode

LEMMA FromChildrenStep ==
  ASSUME Kept, NEW x \in Register, NEW v, NEW p \in (Objects \cap Block) \cup {Null},
         NEW q \in (Objects \cap Block) \cup {Null}, FromChildren(x, v, p, q)
  PROVE  Kept' /\ (Shown => Shown')
<1> DEFINE node == Node(v, p, q)
<1>1. Sound(memory)
  BY DEF Kept, Healthy
<1>2. p \in Nodes(memory) \cup {Null} /\ q \in Nodes(memory) \cup {Null}
  BY ObjectIsNode DEF Nodes
<1>3. IsNode(memory, node) /\ node.left = p /\ node.right = q
  BY <1>2, BinaryNodeFacts
<1>4. TreeOf(memory, node) = Node(v, Sub(memory, p), Sub(memory, q))
  <2>1. TreeOf(memory, node) = With(node, Sub(memory, p), Sub(memory, q))
    <3> HIDE DEF node
    <3> QED
      BY <1>1, <1>3, Unfold
  <2> QED
    BY <2>1, BinaryNodeFacts
<1>5. Construct(memory, made, x, node, TreeOf(memory, node))
  BY <1>4 DEF FromChildren, Sub
<1>6. Copy(x, node)
  BY <1>5 DEF Copy
<1> HIDE DEF node
<1> QED
  BY <1>3, <1>6, CopyStep

LEMMA BinaryStep ==
  ASSUME Kept, BinaryNext
  PROVE  Kept' /\ (Shown /\ ~AliasedAssign => Shown')
<1>1. ASSUME NEW x \in Register, NEW v \in Value, MakeLeaf(x, v)
      PROVE  Kept' /\ (Shown => Shown')
  <2>1. IsNode(memory, Node(v, Null, Null)) /\ Copy(x, Node(v, Null, Null))
    BY <1>1, BinaryNodeFacts DEF MakeLeaf
  <2> QED
    BY <2>1, CopyStep
<1>2. ASSUME NEW x \in Register, NEW o \in Objects, Copy(x, memory[o])
      PROVE  Kept' /\ (Shown => Shown')
  BY <1>2, ObjectIsNode, CopyStep
<1>3. ASSUME NEW d \in InUse(memory), NEW o \in Objects, MayAssign(d, o), AssignMembers(d, o)
      PROVE  Kept' /\ (Shown /\ ~AliasedAssign => Shown')
  <2>1. o \in DOMAIN memory /\ o # d /\ (~AliasedAssign => HeldElsewhere(d, o))
    BY <1>3, HeldElsewhereFacts
  <2> QED
    BY <1>3, <2>1, AssignMembersStep
<1>4. ASSUME NEW x \in Register, NEW v, NEW l \in {memory[o] : o \in Objects},
             NEW r \in {memory[o] : o \in Objects}, NEW M \in Sources(l, r), MakeNode(x, v, l, r, M)
      PROVE  Kept' /\ (Shown => Shown')
  <2>1. IsNode(memory, l) /\ IsNode(memory, r)
    BY ObjectIsNode
  <2> QED
    BY <1>4, <2>1, SourcesFacts, MakeNodeStep
<1> QED
  BY <1>1, <1>2, <1>3, <1>4, FromChildrenStep, MoveStep, LeaveScopeStep DEF BinaryNext

\* Whatever clients do with BinaryTrees, those that assign to a tree a part of
\* itself included: a node is destroyed when the last tree that has it lets go
\* of it, no earlier and no later.
THEOREM BinaryReclaimed == BinarySpec => []Reclaimed
<1>1. SharedInit => Kept
  BY InitKept
<1>2. Kept /\ [BinaryNext]_sharedVars => Kept'
  BY BinaryStep, UnchangedStep
<1>3. Kept => Reclaimed
  BY HeldReclaimed DEF Kept, Healthy
<1> QED
  BY <1>1, <1>2, <1>3, PTL DEF BinarySpec

\* BinaryTrees that share nodes are told apart by nothing: if no client assigns
\* to a tree a part of it that nobody else holds, each variable is always the
\* tree its client made it, and no destroyed node is read.
THEOREM BinaryPersistent ==
  ASSUME ~AliasedAssign
  PROVE  BinarySpec => []Persistent
<1>1. SharedInit => Kept /\ Shown
  BY InitKept
<1>2. Kept /\ Shown /\ [BinaryNext]_sharedVars => Kept' /\ Shown'
  BY BinaryStep, UnchangedStep
<1>3. Shown => Persistent
  BY ShownPersistent
<1> QED
  BY <1>1, <1>2, <1>3, PTL DEF BinarySpec

-----------------------------------------------------------------------------
(* FringeTree.                                                              *)

LEMMA EmptyNodeFacts ==
  /\ EmptyNode.left = Null /\ EmptyNode.right = Null /\ Flat(EmptyNode)
  /\ \A m : IsNode(m, EmptyNode)
<1>1. /\ EmptyNode.left = Null /\ EmptyNode.right = Null
      /\ EmptyNode = [k \in DOMAIN EmptyNode |-> EmptyNode[k]]
      /\ {"left", "right", "kind"} \subseteq DOMAIN EmptyNode
  BY DEF EmptyNode
<1> QED
  BY <1>1 DEF Flat, IsNode

LEMMA LeafNodeFacts ==
  ASSUME NEW v
  PROVE  Flat(LeafNode(v)) /\ \A m : IsNode(m, LeafNode(v))
<1> DEFINE node == LeafNode(v)
<1>1. /\ node.left = Null /\ node.right = Null /\ node = [k \in DOMAIN node |-> node[k]]
      /\ {"left", "right", "kind"} \subseteq DOMAIN node
  BY DEF LeafNode
<1> HIDE DEF node
<1>2. Flat(node) /\ \A m : IsNode(m, node)
  BY <1>1 DEF Flat, IsNode
<1> QED
  BY <1>2 DEF node

LEMMA BranchNodeFacts ==
  ASSUME NEW c, NEW l, NEW r
  PROVE  /\ BranchNode(c, l, r).left = l /\ BranchNode(c, l, r).right = r /\ Flat(BranchNode(c, l, r))
         /\ \A a, b : With(BranchNode(c, l, r), a, b) = BranchNode(c, a, b)
         /\ BranchNode(c, l, r) = [k \in DOMAIN BranchNode(c, l, r) |-> BranchNode(c, l, r)[k]]
         /\ {"left", "right"} \subseteq DOMAIN BranchNode(c, l, r)
<1> DEFINE node == BranchNode(c, l, r)
<1>1. /\ node.left = l /\ node.right = r /\ node = [k \in DOMAIN node |-> node[k]]
      /\ {"left", "right", "kind"} \subseteq DOMAIN node /\ node.kind = "branch"
  BY DEF BranchNode
<1>2. ASSUME NEW a, NEW b
      PROVE  With(node, a, b) = BranchNode(c, a, b)
  <2> DEFINE k == With(node, a, b)
             j == BranchNode(c, a, b)
  <2>1. /\ DOMAIN k = {"kind", "measure", "left", "right"} /\ k = [i \in DOMAIN k |-> k[i]]
        /\ k["kind"] = "branch" /\ k["measure"] = c /\ k["left"] = a /\ k["right"] = b
    BY DEF BranchNode, With
  <2>2. /\ DOMAIN j = {"kind", "measure", "left", "right"} /\ j = [i \in DOMAIN j |-> j[i]]
        /\ j["kind"] = "branch" /\ j["measure"] = c /\ j["left"] = a /\ j["right"] = b
    BY DEF BranchNode
  <2> HIDE DEF k, j
  <2>3. k = j
    BY <2>1, <2>2
  <2> QED
    BY <2>3 DEF k, j
<1> HIDE DEF node
<1>3. Flat(node) /\ {"left", "right"} \subseteq DOMAIN node
  BY <1>1 DEF Flat
<1> QED
  BY <1>1, <1>2, <1>3 DEF node

KeptPlain == Kept /\ Plain(memory)

LEMMA OperandFacts ==
  ASSUME KeptPlain, NEW k \in Operands
  PROVE  IsNode(memory, k) /\ Flat(k)
<1>1. CASE \E o \in Readable : k = memory[o]
  BY <1>1, ObjectIsNode DEF Readable, KeptPlain, Plain
<1>2. CASE \E v \in Value : k = LeafNode(v)
  BY <1>2, LeafNodeFacts
<1>3. CASE k = EmptyNode
  BY <1>3, EmptyNodeFacts
<1> QED
  BY <1>1, <1>2, <1>3 DEF Operands

LEMMA BranchStep ==
  ASSUME KeptPlain, NEW x \in Register, NEW l \in Operands, NEW r \in Operands,
         NEW M, MovedInto(M, l, r), Branch(x, l, r, M)
  PROVE  KeptPlain' /\ (Shown => Shown')
<1> DEFINE h == Vacated(memory, M)
           c == Measure(l) + Measure(r)
<1>1. IsNode(memory, l) /\ IsNode(memory, r) /\ Flat(l) /\ Flat(r) /\ Kept /\ Plain(memory)
  BY OperandFacts DEF KeptPlain
<1>2. ASSUME NEW p \in TwoFree(h),
             Construct(Allocated(h, p, l, r), Vacated(made, M), x, BranchNode(c, p[1], p[2]),
                       BranchNode(c, TreeOf(memory, l), TreeOf(memory, r)))
      PROVE  KeptPlain' /\ (Shown => Shown')
  <2> HIDE DEF c
  <2> DEFINE node == BranchNode(c, p[1], p[2])
             m == Allocated(h, p, l, r)
  <2>1. /\ node = [k \in DOMAIN node |-> node[k]] /\ {"left", "right"} \subseteq DOMAIN node
        /\ node.left = p[1] /\ node.right = p[2] /\ Flat(node)
        /\ With(node, TreeOf(memory, l), TreeOf(memory, r)) = BranchNode(c, TreeOf(memory, l), TreeOf(memory, r))
    BY BranchNodeFacts
  <2>2. /\ h = Vacated(memory, M) /\ m = Allocated(h, p, l, r)
        /\ Construct(m, Vacated(made, M), x, node, With(node, TreeOf(memory, l), TreeOf(memory, r)))
    BY <1>2, <2>1
  <2> HIDE DEF node, m, h
  <2> QED
    BY <1>1, <2>1, <2>2, GraftStep DEF KeptPlain
<1>3. ASSUME Thrown(Unwound(h, l, r), M)
      PROVE  KeptPlain' /\ (Shown => Shown')
  BY <1>1, <1>3, ThrownStep DEF KeptPlain
<1> QED
  BY <1>2, <1>3 DEF Branch

LEMMA OperandStep ==
  ASSUME KeptPlain, NEW x \in Register, NEW k \in Operands, Copy(x, k)
  PROVE  KeptPlain' /\ (Shown => Shown')
BY OperandFacts, CopyStep DEF KeptPlain

LEMMA AffectsTwice ==
  ASSUME NEW m, NEW k, NEW n, NEW X, Affects(m, k, X), Affects(k, n, X)
  PROVE  Affects(m, n, X)
<1>1. Healthy(n) /\ Nodes(n) \subseteq Nodes(m) /\ InUse(m) \subseteq InUse(n) \cup X
  BY DEF Affects
<1>2. Agree(m, n)
  BY DEF Affects, Agree
<1>3. \A x \in InUse(n) : x \notin X => x \in InUse(m) /\ n[x] = m[x]
  BY DEF Affects
<1> QED
  BY <1>1, <1>2, <1>3 DEF Affects

LEMMA AssignValueStep ==
  ASSUME KeptPlain, NEW d \in InUse(memory), NEW o \in DOMAIN memory, AssignValue(d, o)
  PROVE  KeptPlain' /\ (Shown => Shown')
<1> DEFINE n == Put(memory, d, memory[o])
<1>1. memory[d].kind # "branch" /\ Assigned(d, o, n)
  BY DEF AssignValue
<1>2. /\ Healthy(memory) /\ memory[d].left = Null /\ memory[d].right = Null
      /\ IsNode(memory, memory[o])
  BY <1>1 DEF KeptPlain, Kept, Plain, Flat, InUse, Healthy, Sound
<1>3. Affects(memory, n, {d}) /\ InUse(n) = InUse(memory) /\ n[d] = memory[o]
  <2>1. n = Put(memory, d, memory[o])
    OBVIOUS
  <2> HIDE DEF n
  <2> QED
    BY <1>2, <2>1, FillFacts
<1> HIDE DEF n
<1> QED
  BY <1>1, <1>3, AssignedStep DEF KeptPlain

LEMMA AssignOtherStep ==
  ASSUME KeptPlain, NEW d \in InUse(memory), NEW o \in DOMAIN memory, o # d, AssignOther(d, o)
  PROVE  KeptPlain' /\ (Shown /\ HeldElsewhere(d, o) => Shown')
<1> DEFINE m == Dropped(Put(memory, d, EmptyNode), memory[d])
           n == Put(m, d, m[o])
<1>1. IF o \in DOMAIN m THEN Assigned(d, o, n) ELSE ReadsDestroyed
  BY DEF AssignOther
<1>2. /\ Affects(memory, m, {d}) /\ InUse(m) = InUse(memory) /\ m[d] = EmptyNode
      /\ \A R : Supported(memory, R) /\ d \notin R => Supported(m, R)
  <2>1. m = Dropped(Put(memory, d, EmptyNode), memory[d]) /\ IsNode(memory, EmptyNode) /\ Healthy(memory)
    BY EmptyNodeFacts DEF KeptPlain, Kept
  <2> HIDE DEF m
  <2> QED
    BY <2>1, ClearFacts
<1>3. n = Put(m, d, m[o])
  OBVIOUS
<1> HIDE DEF m, n
<1>4. HeldElsewhere(d, o) => o \in DOMAIN m
  BY <1>2 DEF HeldElsewhere, Supported
<1>5. CASE o \in DOMAIN m
  <2>1. Healthy(m) /\ Sound(m) /\ IsNode(m, m[o]) /\ d \in InUse(m)
    BY <1>2, <1>5 DEF Affects, Healthy, Sound
  <2>2. m[o] = memory[o]
    BY <1>2, <1>5, <2>1 DEF Affects, Agree, Sound, Nodes, InUse
  <2>3. m[d].left = Null /\ m[d].right = Null
    BY <1>2, EmptyNodeFacts
  <2>4. Affects(m, n, {d}) /\ InUse(n) = InUse(m) /\ n[d] = m[o]
    BY <1>3, <2>1, <2>3, FillFacts
  <2>5. Affects(memory, n, {d})
    BY <1>2, <2>4, AffectsTwice
  <2> QED
    BY <1>1, <1>2, <1>5, <2>2, <2>4, <2>5, AssignedStep DEF KeptPlain
<1>6. CASE o \notin DOMAIN m
  BY <1>1, <1>4, <1>6, ReadsDestroyedStep DEF KeptPlain
<1> QED
  BY <1>5, <1>6

LEMMA FringeStep ==
  ASSUME KeptPlain, FringeNext
  PROVE  KeptPlain' /\ (Shown /\ ~AliasedAssign => Shown')
<1>1. ASSUME NEW x \in Register, NEW l \in Operands, NEW r \in Operands, Concat(x, l, r)
      PROVE  KeptPlain' /\ (Shown => Shown')
  <2>1. MovedInto({}, l, r)
    BY DEF MovedInto
  <2> QED
    BY <1>1, <2>1, BranchStep, OperandStep DEF Concat
<1>2. ASSUME NEW x \in Register, NEW y, Move(x, y)
      PROVE  KeptPlain' /\ (Shown => Shown')
  BY <1>2, MoveStep DEF KeptPlain
<1>3. ASSUME NEW x, LeaveScope(x)
      PROVE  KeptPlain' /\ (Shown => Shown')
  BY <1>3, LeaveScopeStep DEF KeptPlain
<1>4. ASSUME NEW d \in InUse(memory), NEW o \in Readable, Assign(d, o)
      PROVE  KeptPlain' /\ (Shown /\ ~AliasedAssign => Shown')
  <2>1. o \in DOMAIN memory /\ o # d /\ (~AliasedAssign => HeldElsewhere(d, o))
    BY <1>4, HeldElsewhereFacts DEF Assign, Readable, KeptPlain
  <2>2. CASE AssignBranch(d, o)
    BY <2>1, <2>2, AssignMembersStep DEF AssignBranch, KeptPlain
  <2>3. CASE AssignValue(d, o)
    BY <2>1, <2>3, AssignValueStep
  <2>4. CASE AssignOther(d, o)
    BY <2>1, <2>4, AssignOtherStep
  <2> QED
    BY <1>4, <2>2, <2>3, <2>4 DEF Assign
<1>5. ASSUME NEW x \in Register, NEW l \in Operands, NEW r \in Operands, NEW M \in Sources(l, r),
             Branch(x, l, r, M)
      PROVE  KeptPlain' /\ (Shown => Shown')
  BY <1>5, SourcesFacts, BranchStep
<1> QED
  BY <1>1, <1>2, <1>3, <1>4, <1>5, OperandStep DEF FringeNext

\* The same of FringeTrees, whose assignments destroy and remake a variable
\* that becomes another alternative.
THEOREM FringeReclaimed == FringeSpec => []Reclaimed
<1>1. SharedInit => KeptPlain
  BY InitKept DEF KeptPlain
<1>2. KeptPlain /\ [FringeNext]_sharedVars => KeptPlain'
  BY FringeStep, UnchangedStep DEF KeptPlain
<1>3. KeptPlain => Reclaimed
  BY HeldReclaimed DEF KeptPlain, Kept, Healthy
<1> QED
  BY <1>1, <1>2, <1>3, PTL DEF FringeSpec

\* FringeTrees that share nodes are told apart by nothing, their cached
\* measures included, if no client assigns to a tree a part of it that nobody
\* else holds.
THEOREM FringePersistent ==
  ASSUME ~AliasedAssign
  PROVE  FringeSpec => []Persistent
<1>1. SharedInit => KeptPlain /\ Shown
  BY InitKept DEF KeptPlain
<1>2. KeptPlain /\ Shown /\ [FringeNext]_sharedVars => KeptPlain' /\ Shown'
  BY FringeStep, UnchangedStep DEF KeptPlain
<1>3. Shown => Persistent
  BY ShownPersistent
<1> QED
  BY <1>1, <1>2, <1>3, PTL DEF FringeSpec
=============================================================================
