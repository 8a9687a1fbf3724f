------------------------------ MODULE BoxProof ------------------------------
(***************************************************************************)
(* Proofs about Box and SwapBox, for every number of variables and every   *)
(* size of the memory: each node has one owner, nothing leaks, nothing     *)
(* that was destroyed is used, and every variable holds the tree that its  *)
(* client gave it.                                                         *)
(*                                                                         *)
(* The operations are made of a few moves of pointers between places.  The *)
(* lemmas about these speak of any heap h and any variables v, so that a   *)
(* parameter taken by value, or the pointer that `new` returns, can be a   *)
(* variable that clients do not have: Null stands for it.                  *)
(***************************************************************************)
EXTENDS SwapBox, ProofLemmas

Pointer == Addr \cup {Null}

IsHeap(h) ==
  /\ DOMAIN h \subseteq Addr
  /\ h \in [DOMAIN h -> [value : Value, left : Pointer, right : Pointer]]

\* Following the children of X's live nodes does not lead out of X.
Closed(h, X) == \A a \in X \cap DOMAIN h : \A s \in Side : h[a][s] \in X \cup {Null}

LEMMA HeapFacts ==
  ASSUME NEW h, IsHeap(h)
  PROVE  \A a \in DOMAIN h : \A s \in Side : h[a][s] \in Pointer
<1> SUFFICES ASSUME NEW a \in DOMAIN h
             PROVE  h[a].left \in Pointer /\ h[a].right \in Pointer
  BY DEF Side
<1> QED
  BY DEF IsHeap

-----------------------------------------------------------------------------
(* Visited(h, q) is the least closed set that q is in.                      *)

Children(h, X) == {h[a][s] : a \in X \cap DOMAIN h, s \in Side} \ {Null}

LEMMA ChildrenFacts ==
  ASSUME NEW h, IsHeap(h)
  PROVE  /\ \A X : Children(h, X) \subseteq Addr
         /\ \A X : Closed(h, X) <=> Children(h, X) \subseteq X
         /\ \A X, Y : X \subseteq Y => Children(h, X) \subseteq Children(h, Y)
<1>1. \A X : Children(h, X) \subseteq Addr
  BY HeapFacts DEF Children, Pointer
<1>2. \A X : Closed(h, X) <=> Children(h, X) \subseteq X
  BY DEF Children, Closed
<1>3. \A X, Y : X \subseteq Y => Children(h, X) \subseteq Children(h, Y)
  BY DEF Children
<1> QED
  BY <1>1, <1>2, <1>3

Grow(h) == [X \in SUBSET Addr |-> X \cup Children(h, X)]

LEMMA GrowFacts ==
  ASSUME NEW h, IsHeap(h)
  PROVE  /\ Grow(h) \in [SUBSET Addr -> SUBSET Addr]
         /\ \A X \in SUBSET Addr : Grow(h)[X] = X \cup Children(h, X)
<1>1. \A X \in SUBSET Addr : X \cup Children(h, X) \in SUBSET Addr
  BY ChildrenFacts
<1>2. Grow(h) \in [SUBSET Addr -> SUBSET Addr]
  BY <1>1 DEF Grow
<1>3. \A X \in SUBSET Addr : Grow(h)[X] = X \cup Children(h, X)
  BY DEF Grow
<1> QED
  BY <1>2, <1>3

LEMMA VisitedIterates ==
  ASSUME NEW h, IsHeap(h), NEW q \in Pointer
  PROVE  \E f : /\ Iteration(f, SUBSET Addr, {q} \ {Null}, Grow(h), Cardinality(Addr))
                /\ Visited(h, q) = f[Cardinality(Addr)]
<1> DEFINE N == Cardinality(Addr)
           X == SUBSET Addr
           base == {q} \ {Null}
           Body(f) == [n \in 0..N |-> IF n = 0 THEN base ELSE f[n - 1] \cup Children(h, f[n - 1])]
           W == CHOOSE f : f = Body(f)
<1>1. N \in Nat
  BY AddrAssumption, FS_CardinalityType
<1>2. base \in X /\ Grow(h) \in [X -> X]
  BY GrowFacts DEF Pointer
<1>3. \A n \in 1..N : n - 1 \in 0..N /\ n \in 0..N /\ n # 0
  BY <1>1
<1>4. PICK g : Iteration(g, X, base, Grow(h), N)
  <2> HIDE DEF X, base, N
  <2> QED
    BY <1>1, <1>2, Iterates
<1>5. /\ g \in [0..N -> X] /\ g[0] = base
      /\ \A n \in 1..N : g[n] = g[n - 1] \cup Children(h, g[n - 1])
  BY <1>3, <1>4, GrowFacts DEF Iteration
<1>6. g = Body(g)
  <2> HIDE DEF base, N
  <2>1. g = [n \in 0..N |-> g[n]]
    BY <1>5
  <2>2. \A n \in 0..N : n = 0 \/ n \in 1..N
    BY <1>1
  <2> QED
    BY <1>5, <2>1, <2>2
<1>7. W = Body(W)
  <2> HIDE DEF Body
  <2> QED
    BY <1>6
<1>8. Visited(h, q) = W[N]
  BY DEF Visited, Children
<1> HIDE DEF W
<1>9. \A n \in 0..N : W[n] = IF n = 0 THEN base ELSE W[n - 1] \cup Children(h, W[n - 1])
  <2> HIDE DEF base, N
  <2> QED
    BY <1>7, Zenon
<1>10. W[0] = base /\ \A n \in 1..N : W[n] = W[n - 1] \cup Children(h, W[n - 1])
  <2>1. 0 \in 0..N
    BY <1>1
  <2> HIDE DEF base, N
  <2> QED
    BY <1>3, <1>9, <2>1, Zenon
<1>11. ASSUME NEW n \in 1..N, W[n - 1] \in X
       PROVE  W[n] = Grow(h)[W[n - 1]]
  <2>1. Grow(h)[W[n - 1]] = W[n - 1] \cup Children(h, W[n - 1])
    BY <1>11, GrowFacts
  <2> QED
    BY <1>10, <2>1
<1>12. W = [n \in 0..N |-> W[n]]
  BY <1>7
<1>13. Iteration(W, X, base, Grow(h), N)
  <2> HIDE DEF X, base, N
  <2> QED
    BY <1>1, <1>2, <1>10, <1>11, <1>12, Iterated
<1> QED
  BY <1>8, <1>13

LEMMA VisitedFacts ==
  ASSUME NEW h, IsHeap(h), NEW q \in Pointer
  PROVE  /\ Visited(h, q) \subseteq Addr
         /\ q \in Visited(h, q) \cup {Null}
         /\ Closed(h, Visited(h, q))
         /\ \A X : q \in X \cup {Null} /\ Closed(h, X) => Visited(h, q) \subseteq X
<1> DEFINE N == Cardinality(Addr)
           base == {q} \ {Null}
<1>1. N \in Nat /\ IsFiniteSet(Addr)
  BY AddrAssumption, FS_CardinalityType
<1>2. base \in SUBSET Addr
  BY DEF Pointer
<1>3. PICK f : Iteration(f, SUBSET Addr, base, Grow(h), N) /\ Visited(h, q) = f[N]
  BY VisitedIterates
<1>4. f[N] \in SUBSET Addr
  BY <1>1, <1>3 DEF Iteration
<1>5. base \subseteq f[N] /\ Grow(h)[f[N]] = f[N]
  <2>1. Grows(Grow(h), Addr)
    BY GrowFacts DEF Grows
  <2>2. Cardinality(Addr) <= N + Cardinality(base)
    BY <1>1, <1>2, FS_Subset, FS_CardinalityType
  <2> HIDE DEF base, N
  <2> QED
    BY <1>1, <1>2, <1>3, <2>1, <2>2, Saturation
<1>6. Closed(h, f[N])
  <2>1. Children(h, f[N]) \subseteq f[N]
    BY <1>4, <1>5, GrowFacts
  <2> QED
    BY <2>1, ChildrenFacts
<1>7. ASSUME NEW X, q \in X \cup {Null}, Closed(h, X)
      PROVE  f[N] \subseteq X
  <2>1. base \subseteq X
    BY <1>7
  <2>2. Stays(Grow(h), Addr, X)
    <3>1. Children(h, X) \subseteq X
      BY <1>7, ChildrenFacts
    <3>2. \A Y : Y \subseteq X => Children(h, Y) \subseteq X
      BY <3>1, ChildrenFacts
    <3> QED
      BY <3>2, GrowFacts, SMTT(20) DEF Stays
  <2>3. N \in Nat /\ Iteration(f, SUBSET Addr, base, Grow(h), N)
    BY <1>1, <1>3
  <2> HIDE DEF N, base
  <2> QED
    BY <2>1, <2>2, <2>3, LeastSaturation
<1> QED
  BY <1>3, <1>4, <1>5, <1>6, <1>7

-----------------------------------------------------------------------------
(* The invariant.  That every node is held by one place does not exclude    *)
(* nodes that hold each other in a circle, so it is not inductive: MakeBox  *)
(* and move assignment would let a node become its own owner.  Rooted, which*)
(* says that a set of nodes is held from outside the set, excludes circles  *)
(* and says that every node is reached from a variable.                     *)

Places(h, v) == DOMAIN v \cup ((DOMAIN h) \X Side)
Held(h, v, p) == IF p \in DOMAIN v THEN v[p] ELSE h[p[1]][p[2]]

NoneDangling(h, v) == \A p \in Places(h, v) : Held(h, v, p) \in DOMAIN h \cup {Null}

HeldOnce(h, v) ==
  \A p, r \in Places(h, v) : Held(h, v, p) = Held(h, v, r) /\ Held(h, v, p) # Null => p = r

Rooted(h, v) ==
  \A Z \in SUBSET DOMAIN h :
    Z # {} => \E p \in Places(h, v) \ (Z \X Side) : Held(h, v, p) \in Z

Good(h, v) ==
  /\ IsHeap(h)
  /\ DOMAIN v \cap (Addr \X Side) = {}
  /\ NoneDangling(h, v)
  /\ HeldOnce(h, v)
  /\ Rooted(h, v)

\* Below d is the tree that a place d holds.
Below(h, v, d) == Visited(h, Held(h, v, d))

LEMMA SlotFacts ==
  ASSUME NEW h, IsHeap(h), NEW v, DOMAIN v \cap (Addr \X Side) = {}
  PROVE  /\ \A a \in DOMAIN h : \A s \in Side :
              /\ <<a, s>> \in Places(h, v) /\ <<a, s>> \notin DOMAIN v
              /\ Held(h, v, <<a, s>>) = h[a][s]
         /\ \A p \in Places(h, v) \ DOMAIN v : \E a \in DOMAIN h : \E s \in Side : p = <<a, s>>
         /\ \A x \in DOMAIN v : x \in Places(h, v) /\ Held(h, v, x) = v[x]
<1>1. DOMAIN h \subseteq Addr
  BY DEF IsHeap
<1>2. ASSUME NEW a \in DOMAIN h, NEW s \in Side
      PROVE  /\ <<a, s>> \in Places(h, v) /\ <<a, s>> \notin DOMAIN v
             /\ Held(h, v, <<a, s>>) = h[a][s]
  <2>1. <<a, s>> \in (DOMAIN h) \X Side /\ <<a, s>> \in Addr \X Side
    BY <1>1
  <2>2. <<a, s>> \notin DOMAIN v
    BY <2>1
  <2>3. <<a, s>>[1] = a /\ <<a, s>>[2] = s
    OBVIOUS
  <2> QED
    BY <2>1, <2>2, <2>3 DEF Places, Held
<1>3. ASSUME NEW p \in Places(h, v) \ DOMAIN v
      PROVE  \E a \in DOMAIN h : \E s \in Side : p = <<a, s>>
  BY DEF Places
<1>4. \A x \in DOMAIN v : x \in Places(h, v) /\ Held(h, v, x) = v[x]
  BY DEF Places, Held
<1> QED
  BY <1>2, <1>3, <1>4

\* What a closed set holds stays inside; so does what lies below a place.
LEMMA BelowFacts ==
  ASSUME NEW h, NEW v, Good(h, v), NEW d \in Places(h, v)
  PROVE  /\ Below(h, v, d) \subseteq DOMAIN h
         /\ Closed(h, Below(h, v, d))
         /\ Held(h, v, d) \in Below(h, v, d) \cup {Null}
         /\ \A p \in Places(h, v) :
              Held(h, v, p) \in Below(h, v, d) => p = d \/ p \in Below(h, v, d) \X Side
         /\ \A p \in Below(h, v, d) \X Side :
              p \in Places(h, v) /\ Held(h, v, p) \in Below(h, v, d) \cup {Null}
         /\ d \notin Below(h, v, d) \X Side
<1> DEFINE q == Held(h, v, d)
           B == Visited(h, q)
<1>1. IsHeap(h) /\ q \in Pointer /\ q \in DOMAIN h \cup {Null} /\ Null \notin Addr
  BY AddrAssumption DEF Good, NoneDangling, IsHeap, Pointer
<1>2. Closed(h, B) /\ q \in B \cup {Null} /\ B \subseteq Addr
  BY <1>1, VisitedFacts
<1>3. \A X : q \in X \cup {Null} /\ Closed(h, X) => B \subseteq X
  BY <1>1, VisitedFacts
<1>4. \A a \in DOMAIN h : \A s \in Side :
         <<a, s>> \in Places(h, v) /\ Held(h, v, <<a, s>>) = h[a][s]
  <2>1. DOMAIN v \cap (Addr \X Side) = {}
    BY DEF Good
  <2> SUFFICES ASSUME NEW a \in DOMAIN h, NEW s \in Side
               PROVE  <<a, s>> \in Places(h, v) /\ Held(h, v, <<a, s>>) = h[a][s]
    OBVIOUS
  <2> QED
    BY <1>1, <2>1, SlotFacts
<1>5. B \subseteq DOMAIN h
  <2>1. Closed(h, DOMAIN h)
    BY <1>4 DEF Good, NoneDangling, Closed
  <2> QED
    BY <1>1, <1>3, <2>1
<1>6. \A a \in B : a = q \/ \E b \in B : \E s \in Side : h[b][s] = a
  <2> DEFINE X == {a \in B : a = q \/ \E b \in B : \E s \in Side : h[b][s] = a}
  <2>1. q \in X \cup {Null}
    BY <1>2
  <2>2. Closed(h, X)
    BY <1>2 DEF Closed
  <2> QED
    BY <1>3, <2>1, <2>2
<1>7. ASSUME NEW p \in Places(h, v), Held(h, v, p) \in B
      PROVE  p = d \/ p \in B \X Side
  <2>1. Held(h, v, p) # Null
    BY <1>1, <1>2, <1>7
  <2>2. CASE Held(h, v, p) = q
    BY <2>1, <2>2 DEF Good, HeldOnce
  <2>3. CASE Held(h, v, p) # q
    <3>1. PICK b \in B, s \in Side : h[b][s] = Held(h, v, p)
      BY <1>6, <1>7, <2>3
    <3>2. <<b, s>> \in Places(h, v) /\ Held(h, v, <<b, s>>) = Held(h, v, p)
      BY <1>4, <1>5, <3>1
    <3>3. p = <<b, s>>
      BY <2>1, <3>2 DEF Good, HeldOnce
    <3> QED
      BY <3>3
  <2> QED
    BY <2>2, <2>3
<1>8. \A p \in B \X Side : p \in Places(h, v) /\ Held(h, v, p) \in B \cup {Null}
  BY <1>2, <1>4, <1>5 DEF Closed
<1>9. d \notin B \X Side
  <2> SUFFICES ASSUME d \in B \X Side
               PROVE  FALSE
    OBVIOUS
  <2>1. B # {} /\ B \in SUBSET DOMAIN h
    BY <1>5
  <2>2. PICK p \in Places(h, v) \ (B \X Side) : Held(h, v, p) \in B
    BY <2>1 DEF Good, Rooted
  <2> QED
    BY <1>7, <2>2
<1> QED
  BY <1>2, <1>5, <1>7, <1>8, <1>9 DEF Below

\* Destroying the tree that place d holds.
LEMMA DeleteGood ==
  ASSUME NEW h, NEW v, Good(h, v), NEW d \in Places(h, v),
         NEW g, IsHeap(g), DOMAIN g = DOMAIN h \ Below(h, v, d),
         NEW w, DOMAIN w = DOMAIN v,
         \A p \in Places(g, w) : Held(g, w, p) = IF p = d THEN Null ELSE Held(h, v, p)
  PROVE  Good(g, w) /\ d \in Places(g, w)
<1> DEFINE B == Below(h, v, d)
<1>1. Null \notin Addr /\ DOMAIN h \subseteq Addr /\ DOMAIN g \subseteq Addr
  BY AddrAssumption DEF Good, IsHeap
<1>2. /\ B \subseteq DOMAIN h /\ d \notin B \X Side
      /\ Held(h, v, d) \in B \cup {Null}
      /\ \A p \in Places(h, v) : Held(h, v, p) \in B => p = d \/ p \in B \X Side
      /\ \A p \in B \X Side : Held(h, v, p) \in B \cup {Null}
  BY BelowFacts
<1>3. DOMAIN v \cap (Addr \X Side) = {}
  BY DEF Good
<1>4. Places(g, w) = Places(h, v) \ (B \X Side)
  <2>1. (DOMAIN g) \X Side = ((DOMAIN h) \X Side) \ (B \X Side)
    BY <1>2
  <2>2. DOMAIN v \cap (B \X Side) = {}
    BY <1>1, <1>2, <1>3
  <2> QED
    BY <2>1, <2>2 DEF Places
<1>5. d \in Places(g, w)
  BY <1>2, <1>4
<1>6. NoneDangling(g, w)
  BY <1>2, <1>4 DEF Good, NoneDangling
<1>7. HeldOnce(g, w)
  BY <1>4 DEF Good, HeldOnce
<1>8. ASSUME NEW Z \in SUBSET DOMAIN g, Z # {}
      PROVE  \E p \in Places(g, w) \ (Z \X Side) : Held(g, w, p) \in Z
  <2>1. Z \in SUBSET DOMAIN h /\ Z \cap B = {} /\ Null \notin Z
    BY <1>1
  <2>2. PICK p \in Places(h, v) \ (Z \X Side) : Held(h, v, p) \in Z
    BY <1>8, <2>1 DEF Good, Rooted
  <2>3. p # d /\ p \notin B \X Side
    BY <1>2, <2>1, <2>2
  <2> QED
    BY <1>4, <2>2, <2>3
<1> QED
  BY <1>3, <1>5, <1>6, <1>7, <1>8 DEF Good, Rooted

\* Two places exchange what they hold, neither being below the other.
LEMMA ExchangeGood ==
  ASSUME NEW h, NEW v, Good(h, v), NEW d \in Places(h, v), NEW s \in Places(h, v),
         d \notin Below(h, v, s) \X Side, s \notin Below(h, v, d) \X Side,
         NEW g, IsHeap(g), DOMAIN g = DOMAIN h,
         NEW w, DOMAIN w = DOMAIN v,
         \A p \in Places(h, v) :
           Held(g, w, p) = Held(h, v, IF p = d THEN s ELSE IF p = s THEN d ELSE p)
  PROVE  Good(g, w)
<1>1. Null \notin Addr /\ DOMAIN h \subseteq Addr
  BY AddrAssumption DEF Good, IsHeap
<1>2. Places(g, w) = Places(h, v)
  BY Zenon DEF Places
<1>3. NoneDangling(g, w)
  BY <1>2 DEF Good, NoneDangling
<1>4. HeldOnce(g, w)
  BY <1>2 DEF Good, HeldOnce
<1>5. ASSUME NEW Z \in SUBSET DOMAIN h, Z # {},
             NEW e \in Places(h, v), NEW f \in Places(h, v),
             e \notin Below(h, v, f) \X Side, f \notin Below(h, v, e) \X Side,
             \A p \in Places(h, v) :
               Held(g, w, p) = Held(h, v, IF p = e THEN f ELSE IF p = f THEN e ELSE p),
             Held(h, v, f) \in Z, f \notin Z \X Side
      PROVE  \E p \in Places(h, v) \ (Z \X Side) : Held(g, w, p) \in Z
  <2> DEFINE B == Below(h, v, f)
             Y == Z \ B
  <2>1. /\ Held(h, v, f) \in B \cup {Null}
        /\ \A p \in B \X Side : Held(h, v, p) \in B \cup {Null}
    BY BelowFacts
  <2>2. CASE e \notin Z \X Side
    BY <1>5, <2>2
  <2>3. CASE e \in Z \X Side
    <3>1. e \in Y \X Side
      BY <1>5, <2>3
    <3>2. Y \in SUBSET DOMAIN h /\ Y # {} /\ Null \notin Y
      BY <1>1, <3>1
    <3>3. PICK p \in Places(h, v) \ (Y \X Side) : Held(h, v, p) \in Y
      BY <3>2 DEF Good, Rooted
    <3>4. p \notin B \X Side /\ p # f /\ p # e
      BY <2>1, <3>1, <3>2, <3>3
    <3>5. p \notin Z \X Side
      BY <3>3, <3>4
    <3> QED
      BY <1>5, <3>3, <3>4, <3>5
  <2> QED
    BY <2>2, <2>3
<1>6. ASSUME NEW Z \in SUBSET DOMAIN h, Z # {}
      PROVE  \E p \in Places(h, v) \ (Z \X Side) : Held(g, w, p) \in Z
  <2>1. PICK p \in Places(h, v) \ (Z \X Side) : Held(h, v, p) \in Z
    BY <1>6 DEF Good, Rooted
  <2>2. CASE p # d /\ p # s
    BY <2>1, <2>2
  <2>3. CASE p = s
    BY <1>5, <1>6, <2>1, <2>3
  <2>4. CASE p = d
    <3>1. \A r \in Places(h, v) :
             Held(g, w, r) = Held(h, v, IF r = s THEN d ELSE IF r = d THEN s ELSE r)
      OBVIOUS
    <3> QED
      BY <1>5, <1>6, <2>1, <2>4, <3>1
  <2> QED
    BY <2>2, <2>3, <2>4
<1>7. Rooted(g, w)
  BY <1>2, <1>6 DEF Rooted
<1> QED
  BY <1>3, <1>4, <1>7 DEF Good

\* Making a node at a free address a for variable t, whose children are taken
\* from the variables K.
LEMMA MakeGood ==
  ASSUME NEW h, NEW v, Good(h, v), NEW t \in DOMAIN v, v[t] = Null,
         NEW a \in Addr \ DOMAIN h, NEW l, NEW r, l = r => l = Null,
         NEW K \in SUBSET DOMAIN v, t \notin K,
         {l, r} \ {Null} = {v[y] : y \in K} \ {Null},
         NEW g, IsHeap(g), DOMAIN g = DOMAIN h \cup {a},
         NEW w, DOMAIN w = DOMAIN v,
         \A p \in Places(h, v) : Held(g, w, p) = IF p = t THEN a
                                                 ELSE IF p \in K THEN Null ELSE Held(h, v, p),
         Held(g, w, <<a, "left">>) = l, Held(g, w, <<a, "right">>) = r
  PROVE  Good(g, w)
<1>1. /\ Null \notin Addr /\ DOMAIN h \subseteq Addr /\ a # Null
      /\ DOMAIN v \cap (Addr \X Side) = {}
  BY AddrAssumption DEF Good, IsHeap
<1>2. /\ \A x \in DOMAIN v : x \in Places(h, v) /\ Held(h, v, x) = v[x]
      /\ \A p \in Places(h, v) : Held(h, v, p) \in DOMAIN h \cup {Null}
  BY DEF Good, NoneDangling, Places, Held
<1>3. Places(g, w) = Places(h, v) \cup {<<a, "left">>, <<a, "right">>}
  <2>1. (DOMAIN g) \X Side = ((DOMAIN h) \X Side) \cup {<<a, "left">>, <<a, "right">>}
    BY DEF Side
  <2> QED
    BY <2>1 DEF Places
<1>4. <<a, "left">> \notin Places(h, v) /\ <<a, "right">> \notin Places(h, v)
  BY <1>1 DEF Places, Side
<1>5. \A c \in {l, r} \ {Null} : \E y \in K : v[y] = c
  BY Zenon
<1>6. \A y \in K : v[y] = Null \/ v[y] = l \/ v[y] = r
  OBVIOUS
<1>7. NoneDangling(g, w)
  BY <1>2, <1>3, <1>5 DEF NoneDangling
<1>8. HeldOnce(g, w)
  <2> SUFFICES ASSUME NEW p \in Places(g, w), NEW e \in Places(g, w),
                      Held(g, w, p) = Held(g, w, e), Held(g, w, p) # Null
               PROVE  p = e
    BY DEF HeldOnce
  <2>1. \A o \in Places(h, v) : \A c \in {l, r} \ {Null} :
           o \notin K => Held(h, v, o) # c
    BY <1>2, <1>5 DEF Good, HeldOnce
  <2>2. l # a /\ r # a
    BY <1>1, <1>2, <1>5
  <2>3. CASE p \in Places(h, v) /\ e \in Places(h, v)
    BY <1>1, <1>2, <2>3 DEF Good, HeldOnce
  <2>4. CASE p \notin Places(h, v) /\ e \notin Places(h, v)
    BY <1>3, <2>4
  <2>5. CASE p \in Places(h, v) /\ e \notin Places(h, v)
    BY <1>3, <2>1, <2>2, <2>5
  <2>6. CASE p \notin Places(h, v) /\ e \in Places(h, v)
    BY <1>3, <2>1, <2>2, <2>6
  <2> QED
    BY <2>3, <2>4, <2>5, <2>6
<1>9. ASSUME NEW Z \in SUBSET DOMAIN g, Z # {}
      PROVE  \E p \in Places(g, w) \ (Z \X Side) : Held(g, w, p) \in Z
  <2>1. CASE a \in Z
    <3>1. t \in Places(g, w) /\ Held(g, w, t) = a /\ t \notin Z \X Side
      BY <1>1, <1>2, <1>3
    <3> QED
      BY <2>1, <3>1
  <2>2. CASE a \notin Z
    <3>1. Z \in SUBSET DOMAIN h /\ Null \notin Z
      BY <1>1, <2>2
    <3>2. PICK p \in Places(h, v) \ (Z \X Side) : Held(h, v, p) \in Z
      BY <1>9, <3>1 DEF Good, Rooted
    <3>3. CASE p \notin K
      BY <1>2, <1>3, <3>1, <3>2, <3>3
    <3>4. CASE p \in K
      <4>1. v[p] \in Z /\ (v[p] = l \/ v[p] = r)
        BY <1>2, <1>6, <3>1, <3>2, <3>4
      <4>2. <<a, "left">> \notin Z \X Side /\ <<a, "right">> \notin Z \X Side
        BY <2>2
      <4> QED
        BY <1>3, <4>1, <4>2
    <3> QED
      BY <3>3, <3>4
  <2> QED
    BY <2>1, <2>2
<1> QED
  BY <1>1, <1>7, <1>8, <1>9 DEF Good, Rooted

\* Copying the tree that place s holds into an empty place d; f says where the
\* copy of each node is made.
LEMMA CopyGood ==
  ASSUME NEW h, NEW v, Good(h, v), NEW s \in Places(h, v),
         NEW d \in Places(h, v), Held(h, v, d) = Null,
         NEW f \in Injection(Below(h, v, s), Addr \ DOMAIN h),
         NEW g, IsHeap(g), DOMAIN g = DOMAIN h \cup Range(f),
         NEW w, DOMAIN w = DOMAIN v,
         \A p \in Places(h, v) \ {d} : Held(g, w, p) = Held(h, v, p),
         Held(g, w, d) = IF Held(h, v, s) = Null THEN Null ELSE f[Held(h, v, s)],
         \A a \in Below(h, v, s) : \A k \in Side :
           Held(g, w, <<f[a], k>>) = IF Held(h, v, <<a, k>>) = Null THEN Null
                                     ELSE f[Held(h, v, <<a, k>>)]
  PROVE  Good(g, w) /\ Below(g, w, d) \cap DOMAIN h = {}
<1> DEFINE B == Below(h, v, s)
           new == {f[a] : a \in B}
<1>1. /\ Null \notin Addr /\ DOMAIN h \subseteq Addr
      /\ DOMAIN v \cap (Addr \X Side) = {}
  BY AddrAssumption DEF Good, IsHeap
<1>2. /\ f \in [B -> Addr \ DOMAIN h]
      /\ \A a, b \in B : f[a] = f[b] => a = b
      /\ new \subseteq Addr /\ new \cap DOMAIN h = {}
      /\ DOMAIN g = DOMAIN h \cup new
  BY DEF Injection, IsInjective, Range
<1>3. /\ B \subseteq DOMAIN h
      /\ Held(h, v, s) \in B \cup {Null}
      /\ \A p \in Places(h, v) : Held(h, v, p) \in B => p = s \/ p \in B \X Side
      /\ \A p \in B \X Side : p \in Places(h, v) /\ Held(h, v, p) \in B \cup {Null}
  BY BelowFacts
<1>4. \A p \in Places(h, v) : Held(h, v, p) \in DOMAIN h \cup {Null}
  BY DEF Good, NoneDangling
<1>5. /\ Places(g, w) = Places(h, v) \cup (new \X Side)
      /\ Places(h, v) \cap (new \X Side) = {}
  <2>1. (DOMAIN g) \X Side = ((DOMAIN h) \X Side) \cup (new \X Side)
    BY <1>2
  <2>2. DOMAIN v \cap (new \X Side) = {} /\ ((DOMAIN h) \X Side) \cap (new \X Side) = {}
    BY <1>1, <1>2
  <2> QED
    BY <2>1, <2>2 DEF Places
<1>6. ASSUME NEW p \in new \X Side
      PROVE  \E a \in B : \E k \in Side :
                /\ p = <<f[a], k>> /\ <<a, k>> \in Places(h, v)
                /\ Held(h, v, <<a, k>>) \in B \cup {Null}
                /\ Held(g, w, p) = IF Held(h, v, <<a, k>>) = Null THEN Null
                                   ELSE f[Held(h, v, <<a, k>>)]
  <2>1. PICK a \in B, k \in Side : p = <<f[a], k>>
    OBVIOUS
  <2>2. <<a, k>> \in B \X Side
    OBVIOUS
  <2> QED
    BY <1>3, <2>1, <2>2
<1>7. /\ Held(g, w, d) \in new \cup {Null}
      /\ \A p \in new \X Side : Held(g, w, p) \in new \cup {Null}
      /\ \A p \in Places(h, v) \ {d} : Held(g, w, p) \in DOMAIN h \cup {Null}
  BY <1>3, <1>4, <1>6
<1>8. NoneDangling(g, w)
  BY <1>2, <1>5, <1>7 DEF NoneDangling
<1>9. HeldOnce(g, w)
  <2> SUFFICES ASSUME NEW p \in Places(g, w), NEW e \in Places(g, w),
                      Held(g, w, p) = Held(g, w, e), Held(g, w, p) # Null
               PROVE  p = e
    BY DEF HeldOnce
  <2>1. \A o \in new \X Side : \A u \in new \X Side :
           Held(g, w, o) = Held(g, w, u) /\ Held(g, w, o) # Null => o = u
    <3> SUFFICES ASSUME NEW o \in new \X Side, NEW u \in new \X Side,
                        Held(g, w, o) = Held(g, w, u), Held(g, w, o) # Null
                 PROVE  o = u
      OBVIOUS
    <3>1. PICK a \in B, k \in Side :
                 /\ o = <<f[a], k>> /\ <<a, k>> \in Places(h, v)
                 /\ Held(h, v, <<a, k>>) \in B \cup {Null}
                 /\ Held(g, w, o) = IF Held(h, v, <<a, k>>) = Null THEN Null
                                    ELSE f[Held(h, v, <<a, k>>)]
      BY <1>6
    <3>2. PICK b \in B, m \in Side :
                 /\ u = <<f[b], m>> /\ <<b, m>> \in Places(h, v)
                 /\ Held(h, v, <<b, m>>) \in B \cup {Null}
                 /\ Held(g, w, u) = IF Held(h, v, <<b, m>>) = Null THEN Null
                                    ELSE f[Held(h, v, <<b, m>>)]
      BY <1>6
    <3>3. /\ Held(h, v, <<a, k>>) # Null
          /\ Held(h, v, <<a, k>>) = Held(h, v, <<b, m>>)
      BY <1>2, <3>1, <3>2
    <3>4. <<a, k>> = <<b, m>>
      BY <3>1, <3>2, <3>3 DEF Good, HeldOnce
    <3> QED
      BY <3>1, <3>2, <3>4
  <2>2. \A o \in new \X Side : Held(g, w, o) # Null => Held(g, w, o) # Held(g, w, d)
    <3> SUFFICES ASSUME NEW o \in new \X Side, Held(g, w, o) # Null, Held(g, w, o) = Held(g, w, d)
                 PROVE  FALSE
      OBVIOUS
    <3>1. PICK a \in B, k \in Side :
                 /\ o = <<f[a], k>> /\ <<a, k>> \in Places(h, v)
                 /\ Held(h, v, <<a, k>>) \in B \cup {Null}
                 /\ Held(g, w, o) = IF Held(h, v, <<a, k>>) = Null THEN Null
                                    ELSE f[Held(h, v, <<a, k>>)]
      BY <1>6
    <3>2. Held(h, v, s) # Null /\ Held(h, v, s) = Held(h, v, <<a, k>>)
      BY <1>2, <1>3, <3>1
    <3>3. s = <<a, k>>
      BY <3>1, <3>2 DEF Good, HeldOnce
    <3> QED
      BY <3>3, BelowFacts
  <2>3. CASE p \in Places(h, v) \ {d} /\ e \in Places(h, v) \ {d}
    BY <2>3 DEF Good, HeldOnce
  <2>4. CASE p \in Places(h, v) \ {d} /\ e \notin Places(h, v) \ {d}
    BY <1>1, <1>2, <1>5, <1>7, <2>4
  <2>5. CASE p \notin Places(h, v) \ {d} /\ e \in Places(h, v) \ {d}
    BY <1>1, <1>2, <1>5, <1>7, <2>5
  <2>6. CASE p \notin Places(h, v) \ {d} /\ e \notin Places(h, v) \ {d}
    BY <1>5, <2>1, <2>2, <2>6
  <2> QED
    BY <2>3, <2>4, <2>5, <2>6
<1>10. ASSUME NEW Z \in SUBSET DOMAIN h, Z # {}
       PROVE  \E p \in Places(h, v) \ (Z \X Side) : Held(g, w, p) \in Z /\ p # d
  <2>1. PICK p \in Places(h, v) \ (Z \X Side) : Held(h, v, p) \in Z
    BY <1>10 DEF Good, Rooted
  <2>2. p # d
    BY <1>1, <2>1
  <2> QED
    BY <2>1, <2>2
<1>11. ASSUME NEW Z \in SUBSET DOMAIN g, Z # {}
       PROVE  \E p \in Places(g, w) \ (Z \X Side) : Held(g, w, p) \in Z
  <2> \A p \in Places(h, v) : p \in Z \X Side => p \in (Z \cap DOMAIN h) \X Side
    <3>1. Z \subseteq Addr
      BY DEF IsHeap
    <3> SUFFICES ASSUME NEW p \in Places(h, v), p \in Z \X Side
                 PROVE  p \in (Z \cap DOMAIN h) \X Side
      OBVIOUS
    <3>2. p \notin DOMAIN v
      BY <1>1, <3>1
    <3>3. p \in (DOMAIN h) \X Side
      BY <3>2 DEF Places
    <3> QED
      BY <3>3
  <2>1. ASSUME Z \cap DOMAIN h # {}
        PROVE  \E p \in Places(g, w) \ (Z \X Side) : Held(g, w, p) \in Z
    <3>1. PICK p \in Places(h, v) \ ((Z \cap DOMAIN h) \X Side) :
                 Held(g, w, p) \in Z \cap DOMAIN h /\ p # d
      BY <1>10, <2>1
    <3>2. p \notin Z \X Side
      BY <3>1
    <3> QED
      BY <1>5, <3>1, <3>2
  <2>2. CASE Z \cap new # {}
    <3> DEFINE Y == {a \in B : f[a] \in Z}
    <3>1. Y \in SUBSET DOMAIN h /\ Y # {} /\ Null \notin Y
      BY <1>1, <1>3, <2>2
    <3>2. PICK p \in Places(h, v) \ (Y \X Side) : Held(h, v, p) \in Y
      BY <3>1 DEF Good, Rooted
    <3>3. f[Held(h, v, p)] \in Z /\ Held(h, v, p) # Null /\ Held(h, v, p) \in B
      BY <3>1, <3>2
    <3>4. CASE p \in B \X Side
      <4>1. PICK a \in B, k \in Side : p = <<a, k>>
        BY <3>4
      <4>2. a \notin Y
        BY <3>2, <4>1
      <4>3. <<f[a], k>> \in new \X Side /\ <<f[a], k>> \notin Z \X Side
        BY <4>2
      <4>4. Held(g, w, <<f[a], k>>) = f[Held(h, v, p)]
        BY <3>3, <4>1
      <4> QED
        BY <1>5, <3>3, <4>3, <4>4
    <3>5. CASE p = s
      <4>1. Held(g, w, d) \in Z
        BY <3>3, <3>5
      <4>2. CASE d \notin Z \X Side
        BY <1>5, <4>1, <4>2
      <4>3. CASE d \in Z \X Side
        <5>1. Z \cap DOMAIN h # {}
          BY <4>3
        <5> QED
          BY <2>1, <5>1
      <4> QED
        BY <4>2, <4>3
    <3> QED
      BY <1>3, <3>2, <3>3, <3>4, <3>5
  <2> QED
    BY <1>2, <1>11, <2>1, <2>2
<1>12. Below(g, w, d) \subseteq new
  <2>1. ASSUME NEW a \in new, NEW k \in Side
        PROVE  g[a][k] \in new \cup {Null}
    <3>1. a \in DOMAIN g /\ DOMAIN w \cap (Addr \X Side) = {}
      BY <1>1, <1>2
    <3>2. g[a][k] = Held(g, w, <<a, k>>)
      BY <3>1, SlotFacts
    <3> QED
      BY <1>7, <3>2
  <2>2. Closed(g, new)
    BY <2>1 DEF Closed
  <2>3. Held(g, w, d) \in new \cup {Null} /\ Held(g, w, d) \in Pointer
    BY <1>2, <1>7 DEF Pointer
  <2> QED
    BY <2>2, <2>3, VisitedFacts DEF Below
<1> QED
  BY <1>1, <1>2, <1>8, <1>9, <1>11, <1>12 DEF Good, Rooted

\* A variable that comes into being empty, and one that ends empty.
LEMMA RootGood ==
  ASSUME NEW h, NEW v, NEW w, NEW t, t \notin DOMAIN v, t \notin Addr \X Side,
         DOMAIN w = DOMAIN v \cup {t}, w[t] = Null, \A x \in DOMAIN v : w[x] = v[x]
  PROVE  Good(h, v) <=> Good(h, w)
<1>1. IsHeap(h) => DOMAIN h \subseteq Addr
  BY DEF IsHeap
<1>2. Places(h, w) = Places(h, v) \cup {t} /\ Held(h, w, t) = Null
  BY DEF Places, Held
<1>3. \A p \in Places(h, v) : IsHeap(h) => p # t /\ Held(h, w, p) = Held(h, v, p)
  BY <1>1 DEF Places, Held
<1>4. ASSUME IsHeap(h)
      PROVE  Good(h, v) <=> Good(h, w)
  <2>1. Null \notin DOMAIN h
    BY <1>1, <1>4, AddrAssumption
  <2>2. NoneDangling(h, v) <=> NoneDangling(h, w)
    BY <1>2, <1>3, <1>4 DEF NoneDangling
  <2>3. HeldOnce(h, v) <=> HeldOnce(h, w)
    BY <1>2, <1>3, <1>4 DEF HeldOnce
  <2>4. Rooted(h, v) <=> Rooted(h, w)
    <3>1. ASSUME NEW Z \in SUBSET DOMAIN h
          PROVE  (\E p \in Places(h, v) \ (Z \X Side) : Held(h, v, p) \in Z)
                   <=> \E p \in Places(h, w) \ (Z \X Side) : Held(h, w, p) \in Z
      BY <1>2, <1>3, <1>4, <2>1
    <3> QED
      BY <3>1 DEF Rooted
  <2> QED
    BY <2>2, <2>3, <2>4 DEF Good
<1> QED
  BY <1>4 DEF Good

-----------------------------------------------------------------------------
(* What the helpers of Box do to the heap and the places.                   *)

LEMMA DeletedFacts ==
  ASSUME NEW h, IsHeap(h), NEW q
  PROVE  LET g == Deleted(h, q)
         IN  /\ IsHeap(g) /\ DOMAIN g = DOMAIN h \ Visited(h, q)
             /\ \A a \in DOMAIN g : g[a] = h[a]
BY DEF Deleted, Restrict, IsHeap

LEMMA DeletedNone ==
  ASSUME NEW h, IsHeap(h)
  PROVE  Visited(h, Null) = {} /\ Deleted(h, Null) = h
<1>1. Closed(h, {}) /\ Null \in Pointer
  BY DEF Closed, Pointer
<1>2. Visited(h, Null) = {}
  BY <1>1, VisitedFacts
<1>3. h = [a \in DOMAIN h |-> h[a]]
  BY DEF IsHeap
<1> QED
  BY <1>2, <1>3 DEF Deleted, Restrict

\* Writing a child.
LEMMA SlotWritten ==
  ASSUME NEW h, IsHeap(h), NEW a \in DOMAIN h, NEW s \in Side, NEW q \in Pointer
  PROVE  LET g == [h EXCEPT ![a][s] = q]
         IN  /\ IsHeap(g) /\ DOMAIN g = DOMAIN h
             /\ \A b \in DOMAIN h : g[b].value = h[b].value
             /\ \A b \in DOMAIN h : \A k \in Side :
                  g[b][k] = IF b = a /\ k = s THEN q ELSE h[b][k]
<1> DEFINE Cell == [value : Value, left : Pointer, right : Pointer]
           c == [h[a] EXCEPT ![s] = q]
           g == [h EXCEPT ![a][s] = q]
<1>1. h[a] \in Cell /\ h \in [DOMAIN h -> Cell]
  BY DEF IsHeap
<1>2. c \in Cell /\ c.value = h[a].value /\ \A k \in Side : c[k] = IF k = s THEN q ELSE h[a][k]
  <2>1. CASE s = "left"
    <3>1. c = [h[a] EXCEPT !.left = q]
      BY <2>1
    <3>2. c = [value |-> h[a].value, left |-> q, right |-> h[a].right]
      BY <1>1, <3>1
    <3> QED
      BY <1>1, <2>1, <3>2 DEF Side
  <2>2. CASE s = "right"
    <3>1. c = [h[a] EXCEPT !.right = q]
      BY <2>2
    <3>2. c = [value |-> h[a].value, left |-> h[a].left, right |-> q]
      BY <1>1, <3>1
    <3> QED
      BY <1>1, <2>2, <3>2 DEF Side
  <2> QED
    BY <2>1, <2>2 DEF Side
<1>3. g = [h EXCEPT ![a] = c]
  BY <1>1
<1> HIDE DEF c, Cell
<1>4. DOMAIN g = DOMAIN h /\ g \in [DOMAIN h -> Cell]
  BY <1>1, <1>2, <1>3
<1>5. \A b \in DOMAIN h : g[b] = IF b = a THEN c ELSE h[b]
  BY <1>1, <1>3
<1> QED
  BY <1>2, <1>4, <1>5 DEF IsHeap, Cell

\* The variables are those of the clients and maybe Null, see above.
IsVar(v) ==
  /\ DOMAIN v = Register \/ DOMAIN v = Register \cup {Null}
  /\ v \in [DOMAIN v -> Pointer]

\* Place p of (h, v) receives pointer q.
PutVar(v, p, q) == IF p \in DOMAIN v THEN [v EXCEPT ![p] = q] ELSE v

LEMMA PutFacts ==
  ASSUME NEW h, IsHeap(h), NEW v, IsVar(v), NEW q \in Pointer,
         NEW p \in Places(h, v), p # Null
  PROVE  /\ IsHeap(Stored(h, p, q)) /\ DOMAIN Stored(h, p, q) = DOMAIN h
         /\ IsVar(PutVar(v, p, q)) /\ DOMAIN PutVar(v, p, q) = DOMAIN v
         /\ \A r \in Places(h, v) :
              Held(Stored(h, p, q), PutVar(v, p, q), r) = IF r = p THEN q ELSE Held(h, v, r)
<1>1. DOMAIN v \cap (Addr \X Side) = {}
  BY AddrAssumption DEF IsVar
<1>2. /\ \A a \in DOMAIN h : \A s \in Side :
           /\ <<a, s>> \in Places(h, v) /\ <<a, s>> \notin DOMAIN v
           /\ Held(h, v, <<a, s>>) = h[a][s]
      /\ \A r \in Places(h, v) \ DOMAIN v : \E a \in DOMAIN h : \E s \in Side : r = <<a, s>>
      /\ \A x \in DOMAIN v : Held(h, v, x) = v[x]
  BY <1>1, SlotFacts
<1>3. CASE p \in DOMAIN v
  <2>1. p \in Register
    BY <1>3 DEF IsVar
  <2>2. Stored(h, p, q) = h /\ PutVar(v, p, q) = [v EXCEPT ![p] = q]
    BY <1>3, <2>1 DEF Stored, PutVar
  <2>3. IsVar(PutVar(v, p, q)) /\ DOMAIN PutVar(v, p, q) = DOMAIN v
    BY <2>2 DEF IsVar
  <2>4. ASSUME NEW r \in Places(h, v)
        PROVE  Held(h, PutVar(v, p, q), r) = IF r = p THEN q ELSE Held(h, v, r)
    BY <1>3, <2>2 DEF Held, IsVar
  <2> QED
    BY <2>2, <2>3, <2>4
<1>4. CASE p \notin DOMAIN v
  <2>1. PICK a \in DOMAIN h, s \in Side : p = <<a, s>>
    BY <1>2, <1>4
  <2>2. p \notin Register /\ p[1] = a /\ p[2] = s
    BY <1>4, <2>1 DEF IsVar
  <2> DEFINE g == [h EXCEPT ![a][s] = q]
  <2>3. Stored(h, p, q) = g /\ PutVar(v, p, q) = v
    BY <1>4, <2>2 DEF Stored, PutVar
  <2>4. /\ IsHeap(g) /\ DOMAIN g = DOMAIN h
        /\ \A b \in DOMAIN h : \A k \in Side : g[b][k] = IF b = a /\ k = s THEN q ELSE h[b][k]
    BY SlotWritten
  <2> HIDE DEF g
  <2>5. ASSUME NEW b \in DOMAIN h, NEW k \in Side
        PROVE  Held(g, v, <<b, k>>) = g[b][k]
    BY <1>1, <2>4, SlotFacts
  <2>6. ASSUME NEW r \in Places(h, v)
        PROVE  Held(g, v, r) = IF r = p THEN q ELSE Held(h, v, r)
    <3>1. CASE r \in DOMAIN v
      BY <1>4, <3>1 DEF Held
    <3>2. CASE r \notin DOMAIN v
      <4>1. PICK b \in DOMAIN h, k \in Side : r = <<b, k>>
        BY <1>2, <3>2
      <4>2. r = p <=> b = a /\ k = s
        BY <2>1, <4>1
      <4> QED
        BY <1>2, <2>4, <2>5, <4>1, <4>2
    <3> QED
      BY <3>1, <3>2
  <2> QED
    BY <2>3, <2>4, <2>6
<1> QED
  BY <1>3, <1>4

\* With fewer pointers, less is below.
LEMMA Shrink ==
  ASSUME NEW h, IsHeap(h), NEW g, IsHeap(g), DOMAIN g \subseteq DOMAIN h, NEW q \in Pointer,
         \A a \in DOMAIN g : \A k \in Side : g[a][k] \in {h[a][k], Null}
  PROVE  Visited(g, q) \subseteq Visited(h, q)
<1>1. Closed(h, Visited(h, q)) /\ q \in Visited(h, q) \cup {Null}
  BY VisitedFacts
<1>2. Closed(g, Visited(h, q))
  BY <1>1 DEF Closed
<1> QED
  BY <1>1, <1>2, VisitedFacts

\* What is below q depends on the nodes below q.
LEMMA Agree ==
  ASSUME NEW h, IsHeap(h), NEW g, IsHeap(g), NEW q \in Pointer,
         \A a \in Visited(h, q) : a \in DOMAIN h <=> a \in DOMAIN g,
         \A a \in Visited(h, q) \cap DOMAIN h : \A k \in Side : g[a][k] = h[a][k]
  PROVE  Visited(g, q) = Visited(h, q)
<1>1. /\ Closed(h, Visited(h, q)) /\ q \in Visited(h, q) \cup {Null}
      /\ Closed(g, Visited(g, q)) /\ q \in Visited(g, q) \cup {Null}
  BY VisitedFacts
<1>2. Visited(g, q) \subseteq Visited(h, q)
  <2>1. Closed(g, Visited(h, q))
    BY <1>1 DEF Closed
  <2> QED
    BY <1>1, <2>1, VisitedFacts
<1>3. Visited(h, q) \subseteq Visited(g, q)
  <2>1. Closed(h, Visited(g, q))
    BY <1>1, <1>2 DEF Closed
  <2> QED
    BY <1>1, <2>1, VisitedFacts
<1> QED
  BY <1>2, <1>3

LEMMA PlacementFacts ==
  ASSUME NEW h, IsHeap(h), NEW q \in Pointer, Fits(h, q)
  PROVE  LET V == Visited(h, q)
             f == Placement(h, q)
         IN  /\ f \in [V \cup {Null} -> Pointer] /\ f[Null] = Null
             /\ \A a \in V : f[a] \in Addr \ DOMAIN h
             /\ \A a, b \in V : f[a] = f[b] => a = b
             /\ [a \in V |-> f[a]] \in Injection(V, Addr \ DOMAIN h)
<1> DEFINE V == Visited(h, q)
           e == CHOOSE e \in Injection(V, Free(h)) : TRUE
           f == Placement(h, q)
<1>1. V \subseteq Addr /\ Null \notin Addr
  BY VisitedFacts, AddrAssumption
<1>2. IsFiniteSet(V) /\ IsFiniteSet(Free(h))
  BY <1>1, AddrAssumption, FS_Subset DEF Free
<1>3. Injection(V, Free(h)) # {}
  BY <1>2, InjectionExists DEF Fits
<1>4. e \in Injection(V, Free(h))
  BY <1>3
<1>5. e \in [V -> Addr \ DOMAIN h] /\ \A a, b \in V : e[a] = e[b] => a = b
  BY <1>4 DEF Injection, IsInjective, Free
<1>6. f = [r \in V \cup {Null} |-> IF r = Null THEN Null ELSE e[r]]
  BY DEF Placement
<1> HIDE DEF e, f
<1>7. f[Null] = Null /\ \A a \in V : f[a] = e[a]
  BY <1>1, <1>6
<1>8. f \in [V \cup {Null} -> Pointer]
  BY <1>1, <1>5, <1>6 DEF Pointer
<1>9. [a \in V |-> f[a]] \in Injection(V, Addr \ DOMAIN h)
  BY <1>5, <1>7 DEF Injection, IsInjective
<1> QED
  BY <1>5, <1>7, <1>8, <1>9 DEF f

LEMMA CopiedFacts ==
  ASSUME NEW h, IsHeap(h), NEW q \in Pointer, Fits(h, q), Live(h, q),
         NEW V, V = Visited(h, q), NEW f, f = Placement(h, q), NEW g, g = Copied(h, q)
  PROVE  /\ IsHeap(g) /\ DOMAIN g = DOMAIN h \cup {f[a] : a \in V}
         /\ \A a \in DOMAIN h : g[a] = h[a]
         /\ \A a \in V : /\ g[f[a]].value = h[a].value
                         /\ \A k \in Side : g[f[a]][k] = f[h[a][k]]
         /\ \A a \in V : \A k \in Side : h[a][k] \in V \cup {Null}
<1> DEFINE old == AntiFunction(f)
<1>1. V \subseteq DOMAIN h /\ V \subseteq Addr /\ Null \notin V /\ DOMAIN h \subseteq Addr
  BY VisitedFacts, AddrAssumption DEF Live, IsHeap
<1>2. \A a \in V : \A k \in Side : h[a][k] \in V \cup {Null}
  BY <1>1, VisitedFacts DEF Closed
<1>3. /\ f \in [V \cup {Null} -> Pointer] /\ f[Null] = Null
      /\ \A a \in V : f[a] \in Addr \ DOMAIN h
      /\ \A a, b \in V : f[a] = f[b] => a = b
  BY PlacementFacts
<1>4. Null \notin Addr
  BY AddrAssumption
<1>5. Range(f) \ {Null} = {f[a] : a \in V}
  BY <1>3, <1>4 DEF Range
<1>6. \A a \in V : old[f[a]] = a
  <2> SUFFICES ASSUME NEW a \in V
               PROVE  old[f[a]] = a
    OBVIOUS
  <2>1. DOMAIN f = V \cup {Null}
    BY <1>3
  <2>2. f[a] \in Range(f)
    BY <2>1 DEF Range
  <2>3. old[f[a]] = CHOOSE r \in V \cup {Null} : f[a] \in Range(f) => f[r] = f[a]
    BY <2>1, <2>2 DEF AntiFunction, Inverse
  <2>4. \A r \in V \cup {Null} : f[r] = f[a] => r = a
    BY <1>3, <1>4
  <2> QED
    BY <2>2, <2>3, <2>4
<1>7. g = [a \in DOMAIN h \cup {f[a] : a \in V} |->
              IF a \in DOMAIN h THEN h[a] ELSE [h[old[a]] EXCEPT !.left = f[@], !.right = f[@]]]
  BY <1>5 DEF Copied
<1> HIDE DEF old
<1>8. DOMAIN g = DOMAIN h \cup {f[a] : a \in V} /\ \A a \in DOMAIN h : g[a] = h[a]
  BY <1>7
<1>9. ASSUME NEW a \in V
      PROVE  /\ g[f[a]] = [value |-> h[a].value, left |-> f[h[a].left], right |-> f[h[a].right]]
             /\ f[h[a].left] \in Pointer /\ f[h[a].right] \in Pointer /\ h[a].value \in Value
  <2>1. h[a] \in [value : Value, left : Pointer, right : Pointer]
    BY <1>1 DEF IsHeap
  <2>2. g[f[a]] = [h[a] EXCEPT !.left = f[@], !.right = f[@]]
    <3>1. f[a] \in {f[b] : b \in V} /\ f[a] \notin DOMAIN h
      BY <1>3
    <3>2. g[f[a]] = [h[old[f[a]]] EXCEPT !.left = f[@], !.right = f[@]]
      BY <1>7, <3>1
    <3> QED
      BY <1>6, <3>2
  <2>3. h[a].left \in V \cup {Null} /\ h[a].right \in V \cup {Null}
    BY <1>2 DEF Side
  <2>4. f[h[a].left] \in Pointer /\ f[h[a].right] \in Pointer
    BY <1>3, <2>3
  <2> QED
    BY <2>1, <2>2, <2>4
<1>10. ASSUME NEW a \in V
       PROVE  /\ g[f[a]].value = h[a].value
              /\ g[f[a]].left = f[h[a].left] /\ g[f[a]].right = f[h[a].right]
              /\ g[f[a]] \in [value : Value, left : Pointer, right : Pointer]
  <2> DEFINE l == f[h[a].left]
             r == f[h[a].right]
             v == h[a].value
             c == g[f[a]]
  <2>1. c = [value |-> v, left |-> l, right |-> r] /\ l \in Pointer /\ r \in Pointer /\ v \in Value
    BY <1>9
  <2> HIDE DEF c, l, r, v
  <2>2. /\ c.value = v /\ c.left = l /\ c.right = r
        /\ c \in [value : Value, left : Pointer, right : Pointer]
    BY <2>1
  <2> QED
    BY <2>2 DEF c, l, r, v
<1>11. IsHeap(g)
  <2>1. DOMAIN g \subseteq Addr
    BY <1>1, <1>3, <1>8
  <2>2. \A a \in DOMAIN g : g[a] \in [value : Value, left : Pointer, right : Pointer]
    BY <1>8, <1>10 DEF IsHeap
  <2>3. g = [a \in DOMAIN g |-> g[a]]
    BY <1>7
  <2> QED
    BY <2>1, <2>2, <2>3 DEF IsHeap
<1>12. \A a \in V : g[f[a]].value = h[a].value /\ \A k \in Side : g[f[a]][k] = f[h[a][k]]
  BY <1>10 DEF Side
<1> QED
  BY <1>2, <1>8, <1>11, <1>12

\* Copying the tree q that place s holds into place d, where the pointer that d
\* holds in (h, v), if any, is one that (g0, w0) no longer has.
LEMMA CopyInto ==
  ASSUME NEW h, IsHeap(h), NEW v, DOMAIN v \cap (Addr \X Side) = {},
         NEW g0, NEW w0, Good(g0, w0), DOMAIN g0 = DOMAIN h, DOMAIN w0 = DOMAIN v,
         NEW d \in Places(h, v), NEW s \in Places(h, v),
         \A r \in Places(h, v) : Held(g0, w0, r) = IF r = d THEN Null ELSE Held(h, v, r),
         NEW q, q = Held(g0, w0, s), Fits(h, q), d \notin Visited(h, q) \X Side,
         NEW g, IsHeap(g), DOMAIN g = DOMAIN Copied(h, q),
         NEW w, DOMAIN w = DOMAIN v,
         \A r \in Places(Copied(h, q), v) :
           Held(g, w, r) = IF r = d THEN Placement(h, q)[q] ELSE Held(Copied(h, q), v, r)
  PROVE  Good(g, w) /\ Below(g, w, d) \cap DOMAIN h = {} /\ Live(h, q)
<1> DEFINE B == Visited(h, q)
           f == Placement(h, q)
           e == [a \in B |-> f[a]]
           c == Copied(h, q)
<1>1. /\ IsHeap(g0) /\ DOMAIN h \subseteq Addr /\ Null \notin Addr /\ q \in DOMAIN h \cup {Null}
      /\ q \in Pointer /\ Places(g0, w0) = Places(h, v) /\ DOMAIN w0 \cap (Addr \X Side) = {}
  BY AddrAssumption DEF Good, IsHeap, Pointer, NoneDangling, Places
<1>2. ASSUME NEW a \in DOMAIN h, NEW k \in Side
      PROVE  /\ <<a, k>> \in Places(h, v) /\ Held(h, v, <<a, k>>) = h[a][k]
             /\ Held(g0, w0, <<a, k>>) = g0[a][k]
             /\ g0[a][k] = IF <<a, k>> = d THEN Null ELSE h[a][k]
  <2>1. <<a, k>> \in Places(h, v) /\ Held(h, v, <<a, k>>) = h[a][k]
    BY SlotFacts
  <2>2. Held(g0, w0, <<a, k>>) = g0[a][k]
    BY <1>1, SlotFacts
  <2> QED
    BY <2>1, <2>2
<1>3. \A a \in B : \A k \in Side : <<a, k>> # d
  OBVIOUS
<1>4. Visited(g0, q) = B
  <2>1. \A a \in B \cap DOMAIN h : \A k \in Side : g0[a][k] = h[a][k]
    BY <1>2, <1>3
  <2> QED
    BY <1>1, <2>1, Agree, SMTT(20)
<1>5. Below(g0, w0, s) = B /\ B \subseteq DOMAIN h /\ s \in Places(g0, w0)
  BY <1>1, <1>4, BelowFacts DEF Below
<1>6. Live(h, q)
  BY <1>5 DEF Live
<1>7. /\ f[Null] = Null /\ e \in Injection(B, Addr \ DOMAIN h)
  BY <1>1, PlacementFacts
<1>8. /\ IsHeap(c) /\ DOMAIN c = DOMAIN h \cup {f[a] : a \in B}
      /\ \A a \in DOMAIN h : c[a] = h[a]
      /\ \A a \in B : \A k \in Side : c[f[a]][k] = f[h[a][k]]
      /\ \A a \in B : \A k \in Side : h[a][k] \in B \cup {Null}
  <2>1. B = Visited(h, q) /\ f = Placement(h, q) /\ c = Copied(h, q)
    OBVIOUS
  <2>2. IsHeap(h) /\ q \in Pointer /\ Fits(h, q)
    BY <1>1
  <2> HIDE DEF B, f, c
  <2> QED
    BY <1>6, <2>1, <2>2, CopiedFacts, SMTT(40)
<1>9. q \in B \cup {Null} /\ Null \notin B
  BY <1>1, <1>5, VisitedFacts
<1>10. \A a \in B : e[a] = f[a]
  OBVIOUS
<1> HIDE DEF f, c, e, B
<1>11. Places(h, v) \subseteq Places(c, v) /\ d \in Places(g0, w0) /\ Held(g0, w0, d) = Null
  BY <1>1, <1>8 DEF Places
<1>12. DOMAIN g = DOMAIN g0 \cup Range(e)
  <2>1. Range(e) = {f[a] : a \in B}
    BY <1>10 DEF Range, e
  <2> QED
    BY <1>8, <2>1 DEF c
<1>13. ASSUME NEW r \in Places(g0, w0) \ {d}
       PROVE  Held(g, w, r) = Held(g0, w0, r)
  <2>1. Held(g, w, r) = Held(c, v, r) /\ Held(g0, w0, r) = Held(h, v, r)
    BY <1>1, <1>11 DEF c
  <2>2. Held(c, v, r) = Held(h, v, r)
    <3>1. CASE r \in DOMAIN v
      BY <3>1 DEF Held
    <3>2. CASE r \notin DOMAIN v
      <4>1. PICK a \in DOMAIN h, k \in Side : r = <<a, k>>
        BY <1>1, <3>2 DEF Places
      <4>2. Held(c, v, r) = c[a][k] /\ Held(h, v, r) = h[a][k]
        BY <1>8, <1>2, <4>1, SlotFacts
      <4> QED
        BY <1>8, <4>2
    <3> QED
      BY <3>1, <3>2
  <2> QED
    BY <2>1, <2>2
<1>14. Held(g, w, d) = IF Held(g0, w0, s) = Null THEN Null ELSE e[Held(g0, w0, s)]
  <2>1. Held(g, w, d) = f[q]
    BY <1>11 DEF c, f
  <2> QED
    BY <2>1, <1>7, <1>9, <1>10
<1>15. ASSUME NEW a \in B, NEW k \in Side
       PROVE  Held(g, w, <<e[a], k>>) =
                IF Held(g0, w0, <<a, k>>) = Null THEN Null ELSE e[Held(g0, w0, <<a, k>>)]
  <2>1. e[a] = f[a] /\ f[a] \in DOMAIN c /\ a \in DOMAIN h
    BY <1>5, <1>8, <1>10
  <2>2. <<f[a], k>> \in Places(c, v) /\ Held(c, v, <<f[a], k>>) = c[f[a]][k]
    BY <1>8, <2>1, SlotFacts
  <2>3. <<f[a], k>> # d
    <3>1. f[a] \in Addr /\ f[a] \notin DOMAIN h
      BY <1>7, <2>1 DEF Injection
    <3> QED
      BY <3>1 DEF Places
  <2>4. Held(g, w, <<f[a], k>>) = f[h[a][k]]
    BY <1>8, <2>2, <2>3 DEF c
  <2>5. Held(g0, w0, <<a, k>>) = h[a][k] /\ h[a][k] \in B \cup {Null}
    BY <1>2, <1>3, <1>8, <2>1
  <2> QED
    BY <1>7, <1>9, <1>10, <2>1, <2>4, <2>5
<1>16. /\ e \in Injection(Below(g0, w0, s), Addr \ DOMAIN g0)
       /\ DOMAIN g = DOMAIN g0 \cup Range(e)
       /\ DOMAIN w = DOMAIN w0
  BY <1>5, <1>7, <1>12
<1>17. /\ \A r \in Places(g0, w0) \ {d} : Held(g, w, r) = Held(g0, w0, r)
       /\ \A a \in Below(g0, w0, s) : \A k \in Side :
             Held(g, w, <<e[a], k>>) =
                IF Held(g0, w0, <<a, k>>) = Null THEN Null ELSE e[Held(g0, w0, <<a, k>>)]
  BY <1>5, <1>13, <1>15
<1>18. Good(g, w) /\ Below(g, w, d) \cap DOMAIN g0 = {}
  BY <1>5, <1>11, <1>14, <1>16, <1>17, CopyGood
<1> QED
  BY <1>6, <1>18

-----------------------------------------------------------------------------
(* The operations of Box and SwapBox keep the invariant.                    *)

Inv == ~fault /\ var \in [Register -> Pointer] /\ Good(heap, var)

LEMMA PlaceFacts ==
  ASSUME Inv
  PROVE  /\ IsHeap(heap) /\ IsVar(var) /\ DOMAIN var = Register
         /\ Place = Places(heap, var) /\ Null \notin Place
         /\ \A p \in Place : /\ Ptr(p) = Held(heap, var, p)
                             /\ Ptr(p) \in Pointer /\ Ptr(p) \in DOMAIN heap \cup {Null}
                             /\ Below(heap, var, p) = Visited(heap, Ptr(p))
                             /\ Live(heap, Ptr(p))
                             /\ p \notin Visited(heap, Ptr(p)) \X Side
<1>1. IsHeap(heap) /\ IsVar(var) /\ DOMAIN var = Register /\ Good(heap, var)
  BY DEF Inv, Good, IsVar
<1>2. Place = Places(heap, var) /\ \A p \in Place : Ptr(p) = Held(heap, var, p)
  BY <1>1 DEF Place, Places, Ptr, Held
<1>3. Null \notin Place
  <2>1. (DOMAIN heap) \X Side \subseteq Addr \X Side
    BY <1>1 DEF IsHeap
  <2> QED
    BY <2>1, AddrAssumption, ClientAssumption DEF Place
<1>4. DOMAIN heap \cup {Null} \subseteq Pointer
  BY <1>1 DEF IsHeap, Pointer
<1>5. \A p \in Place : Below(heap, var, p) = Visited(heap, Ptr(p))
  BY <1>2 DEF Below
<1>6. \A p \in Place : /\ Ptr(p) \in DOMAIN heap \cup {Null}
                       /\ Visited(heap, Ptr(p)) \subseteq DOMAIN heap
                       /\ p \notin Visited(heap, Ptr(p)) \X Side
  <2> SUFFICES ASSUME NEW p \in Place
               PROVE  /\ Ptr(p) \in DOMAIN heap \cup {Null}
                      /\ Visited(heap, Ptr(p)) \subseteq DOMAIN heap
                      /\ p \notin Visited(heap, Ptr(p)) \X Side
    OBVIOUS
  <2>1. p \in Places(heap, var) /\ Ptr(p) = Held(heap, var, p)
    BY <1>2
  <2>2. /\ Below(heap, var, p) \subseteq DOMAIN heap
        /\ p \notin Below(heap, var, p) \X Side
    BY <1>1, <2>1, BelowFacts
  <2>3. Held(heap, var, p) \in DOMAIN heap \cup {Null}
    BY <1>1, <2>1 DEF Good, NoneDangling
  <2> QED
    BY <1>5, <2>1, <2>2, <2>3
<1> QED
  BY <1>1, <1>2, <1>3, <1>4, <1>5, <1>6 DEF Live

LEMMA NotNested ==
  ASSUME Inv, NEW d \in Place, NEW s \in Place, ~Nested(d, s)
  PROVE  s \notin Visited(heap, Ptr(d)) \X Side /\ d \notin Visited(heap, Ptr(s)) \X Side
<1>1. Visited(heap, Ptr(d)) \subseteq Addr /\ Visited(heap, Ptr(s)) \subseteq Addr
  BY PlaceFacts, VisitedFacts
<1> QED
  BY <1>1, AddrAssumption DEF Nested

\* Pointers that are where they were.
LEMMA SameGood ==
  ASSUME NEW h, NEW v, Good(h, v), NEW g, IsHeap(g), DOMAIN g = DOMAIN h,
         \A a \in DOMAIN h : \A k \in Side : g[a][k] = h[a][k]
  PROVE  Good(g, v)
<1>1. DOMAIN v \cap (Addr \X Side) = {} /\ IsHeap(h)
  BY DEF Good
<1>2. Places(g, v) = Places(h, v)
  BY DEF Places
<1>3. \A p \in Places(h, v) : Held(g, v, p) = Held(h, v, p)
  <2> SUFFICES ASSUME NEW p \in Places(h, v)
               PROVE  Held(g, v, p) = Held(h, v, p)
    OBVIOUS
  <2>1. CASE p \in DOMAIN v
    BY <2>1 DEF Held
  <2>2. CASE p \notin DOMAIN v
    <3>1. PICK a \in DOMAIN h, s \in Side : p = <<a, s>>
      BY <2>2 DEF Places
    <3> QED
      BY <1>1, <3>1, SlotFacts
  <2> QED
    BY <2>1, <2>2
<1> QED
  BY <1>1, <1>2, <1>3 DEF Good, NoneDangling, HeldOnce, Rooted

LEMMA HeldInDeleted ==
  ASSUME NEW h, IsHeap(h), NEW v, DOMAIN v \cap (Addr \X Side) = {}, NEW q,
         NEW p \in Places(h, v), p \notin Visited(h, q) \X Side
  PROVE  /\ p \in Places(Deleted(h, q), v)
         /\ Held(Deleted(h, q), v, p) = Held(h, v, p)
<1> DEFINE g == Deleted(h, q)
<1>1. DOMAIN g = DOMAIN h \ Visited(h, q) /\ \A a \in DOMAIN g : g[a] = h[a]
  BY DeletedFacts
<1> HIDE DEF g
<1>2. CASE p \in DOMAIN v
  BY <1>2 DEF Places, Held
<1>3. CASE p \notin DOMAIN v
  <2>1. PICK a \in DOMAIN h, s \in Side : p = <<a, s>>
    BY <1>3 DEF Places
  <2>2. a \in DOMAIN g /\ g[a] = h[a] /\ p \in (DOMAIN g) \X Side
    BY <1>1, <2>1
  <2>3. p[1] = a /\ p[2] = s
    BY <2>1
  <2>4. p \in Places(g, v)
    BY <2>2 DEF Places
  <2>5. Held(g, v, p) = Held(h, v, p)
    BY <1>3, <2>2, <2>3 DEF Held
  <2> QED
    BY <2>4, <2>5 DEF g
<1> QED
  BY <1>2, <1>3 DEF g

LEMMA PlacesOfDeleted ==
  ASSUME NEW h, IsHeap(h), NEW v, NEW q
  PROVE  \A p \in Places(Deleted(h, q), v) :
            p \in Places(h, v) /\ (p \in DOMAIN v \/ p \notin Visited(h, q) \X Side)
<1>1. DOMAIN Deleted(h, q) = DOMAIN h \ Visited(h, q)
  BY DeletedFacts
<1> DEFINE g == Deleted(h, q)
<1> HIDE DEF g
<1> SUFFICES ASSUME NEW p \in Places(g, v)
             PROVE  p \in Places(h, v) /\ (p \in DOMAIN v \/ p \notin Visited(h, q) \X Side)
  BY DEF g
<1>2. DOMAIN g = DOMAIN h \ Visited(h, q)
  BY <1>1 DEF g
<1>3. CASE p \in DOMAIN v
  BY <1>3 DEF Places
<1>4. CASE p \in (DOMAIN g) \X Side
  BY <1>2, <1>4 DEF Places
<1> QED
  BY <1>3, <1>4 DEF Places

\* A variable, if c is one, lets go of its tree.
LEMMA ClearGood ==
  ASSUME NEW h, NEW v, Good(h, v), v \in [Register -> Pointer], NEW c \in Register \cup {Null},
         NEW q, q = IF c = Null THEN Null ELSE v[c],
         NEW w, w = [r \in Register |-> IF r = c THEN Null ELSE v[r]]
  PROVE  Good(Deleted(h, q), w)
<1>1. IsHeap(h) /\ DOMAIN v \cap (Addr \X Side) = {} /\ DOMAIN v = Register /\ DOMAIN w = Register
  BY DEF Good
<1>2. CASE c = Null
  <2>1. w = v
    BY <1>2, ClientAssumption
  <2> QED
    BY <1>1, <1>2, <2>1, DeletedNone
<1>3. CASE c # Null
  <2> DEFINE g == Deleted(h, q)
  <2>1. c \in Places(h, v) /\ Held(h, v, c) = q /\ Below(h, v, c) = Visited(h, q)
    BY <1>1, <1>3 DEF Places, Held, Below
  <2>2. IsHeap(g) /\ DOMAIN g = DOMAIN h \ Below(h, v, c)
    BY <1>1, <2>1, DeletedFacts
  <2>3. ASSUME NEW p \in Places(g, w)
        PROVE  Held(g, w, p) = IF p = c THEN Null ELSE Held(h, v, p)
    <3>1. p \in Places(g, v) /\ p \in Places(h, v) /\ (p \in Register \/ p \notin Visited(h, q) \X Side)
      BY <1>1, PlacesOfDeleted DEF Places
    <3>2. CASE p \in Register
      BY <1>1, <3>2 DEF Held
    <3>3. CASE p \notin Register
      <4>1. Held(g, v, p) = Held(h, v, p)
        BY <1>1, <3>1, <3>3, HeldInDeleted
      <4>2. Held(g, w, p) = Held(g, v, p) /\ p # c
        BY <1>1, <1>3, <3>3 DEF Held
      <4> QED
        BY <4>1, <4>2
    <3> QED
      BY <3>2, <3>3
  <2> HIDE DEF g
  <2>4. Good(g, w)
    BY <1>1, <2>1, <2>2, <2>3, DeleteGood
  <2> QED
    BY <2>4 DEF g
<1> QED
  BY <1>2, <1>3

LEMMA DestroyStep ==
  ASSUME Inv, NEW x \in Register, Destroy(x)
  PROVE  Inv'
<1>1. x \in Place /\ Ptr(x) = var[x] /\ x # Null
  BY ClientAssumption DEF Place, Ptr
<1>2. Live(heap, var[x])
  BY <1>1, PlaceFacts
<1>3. heap' = Deleted(heap, var[x]) /\ var' = [var EXCEPT ![x] = Null] /\ fault' = fault
  BY <1>2 DEF Destroy
<1>4. var' = [r \in Register |-> IF r = x THEN Null ELSE var[r]] /\ var' \in [Register -> Pointer]
  BY <1>3 DEF Inv, Pointer
<1>5. Good(Deleted(heap, var[x]), var')
  BY <1>1, <1>4, ClearGood DEF Inv
<1> QED
  BY <1>3, <1>4, <1>5 DEF Inv

LEMMA SetValueStep ==
  ASSUME Inv, NEW x \in Register, NEW a \in DOMAIN heap, NEW v \in Value, SetValue(x, a, v)
  PROVE  Inv'
<1>1. IsHeap(heap)
  BY PlaceFacts
<1>2. heap' = [heap EXCEPT ![a].value = v] /\ UNCHANGED <<var, fault>>
  BY DEF SetValue
<1>3. heap[a] \in [value : Value, left : Pointer, right : Pointer]
  BY <1>1 DEF IsHeap
<1>4. heap' = [heap EXCEPT ![a] = [value |-> v, left |-> heap[a].left, right |-> heap[a].right]]
  <2>1. [heap[a] EXCEPT !.value = v]
          = [value |-> v, left |-> heap[a].left, right |-> heap[a].right]
    BY <1>3
  <2>2. heap' = [heap EXCEPT ![a] = [heap[a] EXCEPT !.value = v]]
    BY <1>2
  <2> QED
    BY <2>1, <2>2
<1>5. IsHeap(heap') /\ DOMAIN heap' = DOMAIN heap
  BY <1>1, <1>3, <1>4 DEF IsHeap
<1>6. \A b \in DOMAIN heap : heap'[b].left = heap[b].left /\ heap'[b].right = heap[b].right
  BY <1>1, <1>3, <1>4 DEF IsHeap
<1>7. \A b \in DOMAIN heap : \A k \in Side : heap'[b][k] = heap[b][k]
  BY <1>6 DEF Side
<1>8. Good(heap', var)
  BY <1>5, <1>7, SameGood DEF Inv
<1> QED
  BY <1>2, <1>8 DEF Inv

LEMMA MoveConstructStep ==
  ASSUME Inv, NEW x \in Register, NEW p \in Place, MoveConstruct(x, p)
  PROVE  Inv'
<1> DEFINE q == Ptr(p)
           w == PutVar(var, p, Null)
<1>1. /\ IsHeap(heap) /\ IsVar(var) /\ DOMAIN var = Register /\ Good(heap, var)
      /\ p \in Places(heap, var) /\ p # Null /\ q = Held(heap, var, p) /\ q \in Pointer
      /\ p \notin Below(heap, var, p) \X Side
  BY PlaceFacts DEF Inv
<1>2. /\ x \in Places(heap, var) /\ Held(heap, var, x) = Null /\ x # p /\ x # Null
      /\ Null \in Pointer /\ x \notin Addr \X Side
  BY <1>1, AddrAssumption, ClientAssumption DEF MoveConstruct, Places, Held, Pointer
<1>3. /\ IsHeap(Stored(heap, p, Null)) /\ DOMAIN Stored(heap, p, Null) = DOMAIN heap
      /\ IsVar(w) /\ DOMAIN w = Register
      /\ \A r \in Places(heap, var) :
           Held(Stored(heap, p, Null), w, r) = IF r = p THEN Null ELSE Held(heap, var, r)
  BY <1>1, <1>2, PutFacts
<1>4. /\ heap' = Stored(heap, p, Null) /\ fault' = fault
      /\ var' = [w EXCEPT ![x] = q]
  BY <1>1 DEF MoveConstruct, Named, PutVar
<1> HIDE DEF w, q
<1>5. var' \in [Register -> Pointer] /\ DOMAIN var' = Register
  BY <1>1, <1>3, <1>4 DEF IsVar
<1>6. ASSUME NEW r \in Places(heap, var)
      PROVE  Held(heap', var', r) =
               Held(heap, var, IF r = x THEN p ELSE IF r = p THEN x ELSE r)
  <2>1. Held(heap', var', r) = IF r = x THEN q ELSE Held(heap', w, r)
    BY <1>3, <1>4, <1>5 DEF Held, IsVar
  <2> QED
    BY <1>1, <1>2, <1>3, <1>4, <2>1
<1>7. Below(heap, var, x) = {} /\ Below(heap, var, p) \subseteq Addr
  BY <1>1, <1>2, DeletedNone, VisitedFacts DEF Below
<1>8. p \notin Below(heap, var, x) \X Side /\ x \notin Below(heap, var, p) \X Side
  BY <1>2, <1>7
<1>9. IsHeap(heap') /\ DOMAIN heap' = DOMAIN heap /\ DOMAIN var' = DOMAIN var
  BY <1>1, <1>3, <1>4, <1>5
<1>10. Good(heap', var')
  BY <1>1, <1>2, <1>6, <1>8, <1>9, ExchangeGood
<1> QED
  BY <1>4, <1>5, <1>10 DEF Inv

LEMMA CopyConstructStep ==
  ASSUME Inv, NEW x \in Register, NEW p \in Place, CopyConstruct(x, p)
  PROVE  Inv'
<1> DEFINE q == Ptr(p)
           f == Placement(heap, q)
           c == Copied(heap, q)
<1>1. /\ IsHeap(heap) /\ DOMAIN var = Register /\ Good(heap, var)
      /\ p \in Places(heap, var) /\ q = Held(heap, var, p) /\ q \in Pointer
      /\ Live(heap, q) /\ DOMAIN var \cap (Addr \X Side) = {}
  BY PlaceFacts DEF Inv, Good
<1>2. Fits(heap, q) /\ var[x] = Null
  BY DEF CopyConstruct
<1>3. heap' = c /\ fault' = fault /\ var' = [var EXCEPT ![x] = f[q]]
  BY <1>1 DEF CopyConstruct
<1>4. q \in Visited(heap, q) \cup {Null} /\ Visited(heap, q) \subseteq Addr
  BY <1>1, VisitedFacts
<1>5. IsHeap(c) /\ f[q] \in Pointer
  <2>1. f \in [Visited(heap, q) \cup {Null} -> Pointer]
    BY <1>1, <1>2, PlacementFacts
  <2>2. IsHeap(c)
    BY <1>1, <1>2, CopiedFacts
  <2> QED
    BY <1>4, <2>1, <2>2
<1>6. var' \in [Register -> Pointer] /\ var'[x] = f[q]
  BY <1>3, <1>5 DEF Inv
<1>7. /\ x \in Places(heap, var) /\ x \notin Visited(heap, q) \X Side
      /\ \A r \in Places(heap, var) :
           Held(heap, var, r) = IF r = x THEN Null ELSE Held(heap, var, r)
  BY <1>1, <1>2, <1>4 DEF Places, Held
<1>8. ASSUME NEW r \in Places(c, var)
      PROVE  Held(heap', var', r) = IF r = x THEN f[q] ELSE Held(c, var, r)
  BY <1>1, <1>3, <1>6 DEF Held, Inv
<1> HIDE DEF q
<1>9. /\ DOMAIN var' = DOMAIN var /\ DOMAIN heap' = DOMAIN c /\ IsHeap(heap')
      /\ \A r \in Places(c, var) : Held(heap', var', r) = IF r = x THEN f[q] ELSE Held(c, var, r)
  BY <1>1, <1>3, <1>5, <1>6, <1>8
<1>10. Good(heap', var')
  BY <1>1, <1>2, <1>7, <1>9, CopyInto
<1> QED
  BY <1>3, <1>6, <1>10 DEF Inv

\* What assignment between two trees does first: the target lets go of its tree.
LEMMA EmptiedFacts ==
  ASSUME Inv, NEW d \in Place, NEW s \in Place, d # s, ~Nested(d, s),
         NEW h, h = Deleted(heap, Ptr(d))
  PROVE  LET g == Stored(h, d, Null)
             w == PutVar(var, d, Null)
         IN  /\ IsHeap(h) /\ DOMAIN h \subseteq DOMAIN heap
             /\ d \in Places(h, var) /\ s \in Places(h, var)
             /\ s \notin Register => s[1] \in DOMAIN h
             /\ \A r \in Places(h, var) : Held(h, var, r) = Held(heap, var, r)
             /\ Good(g, w) /\ DOMAIN g = DOMAIN h /\ DOMAIN w = Register
             /\ \A r \in Places(h, var) : Held(g, w, r) = IF r = d THEN Null ELSE Held(h, var, r)
             /\ d \notin Visited(h, Ptr(s)) \X Side /\ d \notin Visited(g, Ptr(s)) \X Side
<1> DEFINE q == Ptr(s)
           B == Visited(heap, Ptr(d))
           g == Stored(h, d, Null)
           w == PutVar(var, d, Null)
<1>1. /\ IsHeap(heap) /\ IsVar(var) /\ DOMAIN var = Register /\ Good(heap, var)
      /\ DOMAIN var \cap (Addr \X Side) = {}
      /\ d \in Places(heap, var) /\ d # Null /\ d \notin B \X Side
      /\ s \in Places(heap, var) /\ s # Null /\ q = Held(heap, var, s) /\ q \in Pointer
      /\ Below(heap, var, d) = B /\ Live(heap, Ptr(d))
      /\ Null \in Pointer
  BY PlaceFacts DEF Inv, Good, Pointer
<1>2. s \notin B \X Side /\ d \notin Visited(heap, q) \X Side
  BY NotNested
<1>3. /\ IsHeap(h) /\ DOMAIN h = DOMAIN heap \ B /\ \A a \in DOMAIN h : h[a] = heap[a]
      /\ d \in Places(h, var) /\ s \in Places(h, var)
      /\ \A r \in Places(h, var) : r \in Places(heap, var) /\ Held(h, var, r) = Held(heap, var, r)
  <2>1. IsHeap(h) /\ DOMAIN h = DOMAIN heap \ B /\ \A a \in DOMAIN h : h[a] = heap[a]
    BY <1>1, DeletedFacts
  <2>2. ASSUME NEW r \in Places(h, var)
        PROVE  r \in Places(heap, var) /\ Held(h, var, r) = Held(heap, var, r)
    <3>1. r \in Places(heap, var) /\ (r \in DOMAIN var \/ r \notin B \X Side)
      BY <1>1, PlacesOfDeleted
    <3>2. CASE r \in DOMAIN var
      BY <3>1, <3>2 DEF Held
    <3>3. CASE r \notin B \X Side
      BY <1>1, <3>1, <3>3, HeldInDeleted
    <3> QED
      BY <3>1, <3>2, <3>3
  <2>3. d \in Places(h, var) /\ s \in Places(h, var)
    BY <1>1, <1>2, HeldInDeleted
  <2> QED
    BY <2>1, <2>2, <2>3
<1> HIDE DEF q, B
<1>4. s \notin Register => s[1] \in DOMAIN h
  BY <1>1, <1>3 DEF Places
<1>5. /\ IsHeap(g) /\ DOMAIN g = DOMAIN h /\ IsVar(w) /\ DOMAIN w = Register
      /\ \A r \in Places(h, var) : Held(g, w, r) = IF r = d THEN Null ELSE Held(h, var, r)
  BY <1>1, <1>3, PutFacts
<1> HIDE DEF g, w
<1>6. Places(g, w) = Places(h, var)
  BY <1>1, <1>5 DEF Places
<1>7. Good(g, w)
  <2>1. \A r \in Places(g, w) : Held(g, w, r) = IF r = d THEN Null ELSE Held(heap, var, r)
    BY <1>3, <1>5, <1>6
  <2> QED
    BY <1>1, <1>3, <1>5, <2>1, DeleteGood
<1>8. Visited(h, q) \subseteq Visited(heap, q)
  BY <1>1, <1>3, Shrink
<1>9. Visited(g, q) \subseteq Visited(heap, q)
  <2>1. ASSUME NEW a \in DOMAIN g, NEW k \in Side
        PROVE  g[a][k] \in {heap[a][k], Null}
    <3>1. DOMAIN w \cap (Addr \X Side) = {}
      BY <1>1, <1>5
    <3>2. <<a, k>> \in Places(g, w) /\ Held(g, w, <<a, k>>) = g[a][k]
      BY <1>5, <3>1, SlotFacts
    <3>3. Held(heap, var, <<a, k>>) = heap[a][k]
      BY <1>1, <1>3, <1>5, SlotFacts
    <3> QED
      BY <1>3, <1>5, <1>6, <3>2, <3>3
  <2>2. DOMAIN g \subseteq DOMAIN heap
    BY <1>3, <1>5
  <2> QED
    BY <1>1, <1>5, <2>1, <2>2, Shrink
<1>10. d \notin Visited(h, q) \X Side /\ d \notin Visited(g, q) \X Side
  BY <1>2, <1>8, <1>9
<1> QED
  BY <1>3, <1>4, <1>5, <1>7, <1>10 DEF g, w, q

LEMMA MoveAssignStep ==
  ASSUME Inv, ~AliasedAssign, NEW d \in Place, NEW s \in Place, MoveAssign(d, s)
  PROVE  Inv'
<1> DEFINE q == Ptr(s)
           h == Deleted(heap, Ptr(d))
           g == Stored(h, d, Null)
           w == PutVar(var, d, Null)
           g2 == Stored(h, s, Null)
           w2 == PutVar(var, s, Null)
<1>1. /\ IsVar(var) /\ DOMAIN var = Register
      /\ d # Null /\ s # Null /\ q = Held(heap, var, s) /\ q \in Pointer
      /\ Live(heap, Ptr(d)) /\ Null \in Pointer
  BY PlaceFacts DEF Pointer
<1>2. d # s /\ ~Nested(d, s)
  BY DEF MoveAssign
<1>3. /\ IsHeap(h) /\ d \in Places(h, var) /\ s \in Places(h, var)
      /\ s \notin Register => s[1] \in DOMAIN h
      /\ \A r \in Places(h, var) : Held(h, var, r) = Held(heap, var, r)
  BY <1>2, EmptiedFacts
<1>4. /\ Good(g, w) /\ DOMAIN g = DOMAIN h /\ DOMAIN w = Register
      /\ \A r \in Places(h, var) : Held(g, w, r) = IF r = d THEN Null ELSE Held(h, var, r)
      /\ d \notin Visited(g, q) \X Side
  BY <1>2, EmptiedFacts
<1>5. /\ heap' = Stored(g2, d, q) /\ fault' = fault
      /\ var' = PutVar(w2, d, q)
  <2>1. /\ heap' = Stored(g2, d, q) /\ fault' = fault
        /\ var' = [x \in Register |-> IF x = d THEN q ELSE Named(s, Null)[x]]
    BY <1>1, <1>3 DEF MoveAssign
  <2>2. Named(s, Null) = w2
    BY <1>1 DEF Named, PutVar
  <2>3. w2 \in [Register -> Pointer]
    BY <1>1 DEF PutVar, IsVar
  <2> HIDE DEF w2
  <2>4. [x \in Register |-> IF x = d THEN q ELSE w2[x]] = PutVar(w2, d, q)
    BY <2>3 DEF PutVar
  <2> QED
    BY <2>1, <2>2, <2>4
<1> HIDE DEF h, q
<1>6. /\ IsHeap(g2) /\ DOMAIN g2 = DOMAIN h /\ IsVar(w2) /\ DOMAIN w2 = Register
      /\ \A r \in Places(h, var) : Held(g2, w2, r) = IF r = s THEN Null ELSE Held(h, var, r)
  BY <1>1, <1>3, PutFacts
<1> HIDE DEF g, w, g2, w2
<1>7. Places(g, w) = Places(h, var) /\ Places(g2, w2) = Places(h, var)
  BY <1>1, <1>4, <1>6 DEF Places
<1>8. /\ IsHeap(heap') /\ DOMAIN heap' = DOMAIN h /\ IsVar(var') /\ DOMAIN var' = Register
      /\ \A r \in Places(h, var) : Held(heap', var', r) = IF r = d THEN q ELSE Held(g2, w2, r)
  BY <1>1, <1>3, <1>5, <1>6, <1>7, PutFacts
<1>9. \A r \in Places(g, w) :
          Held(heap', var', r) = Held(g, w, IF r = d THEN s ELSE IF r = s THEN d ELSE r)
  BY <1>1, <1>2, <1>3, <1>4, <1>6, <1>7, <1>8
<1>10. Below(g, w, d) = {} /\ Below(g, w, s) = Visited(g, q)
  <2>1. Held(g, w, d) = Null /\ Held(g, w, s) = q
    BY <1>1, <1>2, <1>3, <1>4
  <2> QED
    BY <1>4, <2>1, DeletedNone DEF Below, Good
<1>11. d \notin Below(g, w, s) \X Side /\ s \notin Below(g, w, d) \X Side
  BY <1>4, <1>10
<1>12. Good(heap', var')
  BY <1>3, <1>4, <1>7, <1>8, <1>9, <1>11, ExchangeGood
<1> QED
  BY <1>5, <1>8, <1>12 DEF Inv, IsVar

LEMMA CopyAssignStep ==
  ASSUME Inv, ~AliasedAssign, ~ThrowingAssign, NEW d \in Place, NEW s \in Place, CopyAssign(d, s)
  PROVE  Inv'
<1> DEFINE q == Ptr(s)
           h == Deleted(heap, Ptr(d))
           g == Stored(h, d, Null)
           w == PutVar(var, d, Null)
           c == Copied(h, q)
           p == Placement(h, q)[q]
<1>1. /\ IsVar(var) /\ DOMAIN var = Register /\ DOMAIN var \cap (Addr \X Side) = {}
      /\ d # Null /\ q = Held(heap, var, s) /\ q \in Pointer /\ Live(heap, Ptr(d))
  BY PlaceFacts DEF Inv, Good
<1>2. d # s /\ ~Nested(d, s) /\ Fits(h, q)
  BY DEF CopyAssign
<1>3. /\ IsHeap(h) /\ d \in Places(h, var) /\ s \in Places(h, var)
      /\ s \notin Register => s[1] \in DOMAIN h
      /\ \A r \in Places(h, var) : Held(h, var, r) = Held(heap, var, r)
  BY <1>2, EmptiedFacts
<1>4. /\ Good(g, w) /\ DOMAIN g = DOMAIN h /\ DOMAIN w = DOMAIN var
      /\ \A r \in Places(h, var) : Held(g, w, r) = IF r = d THEN Null ELSE Held(h, var, r)
      /\ d \notin Visited(h, q) \X Side
  BY <1>1, <1>2, EmptiedFacts
<1>5. q = Held(g, w, s)
  BY <1>1, <1>2, <1>3, <1>4
<1> HIDE DEF g, w, h, q
<1>6. Live(h, q)
  <2>1. Visited(g, q) = Visited(h, q)
    <3>1. ASSUME NEW a \in Visited(h, q) \cap DOMAIN h, NEW k \in Side
          PROVE  g[a][k] = h[a][k]
      <4>1. <<a, k>> \in Places(h, var) /\ Held(h, var, <<a, k>>) = h[a][k] /\ <<a, k>> # d
        BY <1>1, <1>3, <1>4, SlotFacts
      <4>2. Held(g, w, <<a, k>>) = g[a][k]
        BY <1>1, <1>4, SlotFacts DEF Good
      <4> QED
        BY <1>4, <4>1, <4>2
    <3> QED
      BY <1>1, <1>3, <1>4, <3>1, Agree DEF Good
  <2>2. s \in Places(g, w)
    BY <1>3, <1>4 DEF Places
  <2>3. Below(g, w, s) \subseteq DOMAIN g
    BY <1>4, <2>2, BelowFacts
  <2> QED
    BY <1>4, <1>5, <2>1, <2>3 DEF Below, Live
<1>7. heap' = Stored(c, d, p) /\ var' = PutVar(var, d, p) /\ fault' = fault
  BY <1>1, <1>2, <1>3, <1>6 DEF CopyAssign, Named, PutVar, h, q
<1>8. IsHeap(c) /\ DOMAIN h \subseteq DOMAIN c
  <2> DEFINE f == Placement(h, q)
             B == Visited(h, q)
  <2>1. B = Visited(h, q) /\ f = Placement(h, q) /\ c = Copied(h, q)
    OBVIOUS
  <2>2. IsHeap(h) /\ q \in Pointer /\ Fits(h, q) /\ Live(h, q)
    BY <1>1, <1>2, <1>3, <1>6
  <2> HIDE DEF B, f, c
  <2>3. IsHeap(c) /\ DOMAIN c = DOMAIN h \cup {f[a] : a \in B}
    BY <2>1, <2>2, CopiedFacts
  <2> QED
    BY <2>3
<1>9. p \in Pointer
  <2> DEFINE f == Placement(h, q)
  <2>1. f \in [Visited(h, q) \cup {Null} -> Pointer]
    BY <1>1, <1>2, <1>3, PlacementFacts
  <2>2. q \in Visited(h, q) \cup {Null}
    BY <1>1, <1>3, VisitedFacts
  <2> HIDE DEF f
  <2>3. f[q] \in Pointer
    BY <2>1, <2>2
  <2> QED
    BY <2>3 DEF f
<1>10. d \in Places(c, var)
  BY <1>3, <1>8 DEF Places
<1> HIDE DEF c, p
<1>11. /\ IsHeap(heap') /\ DOMAIN heap' = DOMAIN c /\ IsVar(var') /\ DOMAIN var' = DOMAIN var
       /\ \A r \in Places(c, var) : Held(heap', var', r) = IF r = d THEN p ELSE Held(c, var, r)
  BY <1>1, <1>7, <1>8, <1>9, <1>10, PutFacts
<1>12. Good(heap', var')
  BY <1>1, <1>2, <1>3, <1>4, <1>5, <1>11, CopyInto DEF c, p
<1> QED
  BY <1>1, <1>7, <1>11, <1>12 DEF Inv, IsVar

-----------------------------------------------------------------------------
(* What an operation has in its hand, a parameter taken by value or the box *)
(* that it returns, is held by the variable Null.                           *)

Hand(v, q) == [r \in Register \cup {Null} |-> IF r = Null THEN q ELSE v[r]]

LEMMA HandFacts ==
  ASSUME NEW h, IsHeap(h), NEW v, v \in [Register -> Pointer], NEW q, q \in Pointer,
         NEW u, u = Hand(v, q)
  PROVE  /\ IsVar(v) /\ IsVar(u) /\ DOMAIN u = Register \cup {Null}
         /\ DOMAIN v = Register /\ Null \notin Addr \X Side
         /\ DOMAIN v \cap (Addr \X Side) = {} /\ DOMAIN u \cap (Addr \X Side) = {}
         /\ Places(h, u) = Places(h, v) \cup {Null} /\ Null \notin Places(h, v)
         /\ Held(h, u, Null) = q
         /\ \A r \in Places(h, v) : Held(h, u, r) = Held(h, v, r)
<1>1. /\ DOMAIN v = Register /\ DOMAIN u = Register \cup {Null}
      /\ Null \notin Register /\ Null \notin Addr \X Side /\ DOMAIN h \subseteq Addr
  BY AddrAssumption, ClientAssumption DEF Hand, IsHeap
<1>2. IsVar(v) /\ IsVar(u)
  BY <1>1 DEF IsVar, Hand
<1>3. DOMAIN v \cap (Addr \X Side) = {} /\ DOMAIN u \cap (Addr \X Side) = {}
  BY <1>1, AddrAssumption
<1>4. Places(h, u) = Places(h, v) \cup {Null} /\ Null \notin Places(h, v)
  BY <1>1 DEF Places
<1>5. Held(h, u, Null) = q
  BY <1>1 DEF Held, Hand
<1>6. \A r \in Places(h, v) : Held(h, u, r) = Held(h, v, r)
  BY <1>1, <1>4 DEF Held, Hand
<1> QED
  BY <1>1, <1>2, <1>3, <1>4, <1>5, <1>6

\* An empty hand owns nothing.
LEMMA EmptyHand ==
  ASSUME NEW h, NEW v \in [Register -> Pointer]
  PROVE  Good(h, v) <=> Good(h, Hand(v, Null))
<1>1. /\ DOMAIN Hand(v, Null) = DOMAIN v \cup {Null} /\ Null \notin DOMAIN v
      /\ Hand(v, Null)[Null] = Null /\ \A x \in DOMAIN v : Hand(v, Null)[x] = v[x]
      /\ Null \notin Addr \X Side
  BY AddrAssumption, ClientAssumption DEF Hand
<1> HIDE DEF Hand
<1> QED
  BY <1>1, RootGood

\* Place d exchanges its pointer for the one in the hand, with which goes what
\* d held.
LEMMA ReplaceGood ==
  ASSUME NEW h, NEW v \in [Register -> Pointer], NEW p \in Pointer, Good(h, Hand(v, p)),
         NEW d \in Places(h, v), d \notin Visited(h, p) \X Side,
         NEW old, old = Held(h, v, d)
  PROVE  /\ PutVar(v, d, p) \in [Register -> Pointer]
         /\ Good(Deleted(Stored(h, d, p), old), PutVar(v, d, p))
<1> DEFINE u == Hand(v, p)
           g == Stored(h, d, p)
           w == PutVar(v, d, p)
           u1 == Hand(w, old)
           g2 == Deleted(g, old)
           u2 == Hand(w, Null)
<1>1. IsHeap(h) /\ DOMAIN h \subseteq Addr /\ Null \in Pointer
  BY DEF Good, IsHeap, Pointer
<1>2. /\ IsVar(v) /\ DOMAIN u = Register \cup {Null} /\ DOMAIN v = Register
      /\ Null \notin Addr \X Side /\ DOMAIN u \cap (Addr \X Side) = {}
      /\ Places(h, u) = Places(h, v) \cup {Null} /\ Null \notin Places(h, v)
      /\ Held(h, u, Null) = p
      /\ \A r \in Places(h, v) : Held(h, u, r) = Held(h, v, r)
  <2>1. u = Hand(v, p)
    OBVIOUS
  <2> HIDE DEF u
  <2> QED
    BY <1>1, <2>1, HandFacts, SMTT(40)
<1>3. old \in Pointer
  BY <1>1, <1>2 DEF Good, NoneDangling, Pointer
<1>4. /\ IsHeap(g) /\ DOMAIN g = DOMAIN h /\ IsVar(w) /\ DOMAIN w = Register
      /\ \A r \in Places(h, v) : Held(g, w, r) = IF r = d THEN p ELSE Held(h, v, r)
  BY <1>1, <1>2, PutFacts
<1>5. w \in [Register -> Pointer]
  BY <1>4 DEF IsVar
<1> HIDE DEF u, g, w
<1>6. /\ DOMAIN u1 = Register \cup {Null}
      /\ Places(g, u1) = Places(g, w) \cup {Null}
      /\ Held(g, u1, Null) = old
      /\ \A r \in Places(g, w) : Held(g, u1, r) = Held(g, w, r)
  <2>1. u1 = Hand(w, old)
    OBVIOUS
  <2> HIDE DEF u1
  <2> QED
    BY <1>3, <1>4, <1>5, <2>1, HandFacts
<1> HIDE DEF u1
<1>7. Places(g, w) = Places(h, v)
  BY <1>2, <1>4 DEF Places
<1>8. Good(g, u1)
  <2>1. \A r \in Places(h, u) :
          Held(g, u1, r) = Held(h, u, IF r = d THEN Null ELSE IF r = Null THEN d ELSE r)
    BY <1>2, <1>4, <1>6, <1>7
  <2>2. d \notin Below(h, u, Null) \X Side /\ Null \notin Below(h, u, d) \X Side
    <3>1. Below(h, u, d) \subseteq Addr
      BY <1>1, <1>2, <1>3, VisitedFacts DEF Below
    <3> QED
      BY <1>2, <3>1 DEF Below
  <2>3. d \in Places(h, u) /\ Null \in Places(h, u) /\ DOMAIN u1 = DOMAIN u /\ Good(h, u)
    BY <1>2, <1>6 DEF u
  <2> QED
    BY <1>4, <2>1, <2>2, <2>3, ExchangeGood
<1>9. IsHeap(g2) /\ DOMAIN g2 = DOMAIN g \ Visited(g, old) /\ DOMAIN g2 \subseteq Addr
  BY <1>4, DeletedFacts DEF IsHeap
<1>10. /\ DOMAIN u2 = Register \cup {Null}
       /\ Places(g2, u2) = Places(g2, w) \cup {Null}
       /\ Held(g2, u2, Null) = Null
       /\ \A r \in Places(g2, w) : Held(g2, u2, r) = Held(g2, w, r)
       /\ DOMAIN w \cap (Addr \X Side) = {} /\ Null \notin Places(g2, w)
  <2>1. u2 = Hand(w, Null)
    OBVIOUS
  <2>2. IsHeap(g2) /\ w \in [Register -> Pointer] /\ Null \in Pointer
    BY <1>1, <1>5, <1>9
  <2> HIDE DEF g2, u2
  <2> QED
    BY <2>1, <2>2, HandFacts
<1> HIDE DEF g2, u2
<1>11. ASSUME NEW r \in Places(g2, u2)
       PROVE  Held(g2, u2, r) = IF r = Null THEN Null ELSE Held(g, u1, r)
  <2>1. CASE r = Null
    BY <1>10, <2>1
  <2>2. CASE r # Null
    <3>1. r \in Places(g2, w)
      BY <1>10, <2>2
    <3>2. r \in Places(g, w) /\ (r \in DOMAIN w \/ r \notin Visited(g, old) \X Side)
      BY <1>4, <3>1, PlacesOfDeleted DEF g2
    <3>3. Held(g2, w, r) = Held(g, w, r)
      <4>1. CASE r \in DOMAIN w
        BY <4>1 DEF Held
      <4>2. CASE r \notin Visited(g, old) \X Side
        BY <1>4, <1>10, <3>2, <4>2, HeldInDeleted DEF g2
      <4> QED
        BY <3>2, <4>1, <4>2
    <3> QED
      BY <1>6, <1>10, <2>2, <3>1, <3>2, <3>3
  <2> QED
    BY <2>1, <2>2
<1>12. Good(g2, u2)
  <2>1. Null \in Places(g, u1) /\ DOMAIN u2 = DOMAIN u1 /\ Below(g, u1, Null) = Visited(g, old)
    BY <1>6, <1>10 DEF Below
  <2> QED
    BY <1>8, <1>9, <1>11, <2>1, DeleteGood
<1>13. Good(g2, w)
  BY <1>5, <1>12, EmptyHand DEF u2
<1> QED
  BY <1>5, <1>13 DEF g2, g, w

LEMMA EmptyHandFacts ==
  ASSUME Inv, NEW u, u = Hand(var, Null)
  PROVE  /\ Good(heap, u) /\ u[Null] = Null /\ \A b \in Register : u[b] = var[b]
         /\ DOMAIN u = Register \cup {Null} /\ DOMAIN u \cap (Addr \X Side) = {}
         /\ Places(heap, u) = Places(heap, var) \cup {Null} /\ Null \notin Places(heap, var)
         /\ Held(heap, u, Null) = Null /\ Null \notin Addr \X Side
         /\ \A r \in Places(heap, var) : Held(heap, u, r) = Held(heap, var, r)
<1>1. IsHeap(heap) /\ Good(heap, var) /\ var \in [Register -> Pointer] /\ Null \in Pointer
  BY DEF Inv, Good, Pointer
<1>2. Good(heap, u) /\ u[Null] = Null /\ \A b \in Register : u[b] = var[b]
  BY <1>1, EmptyHand, ClientAssumption DEF Hand
<1>3. /\ DOMAIN u = Register \cup {Null} /\ DOMAIN u \cap (Addr \X Side) = {}
      /\ Places(heap, u) = Places(heap, var) \cup {Null} /\ Null \notin Places(heap, var)
      /\ Held(heap, u, Null) = Null /\ Null \notin Addr \X Side
      /\ \A r \in Places(heap, var) : Held(heap, u, r) = Held(heap, var, r)
  BY <1>1, HandFacts
<1> QED
  BY <1>2, <1>3

LEMMA CopyAssignBySwapStep ==
  ASSUME Inv, NEW d \in Place, NEW s \in Place, CopyAssignBySwap(d, s)
  PROVE  Inv'
<1> DEFINE q == Ptr(s)
           p == Placement(heap, q)[q]
           c == Copied(heap, q)
           u == Hand(var, Null)
           u1 == Hand(var, p)
<1>1. /\ IsHeap(heap) /\ IsVar(var) /\ DOMAIN var = Register /\ Good(heap, var)
      /\ var \in [Register -> Pointer] /\ Null \in Pointer
      /\ DOMAIN heap \subseteq Addr /\ Register \cap (Addr \X Side) = {}
      /\ d \in Places(heap, var) /\ s \in Places(heap, var)
      /\ Ptr(d) = Held(heap, var, d) /\ q = Held(heap, var, s) /\ q \in Pointer
      /\ Live(heap, Ptr(d)) /\ Live(heap, q)
  BY AddrAssumption, ClientAssumption, PlaceFacts DEF Inv, Pointer, IsHeap
<1>2. Fits(heap, q)
  BY DEF CopyAssignBySwap
<1>3. /\ heap' = Deleted(Stored(c, d, p), Ptr(d)) /\ fault' = fault
      /\ var' = PutVar(var, d, p)
  BY <1>1 DEF CopyAssignBySwap, Named, PutVar
<1>4. p \in Pointer
  <2> DEFINE f == Placement(heap, q)
  <2>1. f \in [Visited(heap, q) \cup {Null} -> Pointer]
    BY <1>1, <1>2, PlacementFacts
  <2>2. q \in Visited(heap, q) \cup {Null}
    BY <1>1, VisitedFacts
  <2> HIDE DEF f
  <2>3. f[q] \in Pointer
    BY <2>1, <2>2
  <2> QED
    BY <2>3 DEF f
<1>5. IsHeap(c) /\ DOMAIN heap \subseteq DOMAIN c /\ \A a \in DOMAIN heap : c[a] = heap[a]
  <2> DEFINE f == Placement(heap, q)
             B == Visited(heap, q)
  <2>1. B = Visited(heap, q) /\ f = Placement(heap, q) /\ c = Copied(heap, q)
    OBVIOUS
  <2>2. IsHeap(heap) /\ q \in Pointer /\ Fits(heap, q) /\ Live(heap, q)
    BY <1>1, <1>2
  <2> HIDE DEF B, f, c
  <2>3. /\ IsHeap(c) /\ DOMAIN c = DOMAIN heap \cup {f[a] : a \in B}
        /\ \A a \in DOMAIN heap : c[a] = heap[a]
    BY <2>1, <2>2, CopiedFacts
  <2> QED
    BY <2>3
<1>6. u = Hand(var, Null) /\ u1 = Hand(var, p)
  OBVIOUS
<1>7. Good(heap, u)
  BY EmptyHandFacts
<1> HIDE DEF u, u1, p, c, q
<1>8. /\ DOMAIN u = Register \cup {Null} /\ DOMAIN u \cap (Addr \X Side) = {}
      /\ Places(heap, u) = Places(heap, var) \cup {Null} /\ Null \notin Places(heap, var)
      /\ Held(heap, u, Null) = Null /\ Null \notin Addr \X Side
      /\ \A r \in Places(heap, var) : Held(heap, u, r) = Held(heap, var, r)
  BY <1>6, EmptyHandFacts
<1>9. /\ Places(c, u) = Places(c, var) \cup {Null} /\ Null \notin Places(c, var)
      /\ \A r \in Places(c, var) : Held(c, u, r) = Held(c, var, r)
  BY <1>1, <1>5, <1>6, HandFacts
<1>10. /\ DOMAIN u1 = DOMAIN u
       /\ Held(c, u1, Null) = p
       /\ \A r \in Places(c, var) : Held(c, u1, r) = Held(c, var, r)
  BY <1>1, <1>4, <1>5, <1>6, <1>8, HandFacts
<1>11. Good(c, u1) /\ Below(c, u1, Null) \cap DOMAIN heap = {}
  <2>1. /\ Null \in Places(heap, u) /\ s \in Places(heap, u) /\ q = Held(heap, u, s)
        /\ \A r \in Places(heap, u) :
             Held(heap, u, r) = IF r = Null THEN Null ELSE Held(heap, u, r)
    BY <1>1, <1>8
  <2>2. Null \notin Visited(heap, q) \X Side
    BY <1>1, <1>8, VisitedFacts
  <2>3. \A r \in Places(Copied(heap, q), u) :
          Held(c, u1, r) = IF r = Null THEN Placement(heap, q)[q] ELSE Held(Copied(heap, q), u, r)
    BY <1>9, <1>10 DEF c, p
  <2>4. DOMAIN c = DOMAIN Copied(heap, q)
    BY DEF c
  <2> QED
    BY <1>1, <1>2, <1>5, <1>7, <1>8, <1>10, <2>1, <2>2, <2>3, <2>4, CopyInto
<1>12. d \in Places(c, var) /\ Held(c, var, d) = Ptr(d)
  BY <1>1, <1>5 DEF Places, Held
<1>13. d \notin Visited(c, p) \X Side
  <2>1. Visited(c, p) \cap DOMAIN heap = {} /\ Visited(c, p) \subseteq Addr
    BY <1>4, <1>5, <1>10, <1>11, VisitedFacts DEF Below
  <2> QED
    BY <1>1, <2>1 DEF Places
<1>14. /\ PutVar(var, d, p) \in [Register -> Pointer]
       /\ Good(Deleted(Stored(c, d, p), Ptr(d)), PutVar(var, d, p))
  BY <1>1, <1>4, <1>6, <1>11, <1>12, <1>13, ReplaceGood
<1> QED
  BY <1>3, <1>14 DEF Inv

LEMMA MoveAssignBySwapStep ==
  ASSUME ~SelfMove, Inv, NEW d \in Place, NEW s \in Place, MoveAssignBySwap(d, s)
  PROVE  Inv'
<1> DEFINE q == Ptr(s)
           h == Stored(heap, s, Null)
           w == PutVar(var, s, Null)
           u == Hand(var, Null)
           u1 == Hand(w, q)
           old == IF d = s THEN Null ELSE Ptr(d)
<1>1. /\ IsHeap(heap) /\ IsVar(var) /\ DOMAIN var = Register /\ Good(heap, var)
      /\ var \in [Register -> Pointer] /\ Null \in Pointer
      /\ DOMAIN heap \subseteq Addr /\ Register \cap (Addr \X Side) = {}
      /\ DOMAIN var \cap (Addr \X Side) = {}
      /\ d \in Places(heap, var) /\ s \in Places(heap, var) /\ s # Null
      /\ Ptr(d) = Held(heap, var, d) /\ q = Held(heap, var, s) /\ q \in Pointer
      /\ Live(heap, Ptr(d))
  BY AddrAssumption, ClientAssumption, PlaceFacts DEF Inv, Pointer, IsHeap
<1>2. d \notin Visited(heap, q) \X Side
  <2>1. Visited(heap, q) \subseteq Addr
    BY <1>1, VisitedFacts
  <2> QED
    BY <1>1, <2>1 DEF MoveAssignBySwap
<1>3. /\ heap' = Deleted(Stored(h, d, q), old) /\ fault' = fault
      /\ var' = PutVar(w, d, q)
  <2>1. /\ heap' = Deleted(Stored(h, d, q), old) /\ fault' = fault
        /\ var' = [x \in Register |-> IF x = d THEN q ELSE Named(s, Null)[x]]
    BY <1>1 DEF MoveAssignBySwap
  <2>2. Named(s, Null) = w
    BY <1>1 DEF Named, PutVar
  <2>3. w \in [Register -> Pointer]
    BY <1>1 DEF PutVar, IsVar
  <2> HIDE DEF w
  <2>4. [x \in Register |-> IF x = d THEN q ELSE w[x]] = PutVar(w, d, q)
    BY <2>3 DEF PutVar
  <2> QED
    BY <2>1, <2>2, <2>4
<1>4. /\ IsHeap(h) /\ DOMAIN h = DOMAIN heap /\ IsVar(w) /\ DOMAIN w = Register
      /\ \A r \in Places(heap, var) : Held(h, w, r) = IF r = s THEN Null ELSE Held(heap, var, r)
  BY <1>1, PutFacts
<1>5. w \in [Register -> Pointer]
  BY <1>4 DEF IsVar
<1>6. u = Hand(var, Null) /\ u1 = Hand(w, q)
  OBVIOUS
<1>7. Good(heap, u)
  BY EmptyHandFacts
<1> HIDE DEF u, u1, h, w, q
<1>8. /\ DOMAIN u = Register \cup {Null} /\ DOMAIN u \cap (Addr \X Side) = {}
      /\ Places(heap, u) = Places(heap, var) \cup {Null} /\ Null \notin Places(heap, var)
      /\ Held(heap, u, Null) = Null /\ Null \notin Addr \X Side
      /\ \A r \in Places(heap, var) : Held(heap, u, r) = Held(heap, var, r)
  BY <1>6, EmptyHandFacts
<1>9. /\ DOMAIN u1 = DOMAIN u /\ Held(h, u1, Null) = q
      /\ \A r \in Places(h, w) : Held(h, u1, r) = Held(h, w, r)
  BY <1>1, <1>4, <1>5, <1>6, <1>8, HandFacts
<1>10. Places(h, w) = Places(heap, var)
  BY <1>1, <1>4 DEF Places
<1>11. Good(h, u1)
  <2>1. \A r \in Places(heap, u) :
          Held(h, u1, r) = Held(heap, u, IF r = s THEN Null ELSE IF r = Null THEN s ELSE r)
    BY <1>1, <1>4, <1>8, <1>9, <1>10
  <2>2. s \notin Below(heap, u, Null) \X Side /\ Null \notin Below(heap, u, s) \X Side
    <3>1. Below(heap, u, Null) = {} /\ Below(heap, u, s) \subseteq Addr
      BY <1>1, <1>8, DeletedNone, VisitedFacts DEF Below
    <3> QED
      BY <1>8, <3>1
  <2>3. s \in Places(heap, u) /\ Null \in Places(heap, u)
    BY <1>1, <1>8
  <2> QED
    BY <1>4, <1>7, <1>9, <2>1, <2>2, <2>3, ExchangeGood
<1>12. d \notin Visited(h, q) \X Side
  <2>1. ASSUME NEW a \in DOMAIN h, NEW k \in Side
        PROVE  h[a][k] \in {heap[a][k], Null}
    <3>1. Held(h, w, <<a, k>>) = h[a][k]
      BY <1>1, <1>4, SlotFacts
    <3>2. <<a, k>> \in Places(heap, var) /\ Held(heap, var, <<a, k>>) = heap[a][k]
      BY <1>1, <1>4, SlotFacts
    <3> QED
      BY <1>4, <3>1, <3>2
  <2>2. Visited(h, q) \subseteq Visited(heap, q)
    BY <1>1, <1>4, <2>1, Shrink
  <2> QED
    BY <1>2, <2>2
<1>13. d \in Places(h, w) /\ old = Held(h, w, d)
  BY <1>1, <1>4, <1>10
<1> HIDE DEF old
<1>14. /\ PutVar(w, d, q) \in [Register -> Pointer]
       /\ Good(Deleted(Stored(h, d, q), old), PutVar(w, d, q))
  BY <1>1, <1>5, <1>6, <1>11, <1>12, <1>13, ReplaceGood
<1> QED
  BY <1>3, <1>14 DEF Inv

LEMMA MakeBoxStep ==
  ASSUME Inv, NEW x \in Register, NEW v \in Value,
         NEW y \in Register \cup {Null}, NEW z \in Register \cup {Null}, MakeBox(x, v, y, z)
  PROVE  Inv'
<1> DEFINE l == IF y = Null THEN Null ELSE var[y]
           r == IF z = Null THEN Null ELSE var[z]
           moved == [b \in Register |-> IF b \in {y, z} THEN Null ELSE var[b]]
           a == CHOOSE a \in Free(heap) : TRUE
           node == [value |-> v, left |-> l, right |-> r]
           g == [b \in DOMAIN heap \cup {a} |-> IF b = a THEN node ELSE heap[b]]
<1>1. /\ IsHeap(heap) /\ DOMAIN var = Register /\ Good(heap, var)
      /\ var \in [Register -> Pointer] /\ Null \in Pointer
      /\ DOMAIN heap \subseteq Addr /\ Register \cap (Addr \X Side) = {}
      /\ Null \notin Register /\ Null \notin Addr
  BY AddrAssumption, ClientAssumption, PlaceFacts DEF Inv, Pointer, IsHeap
<1>2. (y = z => y = Null) /\ fault' = fault
  BY DEF MakeBox
<1>3. l \in Pointer /\ r \in Pointer /\ moved \in [Register -> Pointer]
  BY <1>1
<1>4. CASE Free(heap) = {}
  <2> DEFINE h == Deleted(heap, l)
             w == [b \in Register |-> IF b = y THEN Null ELSE var[b]]
  <2>1. var' = moved /\ heap' = Deleted(h, r)
    BY <1>4 DEF MakeBox
  <2>2. Good(h, w)
    BY <1>1, ClearGood
  <2>3. w \in [Register -> Pointer]
    BY <1>1
  <2>4. r = IF z = Null THEN Null ELSE w[z]
    BY <1>1, <1>2
  <2>5. moved = [b \in Register |-> IF b = z THEN Null ELSE w[b]]
    OBVIOUS
  <2> HIDE DEF h, w, r, l, moved
  <2>6. Good(Deleted(h, r), moved)
    BY <2>2, <2>3, <2>4, <2>5, ClearGood
  <2> QED
    BY <1>2, <1>3, <2>1, <2>6 DEF Inv
<1>5. CASE Free(heap) # {}
  <2> DEFINE u == Hand(var, Null)
             u1 == Hand(moved, a)
             K == {y, z} \ {Null}
  <2>1. a \in Addr \ DOMAIN heap
    BY <1>5 DEF Free
  <2>2. /\ heap' = Deleted(g, moved[x]) /\ var' = [moved EXCEPT ![x] = a]
    BY <1>5 DEF MakeBox
  <2> HIDE DEF a
  <2>3. /\ DOMAIN g = DOMAIN heap \cup {a} /\ g[a] = node
        /\ \A b \in DOMAIN heap : g[b] = heap[b]
    BY <2>1
  <2>4. IsHeap(g)
    <3>1. node \in [value : Value, left : Pointer, right : Pointer]
      BY <1>3
    <3> HIDE DEF node
    <3>2. g \in [DOMAIN heap \cup {a} -> [value : Value, left : Pointer, right : Pointer]]
      BY <1>1, <3>1 DEF IsHeap
    <3> QED
      BY <1>1, <2>1, <3>2 DEF IsHeap
  <2>5. g[a].left = l /\ g[a].right = r
    BY <2>3
  <2>6. u = Hand(var, Null) /\ u1 = Hand(moved, a) /\ a \in Pointer
    BY <2>1 DEF Pointer
  <2>7. Good(heap, u) /\ u[Null] = Null /\ \A b \in Register : u[b] = var[b]
    BY <2>6, EmptyHandFacts
  <2>8. \A b \in Register : moved[b] = IF b \in K THEN Null ELSE var[b]
    BY <1>1
  <2>9. l = r => l = Null
    <3> SUFFICES ASSUME l = r, l # Null
                 PROVE  FALSE
      OBVIOUS
    <3>1. /\ y \in Places(heap, var) /\ z \in Places(heap, var)
          /\ Held(heap, var, y) = l /\ Held(heap, var, z) = l /\ y # z
      BY <1>1, <1>2 DEF Places, Held
    <3> HIDE DEF l, r
    <3>2. HeldOnce(heap, var)
      BY <1>1 DEF Good
    <3> QED
      BY <3>1, <3>2 DEF HeldOnce
  <2>10. {l, r} \ {Null} = {u[b] : b \in K} \ {Null}
    BY <1>1, <2>7
  <2> HIDE DEF u, u1, g, node, l, r, moved
  <2>11. /\ DOMAIN u = Register \cup {Null} /\ DOMAIN u \cap (Addr \X Side) = {}
         /\ Places(heap, u) = Places(heap, var) \cup {Null} /\ Null \notin Places(heap, var)
         /\ Held(heap, u, Null) = Null /\ Null \notin Addr \X Side
         /\ \A p \in Places(heap, var) : Held(heap, u, p) = Held(heap, var, p)
    BY <2>6, EmptyHandFacts
  <2>12. /\ DOMAIN u1 = DOMAIN u /\ Held(g, u1, Null) = a /\ DOMAIN u1 \cap (Addr \X Side) = {}
         /\ \A p \in Places(g, moved) : Held(g, u1, p) = Held(g, moved, p)
    <3>1. IsHeap(g) /\ moved \in [Register -> Pointer] /\ a \in Pointer
      BY <1>3, <2>4, <2>6
    <3> QED
      BY <2>6, <2>11, <3>1, HandFacts, SMTT(20)
  <2>13. Held(g, u1, <<a, "left">>) = l /\ Held(g, u1, <<a, "right">>) = r
    <3>1. \A k \in Side : Held(g, u1, <<a, k>>) = g[a][k]
      BY <2>3, <2>4, <2>12, SlotFacts
    <3> QED
      BY <2>5, <3>1 DEF Side
  <2>14. DOMAIN moved = Register
    BY <1>3
  <2>15. ASSUME NEW p \in Places(heap, u)
         PROVE  Held(g, u1, p) = IF p = Null THEN a ELSE IF p \in K THEN Null ELSE Held(heap, u, p)
    <3>1. CASE p = Null
      BY <2>12, <3>1
    <3>2. CASE p \in Register
      BY <1>1, <2>8, <2>11, <2>12, <2>14, <3>2 DEF Places, Held
    <3>3. CASE p \notin Register /\ p # Null
      <4>1. PICK b \in DOMAIN heap, k \in Side : p = <<b, k>>
        BY <1>1, <2>11, <3>3 DEF Places
      <4>2. Held(g, u1, p) = g[b][k]
        BY <2>3, <2>4, <2>12, <4>1, SlotFacts
      <4>3. Held(heap, u, p) = heap[b][k]
        BY <1>1, <2>11, <4>1, SlotFacts
      <4> QED
        BY <2>3, <3>3, <4>2, <4>3
    <3> QED
      BY <3>1, <3>2, <3>3
  <2>16. /\ Null \in DOMAIN u /\ K \in SUBSET DOMAIN u /\ Null \notin K
         /\ DOMAIN g = DOMAIN heap \cup {a}
    BY <2>3, <2>11
  <2> HIDE DEF K
  <2>17. Good(g, u1)
    BY <2>1, <2>4, <2>7, <2>9, <2>10, <2>12, <2>13, <2>15, <2>16, MakeGood
  <2>18. x \in Places(g, moved) /\ x \notin Visited(g, a) \X Side /\ moved[x] = Held(g, moved, x)
    <3>1. Visited(g, a) \subseteq Addr
      BY <2>4, <2>6, VisitedFacts
    <3> QED
      BY <1>1, <2>14, <3>1 DEF Places, Held
  <2>19. /\ PutVar(moved, x, a) \in [Register -> Pointer]
         /\ Good(Deleted(Stored(g, x, a), moved[x]), PutVar(moved, x, a))
    BY <1>3, <2>6, <2>17, <2>18, ReplaceGood
  <2>20. Stored(g, x, a) = g /\ PutVar(moved, x, a) = var'
    BY <2>2, <2>14 DEF Stored, PutVar
  <2>21. heap' = Deleted(g, moved[x])
    BY <2>2
  <2> QED
    BY <1>2, <2>19, <2>20, <2>21 DEF Inv
<1> QED
  BY <1>4, <1>5

-----------------------------------------------------------------------------
(* The trees below pointers.  The depth bound of Tree is enough: no path of *)
(* a good heap is longer than there are nodes.                              *)

\* Among any nodes of h there is one without a child among them.
Grounded(h) ==
  \A Z \in SUBSET DOMAIN h : Z # {} => \E a \in Z : \A s \in Side : h[a][s] \notin Z

\* Nodes all of which have a child among them would hold, each being held once,
\* all of themselves.
LEMMA GoodGrounded ==
  ASSUME NEW h, NEW v, Good(h, v)
  PROVE  Grounded(h)
<1> SUFFICES ASSUME NEW Z \in SUBSET DOMAIN h, Z # {},
                    \A a \in Z : \E s \in Side : h[a][s] \in Z
             PROVE  FALSE
  BY DEF Grounded
<1> DEFINE side(a) == CHOOSE s \in Side : h[a][s] \in Z
           c == [a \in Z |-> h[a][side(a)]]
           I == {c[a] : a \in Z}
<1>1. DOMAIN h \subseteq Addr /\ Null \notin Addr /\ IsHeap(h) /\ DOMAIN v \cap (Addr \X Side) = {}
  BY AddrAssumption DEF Good, IsHeap
<1>2. \A a \in Z : side(a) \in Side /\ h[a][side(a)] \in Z
  OBVIOUS
<1> HIDE DEF side
<1>3. \A a \in Z : /\ <<a, side(a)>> \in Places(h, v)
                   /\ Held(h, v, <<a, side(a)>>) = h[a][side(a)]
  BY <1>1, <1>2, SlotFacts
<1>4. c \in [Z -> I] /\ I \subseteq Z
  BY <1>2
<1>5. \A a, b \in Z : c[a] = c[b] => a = b
  <2> SUFFICES ASSUME NEW a \in Z, NEW b \in Z, c[a] = c[b]
               PROVE  a = b
    OBVIOUS
  <2>1. h[a][side(a)] = h[b][side(b)] /\ h[a][side(a)] # Null
    BY <1>1, <1>2
  <2>2. <<a, side(a)>> = <<b, side(b)>>
    BY <1>3, <2>1 DEF Good, HeldOnce
  <2> QED
    BY <2>2
<1>6. IsFiniteSet(Z)
  BY <1>1, AddrAssumption, FS_Subset
<1> HIDE DEF c
<1>7. I = Z
  <2> SUFFICES ASSUME I # Z
               PROVE  FALSE
    OBVIOUS
  <2>1. IsFiniteSet(I) /\ Cardinality(I) <= Cardinality(Z) /\ Cardinality(I) # Cardinality(Z)
    BY <1>4, <1>6, FS_Subset
  <2>2. Cardinality(I) \in Nat /\ Cardinality(Z) \in Nat
    BY <1>6, <2>1, FS_CardinalityType
  <2>3. Cardinality(I) < Cardinality(Z)
    BY <2>1, <2>2
  <2> HIDE DEF I
  <2>4. \E a, b \in Z : a # b /\ c[a] = c[b]
    BY <1>4, <1>6, <2>1, <2>3, FS_PigeonHole
  <2> QED
    BY <1>5, <2>4
<1>8. PICK p \in Places(h, v) \ (Z \X Side) : Held(h, v, p) \in Z
  BY DEF Good, Rooted
<1>9. PICK a \in Z : Held(h, v, p) = h[a][side(a)]
  BY <1>7, <1>8 DEF c
<1>10. p = <<a, side(a)>>
  <2>1. Held(h, v, p) # Null /\ Held(h, v, p) = Held(h, v, <<a, side(a)>>)
    BY <1>1, <1>3, <1>8, <1>9
  <2> QED
    BY <1>3, <1>8, <2>1 DEF Good, HeldOnce
<1> QED
  BY <1>2, <1>8, <1>10

\* The trees of the nodes of h down to depth n, given those down to depth n - 1.
Layer(h, given, n, nearer) ==
  [r \in Addr \cup {Null} |->
     LET child(s) == IF <<r, s>> \in DOMAIN given THEN given[<<r, s>>]
                     ELSE nearer[h[r][s]]
     IN  IF n = 0 \/ r \notin DOMAIN h THEN Null
         ELSE [value |-> h[r].value, left |-> child("left"), right |-> child("right")]]

Layers(h, given) ==
  LET below[n \in 0..Cardinality(Addr)] == Layer(h, given, n, below[n - 1]) IN below

IsLayers(h, given, N, t) == t = [n \in 0..N |-> Layer(h, given, n, t[n - 1])]

LEMMA LayersExist ==
  ASSUME NEW h, NEW given, NEW N \in Nat
  PROVE  \E t : IsLayers(h, given, N, t)
<1> DEFINE Upto(k) == \E t : t = [n \in 0..k |-> Layer(h, given, n, t[n - 1])]
           P == {k \in 0..N : Upto(k)}
<1>0. \A u, v : Layer(h, given, 0, u) = Layer(h, given, 0, v)
  BY DEF Layer
<1>1. 0 \in P
  <2> DEFINE t == [n \in 0..0 |-> Layer(h, given, 0, <<>>)]
  <2>1. t = [n \in 0..0 |-> Layer(h, given, n, t[n - 1])]
    <3>1. \A n \in 0..0 : n = 0
      OBVIOUS
    <3> QED
      BY <1>0, <3>1
  <2>2. Upto(0)
    <3> HIDE DEF t
    <3> QED
      BY <2>1
  <2> QED
    BY <2>2
<1>2. ASSUME NEW k \in 0..N, k # N, k \in P
      PROVE  k + 1 \in P
  <2>1. PICK t : t = [n \in 0..k |-> Layer(h, given, n, t[n - 1])]
    BY <1>2
  <2> DEFINE u == [n \in 0..k + 1 |-> IF n = k + 1 THEN Layer(h, given, n, t[k]) ELSE t[n]]
  <2>2. \A n \in 0..k : u[n] = t[n]
    BY <1>2
  <2>3. ASSUME NEW n \in 0..k + 1
        PROVE  u[n] = Layer(h, given, n, u[n - 1])
    <3>1. CASE n = k + 1
      <4>1. n - 1 = k /\ k \in 0..k
        BY <1>2, <3>1
      <4> QED
        BY <2>2, <3>1, <4>1
    <3>2. CASE n # k + 1 /\ n # 0
      <4>1. n \in 0..k /\ n - 1 \in 0..k
        BY <1>2, <3>2
      <4>2. t[n] = Layer(h, given, n, t[n - 1])
        BY <2>1, <4>1
      <4> QED
        BY <2>2, <4>1, <4>2
    <3>3. CASE n # k + 1 /\ n = 0
      <4>1. n \in 0..k
        BY <1>2, <3>3
      <4>2. t[n] = Layer(h, given, n, t[n - 1])
        BY <2>1, <4>1
      <4> QED
        BY <1>0, <2>2, <3>3, <4>1, <4>2
    <3> QED
      BY <3>1, <3>2, <3>3
  <2>4. u = [n \in 0..k + 1 |-> Layer(h, given, n, u[n - 1])]
    <3>1. u = [n \in 0..k + 1 |-> u[n]]
      OBVIOUS
    <3> HIDE DEF u
    <3> QED
      BY <2>3, <3>1
  <2>5. Upto(k + 1)
    <3> HIDE DEF u
    <3> QED
      BY <2>4
  <2> QED
    BY <1>2, <2>5
<1>3. N \in P
  <2> HIDE DEF P
  <2> QED
    BY <1>1, <1>2, CountingInduction
<1> QED
  BY <1>3 DEF IsLayers

\* The node at address a with the trees below it read from t.
NodeTree(h, given, a, t) ==
  [value |-> h[a].value,
   left  |-> IF <<a, "left">> \in DOMAIN given THEN given[<<a, "left">>] ELSE t[h[a].left],
   right |-> IF <<a, "right">> \in DOMAIN given THEN given[<<a, "right">>] ELSE t[h[a].right]]

LEMMA LayersFacts ==
  ASSUME NEW h, IsHeap(h), NEW given, NEW T, T = Layers(h, given), NEW N, N = Cardinality(Addr)
  PROVE  /\ \A n \in 0..N, q \in Pointer \ DOMAIN h : T[n][q] = Null
         /\ \A a \in DOMAIN h : T[0][a] = Null
         /\ \A n \in 1..N, a \in DOMAIN h : T[n][a] = NodeTree(h, given, a, T[n - 1])
         /\ \A q : Tree(h, q, given) = T[N][q]
<1>1. N \in Nat /\ DOMAIN h \subseteq Pointer
  BY AddrAssumption, FS_CardinalityType DEF IsHeap, Pointer
<1>2. T = [n \in 0..N |-> Layer(h, given, n, T[n - 1])]
  <2>1. \E t : IsLayers(h, given, N, t)
    BY <1>1, LayersExist
  <2>2. T = CHOOSE t : t = [n \in 0..N |-> Layer(h, given, n, t[n - 1])]
    BY DEF Layers
  <2> QED
    BY <2>1, <2>2 DEF IsLayers
<1>3. \A n \in 0..N : T[n] = Layer(h, given, n, T[n - 1])
  BY <1>2, Zenon
<1>4. ASSUME NEW n \in 0..N, NEW q \in Pointer, n = 0 \/ q \notin DOMAIN h
      PROVE  T[n][q] = Null
  <2> DEFINE t == T[n - 1]
  <2>1. T[n] = Layer(h, given, n, t)
    BY <1>3
  <2> HIDE DEF t
  <2> QED
    BY <1>4, <2>1 DEF Layer, Pointer
<1>5. ASSUME NEW n \in 1..N, NEW a \in DOMAIN h
      PROVE  T[n][a] = NodeTree(h, given, a, T[n - 1])
  <2> DEFINE t == T[n - 1]
  <2>1. T[n] = Layer(h, given, n, t) /\ n # 0 /\ a \in Addr \cup {Null}
    BY <1>1, <1>3 DEF Pointer
  <2> HIDE DEF t
  <2>2. T[n][a] = NodeTree(h, given, a, t)
    BY <2>1 DEF Layer, NodeTree
  <2> QED
    BY <2>2 DEF t
<1>6. \A q : Tree(h, q, given) = T[N][q]
  BY DEF Tree, Layers, Layer
<1>7. 0 \in 0..N
  BY <1>1
<1> QED
  BY <1>1, <1>4, <1>5, <1>6, <1>7

\* Nodes all of whose children are in X, or are none of h's, join X.
Deepens(h, X) == X \cup {a \in DOMAIN h : \A s \in Side : h[a][s] \in DOMAIN h => h[a][s] \in X}
Deepen(h) == [X \in SUBSET DOMAIN h |-> Deepens(h, X)]

\* f tells which nodes are at the top of trees of depth at most n.
IsDepth(f, h, N) ==
  /\ f \in [0..N -> SUBSET DOMAIN h] /\ f[0] = {} /\ f[N] = DOMAIN h
  /\ \A n \in 1..N : f[n] = Deepens(h, f[n - 1])

LEMMA DepthFacts ==
  ASSUME NEW h, IsHeap(h), Grounded(h), NEW N, N = Cardinality(Addr)
  PROVE  \E f : IsDepth(f, h, N)
<1>1. \A X \in SUBSET DOMAIN h : Deepen(h)[X] = Deepens(h, X)
  BY DEF Deepen
<1>2. Deepen(h) \in [SUBSET DOMAIN h -> SUBSET DOMAIN h]
  BY DEF Deepen, Deepens
<1>3. Grows(Deepen(h), DOMAIN h)
  BY <1>1 DEF Grows, Deepens
<1>4. N \in Nat /\ IsFiniteSet(DOMAIN h) /\ Cardinality(DOMAIN h) <= N + Cardinality({})
  <2>1. /\ IsFiniteSet(Addr) /\ DOMAIN h \subseteq Addr /\ N \in Nat
        /\ Cardinality({}) = 0
    BY AddrAssumption, FS_CardinalityType, FS_EmptySet DEF IsHeap
  <2>2. IsFiniteSet(DOMAIN h) /\ Cardinality(DOMAIN h) <= N
    BY <2>1, FS_Subset
  <2> QED
    BY <2>1, <2>2
<1>5. {} \in SUBSET DOMAIN h
  OBVIOUS
<1>6. PICK base : base = {}
  OBVIOUS
<1>7. PICK f : Iteration(f, SUBSET DOMAIN h, base, Deepen(h), N)
  BY <1>2, <1>4, <1>5, <1>6, Iterates
<1>8. f \in [0..N -> SUBSET DOMAIN h] /\ \A n \in 1..N : f[n] = Deepen(h)[f[n - 1]]
  BY <1>7 DEF Iteration
<1>9. \A n \in 1..N : f[n] = Deepens(h, f[n - 1])
  <2> SUFFICES ASSUME NEW n \in 1..N
               PROVE  f[n] = Deepens(h, f[n - 1])
    OBVIOUS
  <2>1. n - 1 \in 0..N
    BY <1>4
  <2>2. f[n - 1] \in SUBSET DOMAIN h
    BY <1>8, <2>1
  <2> QED
    BY <1>1, <1>8, <2>2
<1>10. Deepen(h)[f[N]] = f[N]
  BY <1>3, <1>4, <1>5, <1>6, <1>7, Saturation
<1> DEFINE Z == DOMAIN h \ f[N]
<1>11. f[N] \in SUBSET DOMAIN h
  BY <1>4, <1>8
<1>12. Z = {}
  <2> SUFFICES ASSUME Z # {}
               PROVE  FALSE
    OBVIOUS
  <2>1. PICK a \in Z : \A s \in Side : h[a][s] \notin Z
    <3> HIDE DEF Z
    <3>1. Z \in SUBSET DOMAIN h
      BY DEF Z
    <3> QED
      BY <3>1 DEF Grounded
  <2>2. a \in Deepens(h, f[N])
    BY <2>1 DEF Deepens
  <2> QED
    BY <1>1, <1>10, <1>11, <2>2
<1>13. f[N] = DOMAIN h
  BY <1>11, <1>12
<1> HIDE DEF Z
<1>14. f \in [0..N -> SUBSET DOMAIN h] /\ f[0] = {}
  BY <1>6, <1>7 DEF Iteration
<1> QED
  BY <1>9, <1>13, <1>14 DEF IsDepth

\* The tree of a child, which may be given.
Branch(h, given, a, s) ==
  IF <<a, s>> \in DOMAIN given THEN given[<<a, s>>] ELSE Tree(h, h[a][s], given)

LEMMA TreeFacts ==
  ASSUME NEW h, IsHeap(h), Grounded(h), NEW given
  PROVE  /\ \A q \in Pointer \ DOMAIN h : Tree(h, q, given) = Null
         /\ \A a \in DOMAIN h : Tree(h, a, given) = [value |-> h[a].value,
                                                     left  |-> Branch(h, given, a, "left"),
                                                     right |-> Branch(h, given, a, "right")]
<1> DEFINE N == Cardinality(Addr)
           T == Layers(h, given)
           B == T[N]
<1>1. N \in Nat
  BY AddrAssumption, FS_CardinalityType
<1>2. /\ \A n \in 0..N, q \in Pointer \ DOMAIN h : T[n][q] = Null
      /\ \A n \in 1..N, a \in DOMAIN h : T[n][a] = NodeTree(h, given, a, T[n - 1])
      /\ \A q : Tree(h, q, given) = B[q]
  BY LayersFacts
<1>3. PICK f : IsDepth(f, h, N)
  BY DepthFacts
<1>4. /\ f \in [0..N -> SUBSET DOMAIN h] /\ f[0] = {} /\ f[N] = DOMAIN h
      /\ \A n \in 1..N : f[n] = Deepens(h, f[n - 1])
  BY <1>3 DEF IsDepth
<1>5. B = T[N]
  OBVIOUS
<1>6. \A a \in DOMAIN h : h[a].left \in Pointer /\ h[a].right \in Pointer
  BY HeapFacts DEF Side
<1> HIDE DEF N, T, B
<1> DEFINE Q == {k \in 0..N : \A a \in f[k], j \in k..N : T[j][a] = NodeTree(h, given, a, B)}
<1>7. 0 \in Q
  BY <1>1, <1>4
<1>8. ASSUME NEW k \in 0..N, k # N, k \in Q
      PROVE  k + 1 \in Q
  <2>1. k + 1 \in 1..N /\ k + 1 \in 0..N /\ (k + 1) - 1 = k /\ N \in k..N /\ N \in 0..N
    BY <1>1, <1>8
  <2>2. \A a \in f[k], j \in k..N : T[j][a] = NodeTree(h, given, a, B)
    BY <1>8
  <2>3. ASSUME NEW q \in f[k] \cup (Pointer \ DOMAIN h), NEW j \in k..N
        PROVE  T[j][q] = B[q]
    <3>1. CASE q \in f[k]
      BY <1>5, <2>1, <2>2, <3>1
    <3>2. CASE q \in Pointer \ DOMAIN h
      <4>1. j \in 0..N
        BY <1>1
      <4> QED
        BY <1>2, <1>5, <2>1, <3>2, <4>1
    <3> QED
      BY <3>1, <3>2
  <2>4. ASSUME NEW a \in f[k + 1], NEW j \in k + 1..N
        PROVE  T[j][a] = NodeTree(h, given, a, B)
    <3>1. j \in k..N /\ j \in 1..N /\ j - 1 \in k..N
      BY <1>1, <2>1
    <3>2. CASE a \in f[k]
      BY <2>2, <3>1, <3>2
    <3>3. CASE a \notin f[k]
      <4>1. a \in DOMAIN h /\ \A s \in Side : h[a][s] \in DOMAIN h => h[a][s] \in f[k]
        BY <1>4, <2>1, <3>3 DEF Deepens
      <4>2. {h[a].left, h[a].right} \subseteq f[k] \cup (Pointer \ DOMAIN h)
        BY <1>6, <4>1 DEF Side
      <4>3. T[j - 1][h[a].left] = B[h[a].left] /\ T[j - 1][h[a].right] = B[h[a].right]
        BY <2>3, <3>1, <4>2
      <4>4. T[j][a] = NodeTree(h, given, a, T[j - 1])
        BY <1>2, <3>1, <4>1
      <4> QED
        BY <4>3, <4>4 DEF NodeTree
    <3> QED
      BY <3>2, <3>3
  <2> QED
    BY <2>1, <2>4
<1>9. N \in Q
  <2> HIDE DEF Q
  <2>1. \A k \in 0..N : k # N /\ k \in Q => k + 1 \in Q
    BY <1>8
  <2>2. N \in 0..N
    BY <1>1
  <2> QED
    BY <1>1, <1>7, <2>1, <2>2, CountingInduction
<1>10. N \in 0..N /\ N \in N..N
  BY <1>1
<1>11. \A a \in DOMAIN h : B[a] = NodeTree(h, given, a, B)
  BY <1>4, <1>5, <1>9, <1>10
<1>12. \A q \in Pointer \ DOMAIN h : Tree(h, q, given) = Null
  BY <1>2, <1>5, <1>10
<1>13. \A q : Tree(h, q, given) = B[q]
  BY <1>2
<1> HIDE DEF B, T, N
<1>14. ASSUME NEW a \in DOMAIN h
       PROVE  Tree(h, a, given) = [value |-> h[a].value, left  |-> Branch(h, given, a, "left"),
                                                         right |-> Branch(h, given, a, "right")]
  <2>1. Tree(h, a, given) = NodeTree(h, given, a, B)
    BY <1>11, <1>13
  <2>2. /\ Branch(h, given, a, "left") = IF <<a, "left">> \in DOMAIN given
                                        THEN given[<<a, "left">>] ELSE B[h[a].left]
        /\ Branch(h, given, a, "right") = IF <<a, "right">> \in DOMAIN given
                                         THEN given[<<a, "right">>] ELSE B[h[a].right]
    BY <1>13 DEF Branch
  <2> QED
    BY <2>1, <2>2 DEF NodeTree
<1> QED
  BY <1>12, <1>14

\* The nodes X of h look in g, where f says which they are, as they do in h
\* with the given trees.
Mirrors(h, given, g, f, X) ==
  /\ X \subseteq DOMAIN h
  /\ \A a \in X : f[a] \in DOMAIN g /\ g[f[a]].value = h[a].value
  /\ \A a \in X : \A s \in Side :
       IF <<a, s>> \in DOMAIN given THEN Tree(g, g[f[a]][s], <<>>) = given[<<a, s>>]
       ELSE \/ h[a][s] \in X /\ g[f[a]][s] = f[h[a][s]]
            \/ h[a][s] = Null /\ g[f[a]][s] = Null

LEMMA MirroredTrees ==
  ASSUME NEW h, IsHeap(h), Grounded(h), NEW given, NEW g, IsHeap(g), Grounded(g),
         NEW f, NEW X, Mirrors(h, given, g, f, X)
  PROVE  \A a \in X : Tree(g, f[a], <<>>) = Tree(h, a, given)
<1> DEFINE Z == {a \in X : Tree(g, f[a], <<>>) # Tree(h, a, given)}
           none == <<>>
<1>1. Null \notin DOMAIN h /\ Null \notin DOMAIN g /\ Null \in Pointer
  BY AddrAssumption DEF IsHeap, Pointer
<1>2. DOMAIN none = {}
  OBVIOUS
<1> HIDE DEF none
<1>3. /\ Tree(h, Null, given) = Null
      /\ \A a \in DOMAIN h : Tree(h, a, given) = [value |-> h[a].value,
                                                  left  |-> Branch(h, given, a, "left"),
                                                  right |-> Branch(h, given, a, "right")]
  BY <1>1, TreeFacts
<1>4. /\ Tree(g, Null, none) = Null
      /\ \A a \in DOMAIN g : Tree(g, a, none) = [value |-> g[a].value,
                                                 left  |-> Branch(g, none, a, "left"),
                                                 right |-> Branch(g, none, a, "right")]
  BY <1>1, TreeFacts
<1>5. Z = {}
  <2> SUFFICES ASSUME Z # {}
               PROVE  FALSE
    OBVIOUS
  <2>1. PICK a \in Z : \A s \in Side : h[a][s] \notin Z
    <3> HIDE DEF Z
    <3>1. Z \in SUBSET DOMAIN h
      BY DEF Z, Mirrors
    <3> QED
      BY <3>1 DEF Grounded
  <2>2. /\ a \in X /\ a \in DOMAIN h /\ f[a] \in DOMAIN g /\ g[f[a]].value = h[a].value
        /\ Tree(g, f[a], none) # Tree(h, a, given)
    BY <2>1 DEF Mirrors, none
  <2>3. ASSUME NEW s \in Side
        PROVE  Branch(g, none, f[a], s) = Branch(h, given, a, s)
    <3>1. Branch(g, none, f[a], s) = Tree(g, g[f[a]][s], none)
      BY <1>2 DEF Branch
    <3>2. CASE <<a, s>> \in DOMAIN given
      BY <2>2, <3>1, <3>2 DEF Mirrors, Branch, none
    <3>3. CASE <<a, s>> \notin DOMAIN given
      <4>1. Branch(h, given, a, s) = Tree(h, h[a][s], given)
        BY <3>3 DEF Branch
      <4>2. \/ h[a][s] \in X /\ g[f[a]][s] = f[h[a][s]]
            \/ h[a][s] = Null /\ g[f[a]][s] = Null
        BY <2>2, <3>3 DEF Mirrors
      <4>3. CASE h[a][s] \in X /\ g[f[a]][s] = f[h[a][s]]
        BY <2>1, <3>1, <4>1, <4>3 DEF none
      <4>4. CASE h[a][s] = Null /\ g[f[a]][s] = Null
        BY <1>3, <1>4, <3>1, <4>1, <4>4
      <4> QED
        BY <4>2, <4>3, <4>4
    <3> QED
      BY <3>2, <3>3
  <2>4. /\ Branch(g, none, f[a], "left") = Branch(h, given, a, "left")
        /\ Branch(g, none, f[a], "right") = Branch(h, given, a, "right")
    BY <2>3 DEF Side
  <2> QED
    BY <1>3, <1>4, <2>2, <2>4
<1> QED
  BY <1>5

-----------------------------------------------------------------------------
(* The trees that a step leaves alone, moves or copies.                     *)

\* The part of the heap below q is in the next heap too, f says where.
Carries(f, q) ==
  /\ f[Null] = Null
  /\ f[q] \in DOMAIN heap' \cup {Null}
  /\ \A a \in Visited(heap, q) : f[a] # Null
  /\ \A a \in Visited(heap, q) : f[a] \in DOMAIN heap' =>
       heap'[f[a]].value = heap[a].value /\ \A s \in Side : heap'[f[a]][s] = f[heap[a][s]]

LEMMA HeapInv ==
  ASSUME NEW h, NEW v, v \in [Register -> Pointer], Good(h, v)
  PROVE  /\ IsHeap(h) /\ Grounded(h) /\ DOMAIN v = Register
         /\ Null \notin DOMAIN h /\ DOMAIN h \subseteq Pointer /\ Null \in Pointer
         /\ \A a \in DOMAIN h : \A s \in Side :
              /\ h[a][s] \in DOMAIN h \cup {Null}
              /\ <<a, s>> \in Places(h, v) /\ <<a, s>> \notin Register
              /\ Held(h, v, <<a, s>>) = h[a][s]
         /\ \A x \in Register : /\ x \in Places(h, v) /\ Held(h, v, x) = v[x]
                                /\ v[x] \in DOMAIN h \cup {Null}
<1>1. /\ IsHeap(h) /\ DOMAIN v = Register
      /\ DOMAIN v \cap (Addr \X Side) = {}
  BY DEF Good
<1>2. Grounded(h)
  BY <1>1, GoodGrounded
<1>3. Null \notin DOMAIN h /\ DOMAIN h \subseteq Pointer /\ Null \in Pointer
  BY <1>1, AddrAssumption DEF IsHeap, Pointer
<1>4. /\ \A a \in DOMAIN h : \A s \in Side :
           /\ <<a, s>> \in Places(h, v) /\ <<a, s>> \notin Register
           /\ Held(h, v, <<a, s>>) = h[a][s]
      /\ \A x \in Register : x \in Places(h, v) /\ Held(h, v, x) = v[x]
  BY <1>1, SlotFacts
<1>5. \A p \in Places(h, v) : Held(h, v, p) \in DOMAIN h \cup {Null}
  BY DEF Good, NoneDangling
<1> QED
  BY <1>1, <1>2, <1>3, <1>4, <1>5

LEMMA CarriedTree ==
  ASSUME Inv, Inv', NEW q \in DOMAIN heap \cup {Null}, NEW f, Carries(f, q)
  PROVE  Tree(heap', f[q], <<>>) = Tree(heap, q, <<>>)
<1> DEFINE none == <<>>
           V == Visited(heap, q)
           X == {a \in V \cap DOMAIN heap : f[a] \in DOMAIN heap'}
<1>1. /\ IsHeap(heap) /\ Grounded(heap) /\ Null \notin DOMAIN heap
      /\ \A a \in DOMAIN heap : \A s \in Side : heap[a][s] \in DOMAIN heap \cup {Null}
      /\ DOMAIN heap \subseteq Pointer /\ Null \in Pointer
  BY HeapInv DEF Inv
<1>2. /\ IsHeap(heap') /\ Grounded(heap') /\ Null \notin DOMAIN heap'
      /\ \A a \in DOMAIN heap' : \A s \in Side : heap'[a][s] \in DOMAIN heap' \cup {Null}
  BY HeapInv DEF Inv
<1>3. q \in V \cup {Null} /\ Closed(heap, V)
  BY <1>1, VisitedFacts
<1>4. DOMAIN none = {}
  OBVIOUS
<1> HIDE DEF V, none
<1>5. /\ f[Null] = Null /\ f[q] \in DOMAIN heap' \cup {Null}
      /\ \A a \in V : f[a] # Null
      /\ \A a \in X : heap'[f[a]].value = heap[a].value
      /\ \A a \in X : \A s \in Side : heap'[f[a]][s] = f[heap[a][s]]
  BY DEF Carries, V
<1>6. ASSUME NEW a \in X, NEW s \in Side
      PROVE  \/ heap[a][s] \in X /\ heap'[f[a]][s] = f[heap[a][s]]
             \/ heap[a][s] = Null /\ heap'[f[a]][s] = Null
  <2>1. heap[a][s] \in (V \cap DOMAIN heap) \cup {Null}
    BY <1>1, <1>3 DEF Closed
  <2>2. heap'[f[a]][s] = f[heap[a][s]] /\ f[heap[a][s]] \in DOMAIN heap' \cup {Null}
    BY <1>2, <1>5
  <2> QED
    BY <1>5, <2>1, <2>2
<1>7. Mirrors(heap, none, heap', f, X)
  BY <1>4, <1>5, <1>6 DEF Mirrors
<1>8. \A a \in X : Tree(heap', f[a], none) = Tree(heap, a, none)
  BY <1>1, <1>2, <1>7, MirroredTrees DEF none
<1>9. CASE q = Null
  <2>1. Tree(heap, Null, none) = Null /\ Tree(heap', Null, none) = Null
    BY <1>1, <1>2, TreeFacts
  <2> QED
    BY <1>5, <1>9, <2>1 DEF none
<1>10. CASE q # Null
  <2>1. q \in X
    BY <1>3, <1>5, <1>10
  <2> QED
    BY <1>8, <2>1 DEF none
<1> QED
  BY <1>9, <1>10

\* What the nodes in K and the variables hold in (h, v) they hold in (g, w) too,
\* in every place that is not in D.
Keeps(h, v, g, w, K, D) ==
  /\ K \subseteq DOMAIN h \cap DOMAIN g
  /\ \A a \in K : g[a].value = h[a].value
  /\ \A p \in Register \cup (K \X Side) : p \notin D => Held(g, w, p) = Held(h, v, p)

\* The step keeps what is in K, from which only places in D lead elsewhere.
Spares(K, D) ==
  /\ Keeps(heap, var, heap', var', K, D)
  /\ \A p \in Register \cup (K \X Side) : p \notin D => Held(heap, var, p) \in K \cup {Null}

LEMMA SparedNodes ==
  ASSUME Inv, Inv', NEW K, NEW D, Keeps(heap, var, heap', var', K, D)
  PROVE  /\ \A a \in K : \A s \in Side : <<a, s>> \notin D => heap'[a][s] = heap[a][s]
         /\ \A x \in Register : x \notin D => var'[x] = var[x]
<1>1. /\ \A a \in DOMAIN heap : \A s \in Side : Held(heap, var, <<a, s>>) = heap[a][s]
      /\ \A x \in Register : Held(heap, var, x) = var[x]
  BY HeapInv DEF Inv
<1>2. /\ \A a \in DOMAIN heap' : \A s \in Side : Held(heap', var', <<a, s>>) = heap'[a][s]
      /\ \A x \in Register : Held(heap', var', x) = var'[x]
  BY HeapInv DEF Inv
<1>3. ASSUME NEW a \in K, NEW s \in Side, <<a, s>> \notin D
      PROVE  heap'[a][s] = heap[a][s]
  <2>1. Held(heap', var', <<a, s>>) = Held(heap, var, <<a, s>>)
    BY <1>3 DEF Keeps
  <2>2. a \in DOMAIN heap \cap DOMAIN heap'
    BY DEF Keeps
  <2> QED
    BY <1>1, <1>2, <2>1, <2>2
<1>4. ASSUME NEW x \in Register, x \notin D
      PROVE  var'[x] = var[x]
  BY <1>1, <1>2, <1>4 DEF Keeps
<1> QED
  BY <1>3, <1>4

\* A step that keeps all the nodes there are before and after.
LEMMA SparesAll ==
  ASSUME Inv, Inv', NEW K, K = DOMAIN heap \cap DOMAIN heap', NEW D,
         Keeps(heap, var, heap', var', K, D)
  PROVE  Spares(K, D)
<1>1. /\ \A a \in DOMAIN heap : \A s \in Side : Held(heap, var, <<a, s>>) \in DOMAIN heap \cup {Null}
      /\ \A x \in Register : Held(heap, var, x) \in DOMAIN heap \cup {Null}
  BY HeapInv DEF Inv
<1>2. /\ \A a \in DOMAIN heap' : \A s \in Side :
           Held(heap', var', <<a, s>>) \in DOMAIN heap' \cup {Null}
      /\ \A x \in Register : Held(heap', var', x) \in DOMAIN heap' \cup {Null}
  BY HeapInv DEF Inv
<1>3. ASSUME NEW p \in Register \cup (K \X Side), p \notin D
      PROVE  Held(heap, var, p) \in K \cup {Null}
  <2>1. Held(heap', var', p) = Held(heap, var, p)
    BY <1>3 DEF Keeps
  <2>2. Held(heap, var, p) \in DOMAIN heap \cup {Null}
    BY <1>1
  <2>3. Held(heap', var', p) \in DOMAIN heap' \cup {Null}
    BY <1>2
  <2> QED
    BY <2>1, <2>2, <2>3
<1> QED
  BY <1>3 DEF Spares

\* A tree in which nothing is written.
LEMMA SparedTree ==
  ASSUME Inv, Inv', NEW K, K = DOMAIN heap \cap DOMAIN heap', NEW D,
         Keeps(heap, var, heap', var', K, D),
         NEW q \in DOMAIN heap \cup {Null}, q \in DOMAIN heap' \cup {Null},
         D \cap (Visited(heap, q) \X Side) = {}
  PROVE  Tree(heap', q, <<>>) = Tree(heap, q, <<>>)
<1> DEFINE f == [a \in Pointer |-> a]
           V == Visited(heap, q)
<1>1. /\ IsHeap(heap) /\ DOMAIN heap \subseteq Pointer /\ Null \in Pointer /\ Null \notin Addr
      /\ \A a \in DOMAIN heap : \A s \in Side : heap[a][s] \in DOMAIN heap \cup {Null}
  BY HeapInv, AddrAssumption DEF Inv
<1>2. V \subseteq DOMAIN heap
  <2>1. q \in DOMAIN heap \cup {Null} /\ Closed(heap, DOMAIN heap)
    BY <1>1 DEF Closed
  <2> QED
    BY <1>1, <2>1, VisitedFacts
<1>3. /\ \A a \in K : \A s \in Side : <<a, s>> \notin D => heap'[a][s] = heap[a][s]
      /\ \A a \in K : heap'[a].value = heap[a].value
  BY SparedNodes DEF Keeps
<1>4. \A a \in V : \A s \in Side : <<a, s>> \notin D
  OBVIOUS
<1>5. \A a \in Pointer : f[a] = a
  OBVIOUS
<1> HIDE DEF f, V
<1>6. Null \notin V
  BY <1>1, <1>2 DEF IsHeap
<1>7. \A a \in V : a \in DOMAIN heap /\ f[a] = a /\ \A s \in Side : f[heap[a][s]] = heap[a][s]
  BY <1>1, <1>2, <1>5
<1>8. Carries(f, q)
  <2>1. f[Null] = Null /\ f[q] = q
    BY <1>1, <1>5
  <2>2. \A a \in V : f[a] # Null
    BY <1>6, <1>7
  <2>3. ASSUME NEW a \in V, f[a] \in DOMAIN heap'
        PROVE  heap'[f[a]].value = heap[a].value /\ \A s \in Side : heap'[f[a]][s] = f[heap[a][s]]
    <3>1. a \in K /\ f[a] = a
      BY <1>7, <2>3
    <3>2. ASSUME NEW s \in Side
          PROVE  heap'[a][s] = f[heap[a][s]]
      <4>1. <<a, s>> \notin D
        BY <1>4
      <4> QED
        BY <1>3, <1>7, <3>1, <4>1
    <3> QED
      BY <1>3, <3>1, <3>2
  <2> QED
    BY <2>1, <2>2, <2>3 DEF Carries, V
<1>9. f[q] = q
  BY <1>1, <1>5
<1> QED
  BY <1>8, <1>9, CarriedTree

\* The step has written the trees `given` where they belong.
LEMMA GivenTrees ==
  ASSUME Inv, Inv', NEW K, NEW D, Spares(K, D), NEW given,
         \A p \in D \ Register : p \in DOMAIN given,
         \A p \in Places(heap', var') \ Register :
           p \in DOMAIN given => Tree(heap', Held(heap', var', p), <<>>) = given[p],
         NEW x \in Register, x \notin D
  PROVE  Tree(heap', var'[x], <<>>) = Tree(heap, var[x], given)
<1> DEFINE none == <<>>
           f == [a \in K |-> a]
<1>1. /\ IsHeap(heap) /\ Grounded(heap) /\ Null \notin DOMAIN heap /\ Null \in Pointer
      /\ \A a \in DOMAIN heap : \A s \in Side :
           <<a, s>> \notin Register /\ Held(heap, var, <<a, s>>) = heap[a][s]
      /\ Held(heap, var, x) = var[x]
  BY HeapInv DEF Inv
<1>2. /\ IsHeap(heap') /\ Grounded(heap') /\ Null \notin DOMAIN heap'
      /\ \A a \in DOMAIN heap' : \A s \in Side :
           /\ heap'[a][s] \in DOMAIN heap' \cup {Null}
           /\ <<a, s>> \in Places(heap', var') /\ Held(heap', var', <<a, s>>) = heap'[a][s]
      /\ var'[x] \in DOMAIN heap' \cup {Null}
  BY HeapInv DEF Inv
<1>3. /\ \A a \in K : \A s \in Side : <<a, s>> \notin D => heap'[a][s] = heap[a][s]
      /\ \A a \in K : heap'[a].value = heap[a].value
      /\ var'[x] = var[x]
      /\ K \subseteq DOMAIN heap \cap DOMAIN heap'
  <2>1. Keeps(heap, var, heap', var', K, D)
    BY DEF Spares
  <2>2. /\ \A a \in K : heap'[a].value = heap[a].value
        /\ K \subseteq DOMAIN heap \cap DOMAIN heap'
    BY <2>1 DEF Keeps
  <2> QED
    BY <2>1, <2>2, SparedNodes
<1>4. \A a \in K : f[a] = a
  OBVIOUS
<1> HIDE DEF f
<1>5. ASSUME NEW a \in K, NEW s \in Side
      PROVE  IF <<a, s>> \in DOMAIN given THEN Tree(heap', heap'[f[a]][s], none) = given[<<a, s>>]
             ELSE \/ heap[a][s] \in K /\ heap'[f[a]][s] = f[heap[a][s]]
                  \/ heap[a][s] = Null /\ heap'[f[a]][s] = Null
  <2>1. CASE <<a, s>> \in DOMAIN given
    BY <1>1, <1>2, <1>3, <1>4, <2>1
  <2>2. CASE <<a, s>> \notin DOMAIN given
    <3>1. <<a, s>> \notin D
      BY <1>1, <1>3, <2>2
    <3>2. heap'[f[a]][s] = heap[a][s]
      BY <1>3, <1>4, <3>1
    <3>3. heap[a][s] \in K \cup {Null}
      BY <1>1, <1>3, <3>1 DEF Spares
    <3> QED
      BY <1>4, <2>2, <3>2, <3>3
  <2> QED
    BY <2>1, <2>2
<1>6. Mirrors(heap, given, heap', f, K)
  BY <1>3, <1>4, <1>5 DEF Mirrors
<1>7. \A a \in K : Tree(heap', f[a], none) = Tree(heap, a, given)
  BY <1>1, <1>2, <1>6, MirroredTrees DEF none
<1>8. CASE var[x] = Null
  <2>1. Tree(heap, Null, given) = Null /\ Tree(heap', Null, none) = Null
    BY <1>1, <1>2, TreeFacts
  <2> QED
    BY <1>3, <1>8, <2>1 DEF none
<1>9. CASE var[x] # Null
  <2>1. var[x] \in K
    BY <1>1, <1>9 DEF Spares
  <2> QED
    BY <1>3, <1>4, <1>7, <2>1 DEF none
<1> QED
  BY <1>8, <1>9

\* Every variable holds the tree its client gave it.
Shown == DOMAIN term = Register /\ \A x \in Register : Tree(heap, var[x], <<>>) = term[x]

LEMMA GivenShown ==
  ASSUME Inv, Inv', NEW K, NEW given, Spares(K, DOMAIN given), Given(given),
         \A p \in Places(heap', var') :
           p \in DOMAIN given => Tree(heap', Held(heap', var', p), <<>>) = given[p]
  PROVE  Shown'
<1> SUFFICES ASSUME NEW x \in Register
             PROVE  Tree(heap', var'[x], <<>>) = term'[x]
  BY DEF Shown, Given
<1>1. x \in Places(heap', var') /\ Held(heap', var', x) = var'[x]
  BY HeapInv DEF Inv
<1>2. term'[x] = IF x \in DOMAIN given THEN given[x] ELSE Tree(heap, var[x], given)
  BY DEF Given
<1>3. CASE x \in DOMAIN given
  BY <1>1, <1>2, <1>3
<1>4. CASE x \notin DOMAIN given
  <2>1. Tree(heap', var'[x], <<>>) = Tree(heap, var[x], given)
    BY <1>4, GivenTrees
  <2> QED
    BY <1>2, <1>4, <2>1
<1> QED
  BY <1>3, <1>4

\* d has received the tree at s, and s nothing.
LEMMA MovedShown ==
  ASSUME Inv, Inv', NEW d \in Place, NEW s \in Place,
         NEW K, K = DOMAIN heap \cap DOMAIN heap', Keeps(heap, var, heap', var', K, {d, s}),
         Given(Takes(d, s, TreeAt(s))), d \notin Visited(heap, Ptr(s)) \X Side,
         d \in Places(heap', var') => Held(heap', var', d) = Ptr(s),
         d # s /\ s \in Places(heap', var') => Held(heap', var', s) = Null
  PROVE  Shown'
<1> DEFINE given == Takes(d, s, TreeAt(s))
<1>1. /\ Ptr(s) \in DOMAIN heap \cup {Null} /\ s \notin Visited(heap, Ptr(s)) \X Side
  BY PlaceFacts
<1>2. ASSUME d \in Places(heap', var')
      PROVE  Tree(heap', Ptr(s), <<>>) = TreeAt(s)
  <2>1. {d, s} \cap (Visited(heap, Ptr(s)) \X Side) = {}
    BY <1>1
  <2>2. Ptr(s) \in DOMAIN heap' \cup {Null}
    BY <1>2 DEF Inv, Good, NoneDangling
  <2> QED
    BY <1>1, <2>1, <2>2, SparedTree DEF TreeAt
<1>3. Tree(heap', Null, <<>>) = Null
  <2>1. IsHeap(heap') /\ Grounded(heap') /\ Null \in Pointer /\ Null \notin DOMAIN heap'
    BY HeapInv DEF Inv
  <2> QED
    BY <2>1, TreeFacts
<1>4. DOMAIN given = {d, s} /\ given[d] = TreeAt(s) /\ (s # d => given[s] = Null)
  BY DEF Takes
<1>5. \A p \in Places(heap', var') :
        p \in DOMAIN given => Tree(heap', Held(heap', var', p), <<>>) = given[p]
  BY <1>2, <1>3, <1>4
<1>6. Spares(K, DOMAIN given) /\ Given(given)
  BY <1>4, SparesAll
<1> HIDE DEF given
<1> QED
  BY <1>5, <1>6, GivenShown

\* d has received a copy of the tree at s.
LEMMA CopiedShown ==
  ASSUME Inv, Inv', NEW d \in Place, NEW s \in Place,
         NEW K, Spares(K, {d}), Given(Gets(d, TreeAt(s))), NEW f,
         d \in Places(heap', var') => Carries(f, Ptr(s)) /\ Held(heap', var', d) = f[Ptr(s)]
  PROVE  Shown'
<1> DEFINE given == Gets(d, TreeAt(s))
<1>1. Ptr(s) \in DOMAIN heap \cup {Null}
  BY PlaceFacts
<1>2. ASSUME d \in Places(heap', var')
      PROVE  Tree(heap', f[Ptr(s)], <<>>) = TreeAt(s)
  BY <1>1, <1>2, CarriedTree DEF TreeAt
<1>3. DOMAIN given = {d} /\ given[d] = TreeAt(s)
  BY DEF Gets
<1>4. \A p \in Places(heap', var') :
        p \in DOMAIN given => Tree(heap', Held(heap', var', p), <<>>) = given[p]
  BY <1>2, <1>3
<1>5. Spares(K, DOMAIN given) /\ Given(given)
  BY <1>3
<1> HIDE DEF given
<1> QED
  BY <1>4, <1>5, GivenShown

-----------------------------------------------------------------------------
(* What the moves that operations are made of keep.                         *)

LEMMA KeepsOn ==
  ASSUME NEW h, NEW v, NEW g, NEW w, NEW j, NEW u, NEW K, NEW D,
         Keeps(h, v, g, w, K, D), Keeps(g, w, j, u, K, D)
  PROVE  Keeps(h, v, j, u, K, D)
BY DEF Keeps

LEMMA KeepsLess ==
  ASSUME NEW h, NEW v, NEW g, NEW w, NEW K, NEW D, Keeps(h, v, g, w, K, D), NEW L \in SUBSET K
  PROVE  Keeps(h, v, g, w, L, D)
BY DEF Keeps

LEMMA PlacesIn ==
  ASSUME NEW h, NEW v, DOMAIN v = Register, NEW K, K \subseteq DOMAIN h
  PROVE  Register \cup (K \X Side) \subseteq Places(h, v)
BY DEF Places

LEMMA StoredKeeps ==
  ASSUME NEW h, IsHeap(h), NEW v, v \in [Register -> Pointer], NEW q \in Pointer,
         NEW p \in Places(h, v), NEW K, K \subseteq DOMAIN h, NEW D, p \in D
  PROVE  Keeps(h, v, Stored(h, p, q), PutVar(v, p, q), K, D)
<1> DEFINE g == Stored(h, p, q)
           w == PutVar(v, p, q)
<1>1. DOMAIN v = Register /\ IsVar(v)
  BY DEF IsVar
<1>2. p # Null
  BY <1>1, AddrAssumption, ClientAssumption DEF Places, IsHeap
<1>3. /\ DOMAIN g = DOMAIN h
      /\ \A r \in Places(h, v) : Held(g, w, r) = IF r = p THEN q ELSE Held(h, v, r)
  BY <1>1, <1>2, PutFacts
<1>4. \A a \in DOMAIN h : g[a].value = h[a].value
  <2>1. CASE p \in Register
    BY <2>1 DEF Stored
  <2>2. CASE p \notin Register
    <3>1. PICK a \in DOMAIN h, s \in Side : p = <<a, s>>
      BY <1>1, <2>2 DEF Places
    <3>2. g = [h EXCEPT ![a][s] = q]
      BY <2>2, <3>1 DEF Stored
    <3> QED
      BY <3>2, SlotWritten
  <2> QED
    BY <2>1, <2>2
<1>5. Register \cup (K \X Side) \subseteq Places(h, v)
  BY <1>1, PlacesIn
<1> HIDE DEF g, w
<1>6. Keeps(h, v, g, w, K, D)
  BY <1>3, <1>4, <1>5 DEF Keeps
<1> QED
  BY <1>6 DEF g, w

LEMMA DeletedKeeps ==
  ASSUME NEW h, IsHeap(h), NEW v, v \in [Register -> Pointer], NEW q,
         NEW K, K \subseteq DOMAIN Deleted(h, q), NEW D
  PROVE  Keeps(h, v, Deleted(h, q), v, K, D)
<1> DEFINE g == Deleted(h, q)
<1>1. DOMAIN g = DOMAIN h \ Visited(h, q) /\ \A a \in DOMAIN g : g[a] = h[a]
  BY DeletedFacts
<1>2. K \subseteq DOMAIN g
  OBVIOUS
<1> HIDE DEF g
<1>3. Keeps(h, v, g, v, K, D)
  BY <1>1, <1>2 DEF Keeps, Held
<1> QED
  BY <1>3 DEF g

LEMMA CopiedKeeps ==
  ASSUME NEW h, IsHeap(h), NEW v, v \in [Register -> Pointer], NEW c,
         DOMAIN h \subseteq DOMAIN c, \A a \in DOMAIN h : c[a] = h[a],
         NEW K, K \subseteq DOMAIN h, NEW D
  PROVE  Keeps(h, v, c, v, K, D)
BY DEF Keeps, Held

\* d has received a copy, made while h was what was left of the heap.
LEMMA CopyShown ==
  ASSUME Inv, Inv', NEW d \in Place, NEW s \in Place, Given(Gets(d, TreeAt(s))),
         NEW K, Spares(K, {d}), NEW q, q = Ptr(s),
         NEW h, IsHeap(h), DOMAIN h \subseteq DOMAIN heap, \A a \in DOMAIN h : h[a] = heap[a],
         Fits(h, q), Live(h, q), d \in Places(h, var),
         NEW f, f = Placement(h, q), NEW c, c = Copied(h, q),
         Keeps(c, var, heap', var', DOMAIN c \cap DOMAIN heap', {d}),
         d \in Places(heap', var') => Held(heap', var', d) = f[q]
  PROVE  Shown'
<1> DEFINE V == Visited(heap, q)
           N == DOMAIN c \cap DOMAIN heap'
<1>1. /\ IsHeap(heap) /\ q \in Pointer /\ DOMAIN var = Register
      /\ Register \cap (Addr \X Side) = {} /\ Null \notin Addr
  BY PlaceFacts, AddrAssumption
<1>2. V = Visited(h, q)
  BY <1>1, Agree DEF Live
<1> HIDE DEF V
<1>3. /\ f[Null] = Null
      /\ \A a \in V : f[a] \in Addr \ DOMAIN h
  BY <1>1, <1>2, PlacementFacts
<1>4. /\ IsHeap(c) /\ DOMAIN c = DOMAIN h \cup {f[a] : a \in V}
      /\ \A a \in V : /\ c[f[a]].value = h[a].value
                      /\ \A k \in Side : c[f[a]][k] = f[h[a][k]]
  <2>1. IsHeap(h) /\ q \in Pointer /\ Fits(h, q) /\ Live(h, q) /\ f = Placement(h, q) /\ c = Copied(h, q)
    BY <1>1
  <2> QED
    BY <1>2, <2>1, CopiedFacts
<1>5. \A a \in V : h[a] = heap[a]
  BY <1>2 DEF Live
<1>6. d \in Places(heap', var') => f[q] \in DOMAIN heap' \cup {Null}
  BY DEF Inv, Good, NoneDangling
<1>7. ASSUME NEW a \in V, f[a] \in DOMAIN heap', NEW k \in Side
      PROVE  heap'[f[a]].value = heap[a].value /\ heap'[f[a]][k] = f[heap[a][k]]
  <2> DEFINE b == f[a]
  <2>1. b \in N /\ b \notin DOMAIN h /\ c[b].value = heap[a].value /\ c[b][k] = f[heap[a][k]]
    BY <1>3, <1>4, <1>5, <1>7
  <2> HIDE DEF b
  <2>2. <<b, k>> # d
    <3>1. <<b, k>> \notin Register
      BY <1>1, <1>3, <2>1 DEF b
    <3>2. <<b, k>> \notin (DOMAIN h) \X Side
      BY <2>1
    <3> QED
      BY <1>1, <3>1, <3>2 DEF Places
  <2>3. heap'[b].value = c[b].value
    BY <2>1 DEF Keeps
  <2>4. Held(heap', var', <<b, k>>) = Held(c, var, <<b, k>>)
    BY <2>1, <2>2 DEF Keeps
  <2>5. Held(c, var, <<b, k>>) = c[b][k]
    BY <1>1, <1>4, <2>1, SlotFacts
  <2>6. Held(heap', var', <<b, k>>) = heap'[b][k]
    BY <2>1, HeapInv DEF Inv
  <2> QED
    BY <2>1, <2>3, <2>4, <2>5, <2>6 DEF b
<1>8. d \in Places(heap', var') => Carries(f, q)
  <2>1. \A a \in V : f[a] # Null
    BY <1>1, <1>3
  <2>2. "left" \in Side
    BY DEF Side
  <2> QED
    BY <1>3, <1>6, <1>7, <2>1, <2>2 DEF Carries, V
<1> QED
  BY <1>8, CopiedShown

LEMMA DeletedHeld ==
  ASSUME NEW h, IsHeap(h), NEW v, NEW q, NEW g, g = Deleted(h, q)
  PROVE  /\ IsHeap(g) /\ DOMAIN g \subseteq DOMAIN h
         /\ \A r \in Places(g, v) : r \in Places(h, v) /\ Held(g, v, r) = Held(h, v, r)
<1>1. IsHeap(g) /\ DOMAIN g \subseteq DOMAIN h /\ \A a \in DOMAIN g : g[a] = h[a]
  BY DeletedFacts
<1>2. ASSUME NEW r \in Places(g, v)
      PROVE  r \in Places(h, v) /\ Held(g, v, r) = Held(h, v, r)
  <2>1. CASE r \in DOMAIN v
    BY <2>1 DEF Places, Held
  <2>2. CASE r \notin DOMAIN v
    <3>1. PICK a \in DOMAIN g, s \in Side : r = <<a, s>>
      BY <2>2 DEF Places
    <3>2. a \in DOMAIN h /\ g[a] = h[a] /\ r[1] = a /\ r[2] = s
      BY <1>1, <3>1
    <3> QED
      BY <2>2, <3>1, <3>2 DEF Places, Held
  <2> QED
    BY <2>1, <2>2
<1> QED
  BY <1>1, <1>2

LEMMA CopyHeap ==
  ASSUME NEW h, IsHeap(h), NEW q \in Pointer, Fits(h, q), Live(h, q),
         NEW f, f = Placement(h, q), NEW c, c = Copied(h, q)
  PROVE  /\ IsHeap(c) /\ DOMAIN h \subseteq DOMAIN c /\ \A a \in DOMAIN h : c[a] = h[a]
         /\ f[q] \in Pointer
<1> DEFINE V == Visited(h, q)
<1>1. V = Visited(h, q)
  OBVIOUS
<1>2. q \in V \cup {Null}
  BY VisitedFacts
<1>3. f \in [V \cup {Null} -> Pointer]
  BY PlacementFacts
<1> HIDE DEF V
<1>4. /\ IsHeap(c) /\ DOMAIN c = DOMAIN h \cup {f[a] : a \in V}
      /\ \A a \in DOMAIN h : c[a] = h[a]
  BY <1>1, CopiedFacts
<1> QED
  BY <1>2, <1>3, <1>4

\* s gives its pointer up, then d takes it.
Moves(h, v, d, s, q, g, w) ==
  /\ IsHeap(h) /\ v \in [Register -> Pointer]
  /\ d \in Places(h, v) /\ s \in Places(h, v) /\ q \in Pointer
  /\ g = Stored(Stored(h, s, Null), d, q)
  /\ w = PutVar(PutVar(v, s, Null), d, q)

Moved(h, v, d, s, q, g, w) ==
  /\ IsHeap(g) /\ DOMAIN g = DOMAIN h /\ w \in [Register -> Pointer]
  /\ Places(g, w) = Places(h, v)
  /\ Keeps(h, v, g, w, DOMAIN h, {d, s})
  /\ Held(g, w, d) = q
  /\ d # s => Held(g, w, s) = Null

LEMMA MovedFacts ==
  ASSUME NEW h, NEW v, NEW d, NEW s, NEW q, NEW g, NEW w, Moves(h, v, d, s, q, g, w)
  PROVE  Moved(h, v, d, s, q, g, w)
<1> DEFINE g1 == Stored(h, s, Null)
           w1 == PutVar(v, s, Null)
<1>1. /\ IsHeap(h) /\ v \in [Register -> Pointer]
      /\ d \in Places(h, v) /\ s \in Places(h, v) /\ q \in Pointer
  BY DEF Moves
<1>2. IsVar(v) /\ DOMAIN v = Register /\ Null \in Pointer
  BY DEF IsVar, Pointer, Moves
<1>3. d # Null /\ s # Null
  BY <1>1, <1>2, AddrAssumption, ClientAssumption DEF Places, IsHeap
<1>4. /\ IsHeap(g1) /\ DOMAIN g1 = DOMAIN h /\ IsVar(w1) /\ DOMAIN w1 = Register
      /\ \A r \in Places(h, v) : Held(g1, w1, r) = IF r = s THEN Null ELSE Held(h, v, r)
  BY <1>1, <1>2, <1>3, PutFacts
<1>5. Keeps(h, v, g1, w1, DOMAIN h, {d, s})
  BY <1>1, <1>2, StoredKeeps
<1>6. g = Stored(g1, d, q) /\ w = PutVar(w1, d, q)
  BY DEF Moves
<1> HIDE DEF g1, w1
<1>7. Places(g1, w1) = Places(h, v) /\ w1 \in [Register -> Pointer]
  BY <1>2, <1>4 DEF Places, IsVar
<1>8. /\ IsHeap(g) /\ DOMAIN g = DOMAIN g1 /\ IsVar(w) /\ DOMAIN w = Register
      /\ \A r \in Places(h, v) : Held(g, w, r) = IF r = d THEN q ELSE Held(g1, w1, r)
  BY <1>1, <1>3, <1>4, <1>6, <1>7, PutFacts
<1>9. Keeps(g1, w1, g, w, DOMAIN h, {d, s})
  BY <1>1, <1>4, <1>6, <1>7, StoredKeeps
<1>10. Keeps(h, v, g, w, DOMAIN h, {d, s})
  BY <1>5, <1>9, KeepsOn
<1>11. w \in [Register -> Pointer] /\ Places(g, w) = Places(h, v)
  BY <1>2, <1>4, <1>8 DEF IsVar, Places
<1>12. Held(g, w, d) = q /\ (d # s => Held(g, w, s) = Null)
  BY <1>1, <1>4, <1>8
<1> QED
  BY <1>4, <1>8, <1>10, <1>11, <1>12 DEF Moved

-----------------------------------------------------------------------------
(* The operations.                                                          *)

LEMMA MoveConstructShown ==
  ASSUME Inv, Inv', NEW x \in Register, NEW p \in Place, MoveConstruct(x, p)
  PROVE  Shown'
<1> DEFINE q == Ptr(p)
           K == DOMAIN heap \cap DOMAIN heap'
<1>1. /\ IsHeap(heap) /\ var \in [Register -> Pointer] /\ q \in Pointer
      /\ x \in Place /\ x \in Places(heap, var) /\ p \in Places(heap, var)
  BY PlaceFacts DEF Inv, Place
<1>2. Visited(heap, q) \subseteq Addr /\ x \notin Addr \X Side
  BY <1>1, VisitedFacts, AddrAssumption
<1>3. x # p /\ Given(Takes(x, p, TreeAt(p)))
  BY DEF MoveConstruct
<1>4. heap' = Stored(Stored(heap, p, Null), x, q) /\ var' = PutVar(PutVar(var, p, Null), x, q)
  <2>1. heap' = Stored(heap, p, Null) /\ var' = [Named(p, Null) EXCEPT ![x] = q]
    BY DEF MoveConstruct
  <2>2. Named(p, Null) = PutVar(var, p, Null)
    BY <1>1 DEF Named, PutVar
  <2>3. DOMAIN PutVar(var, p, Null) = Register
    BY <1>1 DEF PutVar
  <2> QED
    BY <2>1, <2>2, <2>3 DEF Stored, PutVar
<1>5. K \subseteq DOMAIN heap
  OBVIOUS
<1> HIDE DEF q, K
<1>6. Moved(heap, var, x, p, q, heap', var')
  <2>1. Moves(heap, var, x, p, q, heap', var')
    BY <1>1, <1>4 DEF Moves
  <2> QED
    BY <2>1, MovedFacts
<1>7. Keeps(heap, var, heap', var', K, {x, p})
  <2>1. Keeps(heap, var, heap', var', DOMAIN heap, {x, p})
    BY <1>6 DEF Moved
  <2> QED
    BY <1>5, <2>1 DEF Keeps
<1>8. Held(heap', var', x) = q /\ Held(heap', var', p) = Null
  BY <1>3, <1>6 DEF Moved
<1> QED
  BY <1>1, <1>2, <1>3, <1>7, <1>8, MovedShown DEF K, q

LEMMA MoveAssignShown ==
  ASSUME Inv, Inv', ~AliasedAssign, NEW d \in Place, NEW s \in Place, MoveAssign(d, s)
  PROVE  Shown'
<1> DEFINE q == Ptr(s)
           h == Deleted(heap, Ptr(d))
           K == DOMAIN heap \cap DOMAIN heap'
<1>1. /\ IsHeap(heap) /\ var \in [Register -> Pointer] /\ q \in Pointer
      /\ IsVar(var) /\ Live(heap, Ptr(d)) /\ DOMAIN var = Register
  BY PlaceFacts DEF Inv
<1>2. d # s /\ ~Nested(d, s)
  BY DEF MoveAssign
<1>3. d \notin Visited(heap, q) \X Side
  BY <1>2, NotNested
<1>4. /\ IsHeap(h) /\ d \in Places(h, var) /\ s \in Places(h, var)
      /\ s \notin Register => s[1] \in DOMAIN h
      /\ DOMAIN h \subseteq DOMAIN heap
  BY <1>2, EmptiedFacts
<1>5. /\ heap' = Stored(Stored(h, s, Null), d, q) /\ Given(Takes(d, s, TreeAt(s)))
      /\ var' = [x \in Register |-> IF x = d THEN q ELSE Named(s, Null)[x]]
  BY <1>1, <1>4 DEF MoveAssign
<1>6. var' = PutVar(PutVar(var, s, Null), d, q)
  <2> DEFINE w == PutVar(var, s, Null)
  <2>1. Named(s, Null) = w /\ w \in [Register -> Pointer]
    BY <1>1, AddrAssumption DEF Named, PutVar, IsVar, Pointer
  <2> HIDE DEF w
  <2>2. [x \in Register |-> IF x = d THEN q ELSE w[x]] = PutVar(w, d, q)
    BY <2>1 DEF PutVar
  <2> QED
    BY <1>5, <2>1, <2>2 DEF w
<1>7. K \subseteq DOMAIN heap
  OBVIOUS
<1> HIDE DEF q, K
<1>8. Moved(h, var, d, s, q, heap', var')
  <2>1. Moves(h, var, d, s, q, heap', var')
    BY <1>1, <1>4, <1>5, <1>6 DEF Moves
  <2> QED
    BY <2>1, MovedFacts
<1>9. K \subseteq DOMAIN h
  <2>1. DOMAIN heap' = DOMAIN h
    BY <1>8 DEF Moved
  <2> QED
    BY <2>1 DEF K
<1>10. Keeps(heap, var, h, var, K, {d, s})
  BY <1>1, <1>9, DeletedKeeps
<1> HIDE DEF h
<1>11. /\ Keeps(h, var, heap', var', K, {d, s})
       /\ Held(heap', var', d) = q /\ (d # s => Held(heap', var', s) = Null)
  <2>1. /\ Keeps(h, var, heap', var', DOMAIN h, {d, s})
        /\ Held(heap', var', d) = q /\ (d # s => Held(heap', var', s) = Null)
    BY <1>8 DEF Moved
  <2>2. Keeps(h, var, heap', var', K, {d, s})
    BY <1>9, <2>1, KeepsLess
  <2> QED
    BY <2>1, <2>2
<1>12. Keeps(heap, var, heap', var', K, {d, s})
  BY <1>10, <1>11, KeepsOn
<1> QED
  BY <1>3, <1>5, <1>11, <1>12, MovedShown DEF K, q

LEMMA MoveAssignBySwapShown ==
  ASSUME ~SelfMove, Inv, Inv', NEW d \in Place, NEW s \in Place, MoveAssignBySwap(d, s)
  PROVE  Shown'
<1> DEFINE q == Ptr(s)
           g == Stored(Stored(heap, s, Null), d, q)
           w == PutVar(PutVar(var, s, Null), d, q)
           old == IF d = s THEN Null ELSE Ptr(d)
           K == DOMAIN heap \cap DOMAIN heap'
<1>1. /\ IsHeap(heap) /\ var \in [Register -> Pointer] /\ q \in Pointer
      /\ IsVar(var) /\ Live(heap, Ptr(d)) /\ DOMAIN var = Register
      /\ d \in Places(heap, var) /\ s \in Places(heap, var)
      /\ Register \cap (Addr \X Side) = {} /\ Visited(heap, q) \subseteq Addr
  BY PlaceFacts, AddrAssumption, VisitedFacts DEF Inv
<1>2. d \notin Visited(heap, q) \X Side
  BY <1>1 DEF MoveAssignBySwap
<1>3. /\ heap' = Deleted(g, old) /\ Given(Takes(d, s, TreeAt(s)))
      /\ var' = [x \in Register |-> IF x = d THEN q ELSE Named(s, Null)[x]]
  BY <1>1 DEF MoveAssignBySwap
<1>4. var' = w
  <2> DEFINE w1 == PutVar(var, s, Null)
  <2>1. Named(s, Null) = w1 /\ w1 \in [Register -> Pointer]
    BY <1>1, AddrAssumption DEF Named, PutVar, IsVar, Pointer
  <2> HIDE DEF w1
  <2>2. [x \in Register |-> IF x = d THEN q ELSE w1[x]] = PutVar(w1, d, q)
    BY <2>1 DEF PutVar
  <2> QED
    BY <1>3, <2>1, <2>2 DEF w1
<1>5. /\ g = Stored(Stored(heap, s, Null), d, q) /\ w = PutVar(PutVar(var, s, Null), d, q)
      /\ K \subseteq DOMAIN heap /\ K \subseteq DOMAIN Deleted(g, old)
  BY <1>3
<1> HIDE DEF q, K, g, w, old
<1>6. /\ IsHeap(g) /\ w \in [Register -> Pointer]
      /\ Keeps(heap, var, g, w, K, {d, s})
      /\ Held(g, w, d) = q /\ (d # s => Held(g, w, s) = Null)
  <2>1. Moves(heap, var, d, s, q, g, w)
    BY <1>1, <1>5 DEF Moves
  <2>2. Moved(heap, var, d, s, q, g, w)
    BY <2>1, MovedFacts
  <2> QED
    BY <1>5, <2>2 DEF Moved, Keeps
<1>7. Keeps(g, w, heap', var', K, {d, s})
  BY <1>3, <1>4, <1>5, <1>6, DeletedKeeps
<1>8. \A r \in Places(heap', var') : Held(heap', var', r) = Held(g, w, r)
  BY <1>3, <1>4, <1>6, DeletedHeld
<1>9. Keeps(heap, var, heap', var', K, {d, s})
  BY <1>6, <1>7, KeepsOn
<1>10. /\ d \in Places(heap', var') => Held(heap', var', d) = q
       /\ d # s /\ s \in Places(heap', var') => Held(heap', var', s) = Null
  BY <1>6, <1>8
<1> QED
  BY <1>2, <1>3, <1>9, <1>10, MovedShown DEF K, q

LEMMA CopyConstructShown ==
  ASSUME Inv, Inv', NEW x \in Register, NEW p \in Place, CopyConstruct(x, p)
  PROVE  Shown'
<1> DEFINE q == Ptr(p)
           f == Placement(heap, q)
           c == Copied(heap, q)
           K == DOMAIN heap \cap DOMAIN heap'
<1>1. /\ IsHeap(heap) /\ var \in [Register -> Pointer] /\ q \in Pointer /\ DOMAIN var = Register
      /\ x \in Place /\ x \in Places(heap, var) /\ Live(heap, q)
  BY PlaceFacts DEF Inv, Place
<1>2. Fits(heap, q) /\ heap' = c /\ var' = [var EXCEPT ![x] = f[q]] /\ Given(Gets(x, TreeAt(p)))
  BY <1>1 DEF CopyConstruct
<1>3. f = Placement(heap, q) /\ c = Copied(heap, q) /\ q = Ptr(p)
  OBVIOUS
<1> HIDE DEF q, f, c
<1>4. /\ IsHeap(c) /\ DOMAIN heap \subseteq DOMAIN c /\ \A a \in DOMAIN heap : c[a] = heap[a]
      /\ f[q] \in Pointer
  BY <1>1, <1>2, <1>3, CopyHeap
<1>5. heap' = Stored(c, x, f[q]) /\ var' = PutVar(var, x, f[q]) /\ x \in Places(c, var)
  BY <1>1, <1>2 DEF Stored, PutVar, Places
<1>6. Keeps(heap, var, c, var, K, {x})
  BY <1>1, <1>4, CopiedKeeps
<1>7. Keeps(c, var, heap', var', DOMAIN c \cap DOMAIN heap', {x})
  BY <1>1, <1>4, <1>5, StoredKeeps
<1>8. Keeps(heap, var, heap', var', K, {x})
  <2>1. Keeps(c, var, heap', var', K, {x})
    BY <1>2, <1>4, <1>7 DEF Keeps
  <2> QED
    BY <1>6, <2>1, KeepsOn
<1>9. Spares(K, {x})
  BY <1>8, SparesAll
<1>10. Held(heap', var', x) = f[q]
  BY <1>1, <1>2 DEF Held
<1> HIDE DEF K
<1> QED
  BY <1>1, <1>2, <1>3, <1>7, <1>9, <1>10, CopyShown

LEMMA CopyAssignShown ==
  ASSUME Inv, Inv', ~AliasedAssign, ~ThrowingAssign,
         NEW d \in Place, NEW s \in Place, CopyAssign(d, s)
  PROVE  Shown'
<1> DEFINE q == Ptr(s)
           h == Deleted(heap, Ptr(d))
           f == Placement(h, q)
           c == Copied(h, q)
           K == DOMAIN h
<1>1. /\ IsHeap(heap) /\ var \in [Register -> Pointer] /\ q \in Pointer /\ DOMAIN var = Register
      /\ d # Null
  BY PlaceFacts DEF Inv
<1>2. d # s /\ ~Nested(d, s) /\ Fits(h, q)
  BY DEF CopyAssign
<1>3. /\ Live(h, q) /\ heap' = Stored(c, d, f[q]) /\ var' = Named(d, f[q])
      /\ Given(Gets(d, TreeAt(s)))
  BY <1>2 DEF CopyAssign, Crash, Inv
<1>4. /\ IsHeap(h) /\ K \subseteq DOMAIN heap /\ d \in Places(h, var)
      /\ \A r \in Places(h, var) : Held(h, var, r) = Held(heap, var, r)
  BY <1>2, EmptiedFacts
<1>5. \A a \in DOMAIN h : h[a] = heap[a]
  BY <1>1, DeletedFacts
<1>6. \A r \in Places(h, var) : r # d => Held(heap, var, r) \in K \cup {Null}
  <2> DEFINE g == Stored(h, d, Null)
             w == PutVar(var, d, Null)
  <2>1. /\ Good(g, w) /\ DOMAIN g = DOMAIN h /\ DOMAIN w = Register
        /\ \A r \in Places(h, var) : Held(g, w, r) = IF r = d THEN Null ELSE Held(h, var, r)
    BY <1>2, EmptiedFacts
  <2> HIDE DEF g, w, h
  <2>2. Places(g, w) = Places(h, var)
    BY <1>1, <2>1 DEF Places
  <2>3. \A r \in Places(g, w) : Held(g, w, r) \in DOMAIN g \cup {Null}
    BY <2>1 DEF Good, NoneDangling
  <2> QED
    BY <1>4, <2>1, <2>2, <2>3
<1>7. Keeps(heap, var, h, var, K, {d})
  BY <1>1, DeletedKeeps
<1>8. f = Placement(h, q) /\ c = Copied(h, q) /\ q = Ptr(s) /\ K = DOMAIN h
  OBVIOUS
<1> HIDE DEF q, f, c, h, K
<1>9. /\ IsHeap(c) /\ DOMAIN h \subseteq DOMAIN c /\ \A a \in DOMAIN h : c[a] = h[a]
      /\ f[q] \in Pointer
  BY <1>1, <1>2, <1>3, <1>4, <1>8, CopyHeap
<1>10. d \in Places(c, var) /\ var' = PutVar(var, d, f[q])
  BY <1>1, <1>3, <1>4, <1>9 DEF Places, Named, PutVar
<1>11. Keeps(h, var, c, var, K, {d})
  BY <1>1, <1>4, <1>8, <1>9, CopiedKeeps
<1>12. DOMAIN heap' = DOMAIN c /\ Held(heap', var', d) = f[q]
  <2>1. IsVar(var)
    BY <1>1 DEF IsVar
  <2> QED
    BY <1>1, <1>3, <1>9, <1>10, <2>1, PutFacts
<1>13. Keeps(c, var, heap', var', DOMAIN c \cap DOMAIN heap', {d})
  BY <1>1, <1>3, <1>9, <1>10, StoredKeeps
<1>14. Keeps(heap, var, heap', var', K, {d})
  <2>1. Keeps(c, var, heap', var', K, {d})
    BY <1>8, <1>9, <1>12, <1>13 DEF Keeps
  <2>2. Keeps(h, var, heap', var', K, {d})
    BY <1>11, <2>1, KeepsOn
  <2> QED
    BY <1>7, <2>2, KeepsOn
<1>15. Spares(K, {d})
  <2>1. Register \cup (K \X Side) \subseteq Places(h, var)
    BY <1>1, <1>8 DEF Places
  <2> QED
    BY <1>6, <1>14, <2>1 DEF Spares
<1> QED
  BY <1>2, <1>3, <1>4, <1>5, <1>8, <1>12, <1>13, <1>15, CopyShown

LEMMA CopyAssignBySwapShown ==
  ASSUME Inv, Inv', NEW d \in Place, NEW s \in Place, CopyAssignBySwap(d, s)
  PROVE  Shown'
<1> DEFINE q == Ptr(s)
           f == Placement(heap, q)
           c == Copied(heap, q)
           g == Stored(c, d, f[q])
           w == PutVar(var, d, f[q])
           K == DOMAIN heap \cap DOMAIN heap'
           N == DOMAIN c \cap DOMAIN heap'
<1>1. /\ IsHeap(heap) /\ var \in [Register -> Pointer] /\ q \in Pointer /\ DOMAIN var = Register
      /\ d \in Places(heap, var) /\ d # Null /\ Live(heap, q) /\ Live(heap, Ptr(d)) /\ IsVar(var)
  BY PlaceFacts DEF Inv
<1>2. /\ Fits(heap, q) /\ heap' = Deleted(g, Ptr(d)) /\ var' = w
      /\ Given(Gets(d, TreeAt(s)))
  BY <1>1 DEF CopyAssignBySwap, Named, PutVar
<1>3. /\ f = Placement(heap, q) /\ c = Copied(heap, q) /\ q = Ptr(s)
      /\ g = Stored(c, d, f[q]) /\ w = PutVar(var, d, f[q])
      /\ K \subseteq DOMAIN heap /\ N = DOMAIN c \cap DOMAIN heap'
      /\ K = DOMAIN heap \cap DOMAIN heap'
  OBVIOUS
<1> HIDE DEF q, f, c, g, w, K, N
<1>4. /\ IsHeap(c) /\ DOMAIN heap \subseteq DOMAIN c /\ \A a \in DOMAIN heap : c[a] = heap[a]
      /\ f[q] \in Pointer
  BY <1>1, <1>2, <1>3, CopyHeap
<1>5. d \in Places(c, var)
  BY <1>1, <1>4 DEF Places
<1>6. /\ IsHeap(g) /\ DOMAIN g = DOMAIN c /\ w \in [Register -> Pointer]
      /\ Held(g, w, d) = f[q]
  <2>1. IsHeap(g) /\ DOMAIN g = DOMAIN c /\ IsVar(w) /\ DOMAIN w = Register /\ Held(g, w, d) = f[q]
    BY <1>1, <1>3, <1>4, <1>5, PutFacts
  <2> QED
    BY <2>1 DEF IsVar
<1>7. Keeps(heap, var, c, var, K, {d})
  BY <1>1, <1>3, <1>4, CopiedKeeps
<1>8. N \subseteq DOMAIN c /\ N = DOMAIN heap' /\ K \subseteq N
  <2>1. DOMAIN heap' \subseteq DOMAIN g
    BY <1>2, <1>6, DeletedHeld
  <2> QED
    BY <1>3, <1>4, <1>6, <2>1
<1>9. Keeps(c, var, g, w, N, {d})
  BY <1>1, <1>3, <1>4, <1>5, <1>8, StoredKeeps
<1>10. Keeps(g, w, heap', var', N, {d})
  <2>1. N \subseteq DOMAIN Deleted(g, Ptr(d))
    BY <1>2, <1>8
  <2>2. Keeps(g, w, Deleted(g, Ptr(d)), w, N, {d})
    BY <1>6, <2>1, DeletedKeeps
  <2> QED
    BY <1>2, <2>2
<1>11. Keeps(c, var, heap', var', N, {d})
  BY <1>9, <1>10, KeepsOn
<1>12. Keeps(heap, var, heap', var', K, {d})
  <2>1. Keeps(c, var, heap', var', K, {d})
    BY <1>8, <1>11 DEF Keeps
  <2> QED
    BY <1>7, <2>1, KeepsOn
<1>13. Spares(K, {d})
  BY <1>3, <1>12, SparesAll
<1>14. d \in Places(heap', var') => Held(heap', var', d) = f[q]
  BY <1>2, <1>6, DeletedHeld
<1>15. /\ d \in Places(heap, var)
       /\ Keeps(c, var, heap', var', DOMAIN c \cap DOMAIN heap', {d})
  BY <1>1, <1>3, <1>11
<1> QED
  BY <1>1, <1>2, <1>3, <1>13, <1>14, <1>15, CopyShown

\* A step that writes no slot keeps the trees of the variables it does not write.
LEMMA KeptTrees ==
  ASSUME Inv, Inv', NEW D, D \subseteq Register, NEW K, K = DOMAIN heap \cap DOMAIN heap',
         Keeps(heap, var, heap', var', K, D), NEW x \in Register, x \notin D
  PROVE  Tree(heap', var'[x], <<>>) = Tree(heap, var[x], <<>>)
<1> DEFINE given == <<>>
<1>1. DOMAIN given = {}
  OBVIOUS
<1>2. Spares(K, D)
  BY SparesAll
<1> HIDE DEF given
<1>3. Tree(heap', var'[x], <<>>) = Tree(heap, var[x], given)
  BY <1>1, <1>2, GivenTrees
<1> QED
  BY <1>3 DEF given

LEMMA NoTree ==
  ASSUME NEW h, NEW v, v \in [Register -> Pointer], Good(h, v)
  PROVE  Tree(h, Null, <<>>) = Null
<1>1. IsHeap(h) /\ Grounded(h) /\ Null \in Pointer /\ Null \notin DOMAIN h
  BY HeapInv
<1> QED
  BY <1>1, TreeFacts

LEMMA DestroyShown ==
  ASSUME Inv, Inv', Shown, NEW x \in Register, Destroy(x)
  PROVE  Shown'
<1> DEFINE K == DOMAIN heap \cap DOMAIN heap'
<1>1. IsHeap(heap) /\ var \in [Register -> Pointer] /\ Live(heap, var[x])
  <2>1. x \in Place /\ Ptr(x) = var[x]
    BY DEF Place, Ptr
  <2> QED
    BY <2>1, PlaceFacts DEF Inv
<1>2. /\ heap' = Deleted(heap, var[x]) /\ var' = [var EXCEPT ![x] = Null]
      /\ term' = [term EXCEPT ![x] = Null]
  BY <1>1 DEF Destroy
<1>3. Keeps(heap, var, heap', var, K, {x})
  BY <1>1, <1>2, DeletedKeeps
<1>4. DOMAIN var = Register /\ DOMAIN var' = Register /\ var'[x] = Null
      /\ \A y \in Register : y # x => var'[y] = var[y]
  BY <1>1, <1>2
<1>5. Keeps(heap, var, heap', var', K, {x})
  BY <1>3, <1>4 DEF Keeps, Held
<1>6. ASSUME NEW y \in Register
      PROVE  Tree(heap', var'[y], <<>>) = term'[y]
  <2>1. CASE y = x
    <3>1. term'[y] = Null /\ var'[y] = Null
      BY <1>2, <1>4, <2>1 DEF Shown
    <3>2. Tree(heap', Null, <<>>) = Null
      BY NoTree DEF Inv
    <3> QED
      BY <3>1, <3>2
  <2>2. CASE y # x
    <3>1. Tree(heap', var'[y], <<>>) = Tree(heap, var[y], <<>>)
      <4>1. {x} \subseteq Register /\ y \notin {x}
        BY <2>2
      <4> QED
        BY <1>5, <4>1, KeptTrees
    <3>2. term'[y] = term[y]
      BY <1>2, <2>2
    <3> QED
      BY <3>1, <3>2 DEF Shown
  <2> QED
    BY <2>1, <2>2
<1> QED
  BY <1>2, <1>6 DEF Shown

LEMMA MakeBoxShown ==
  ASSUME Inv, Inv', Shown, NEW x \in Register, NEW v \in Value,
         NEW y \in Register \cup {Null}, NEW z \in Register \cup {Null}, MakeBox(x, v, y, z)
  PROVE  Shown'
<1> DEFINE l == IF y = Null THEN Null ELSE var[y]
           r == IF z = Null THEN Null ELSE var[z]
           moved == [b \in Register |-> IF b \in {y, z} THEN Null ELSE var[b]]
           taken == [b \in Register |-> IF b \in {y, z} THEN Null ELSE term[b]]
           a == CHOOSE a \in Free(heap) : TRUE
           node == [value |-> v, left |-> l, right |-> r]
           g == [b \in DOMAIN heap \cup {a} |-> IF b = a THEN node ELSE heap[b]]
           tree == [value |-> v, left  |-> IF y = Null THEN Null ELSE term[y],
                                 right |-> IF z = Null THEN Null ELSE term[z]]
           K == DOMAIN heap \cap DOMAIN heap'
           D == {x, y, z} \ {Null}
<1>1. /\ IsHeap(heap) /\ var \in [Register -> Pointer] /\ Null \in Pointer
      /\ Null \notin Register /\ Null \notin Addr /\ DOMAIN heap \subseteq Addr
      /\ DOMAIN var = Register /\ DOMAIN var' = Register /\ D \subseteq Register
  BY AddrAssumption, ClientAssumption, PlaceFacts DEF Inv, Pointer, IsHeap
<1>2. Tree(heap', Null, <<>>) = Null
  BY NoTree DEF Inv
<1>3. l \in DOMAIN heap \cup {Null} /\ r \in DOMAIN heap \cup {Null}
  BY HeapInv DEF Inv
<1>4. /\ Tree(heap, l, <<>>) = tree.left
      /\ Tree(heap, r, <<>>) = tree.right
  BY NoTree DEF Inv, Shown
<1>5. /\ DOMAIN moved = Register /\ DOMAIN taken = Register
      /\ \A b \in Register : /\ moved[b] = IF b \in {y, z} THEN Null ELSE var[b]
                             /\ taken[b] = IF b \in {y, z} THEN Null ELSE term[b]
  OBVIOUS
<1> HIDE DEF moved, taken, tree
<1>6. CASE Free(heap) = {}
  <2> DEFINE h == Deleted(heap, l)
             E == {y, z} \ {Null}
  <2>1. var' = moved /\ heap' = Deleted(h, r) /\ term' = taken
    BY <1>6 DEF MakeBox, moved, taken
  <2>2. IsHeap(h) /\ h = Deleted(heap, l)
    BY <1>1, DeletedFacts
  <2> HIDE DEF h, l, r
  <2>3. DOMAIN heap' \subseteq DOMAIN h
    BY <2>1, <2>2, DeletedHeld
  <2>4. Keeps(heap, var, h, var, K, E)
    BY <1>1, <2>2, <2>3, DeletedKeeps
  <2>5. Keeps(h, var, heap', var, K, E)
    BY <1>1, <2>1, <2>2, DeletedKeeps
  <2>6. Keeps(heap, var, heap', var, K, E)
    BY <2>4, <2>5, KeepsOn
  <2>7. Keeps(heap, var, heap', var', K, E)
    BY <1>1, <1>5, <2>1, <2>6 DEF Keeps, Held
  <2>8. ASSUME NEW b \in Register
        PROVE  Tree(heap', var'[b], <<>>) = term'[b]
    <3>1. CASE b \in {y, z}
      BY <1>2, <1>5, <2>1, <3>1
    <3>2. CASE b \notin {y, z}
      <4>1. Tree(heap', var'[b], <<>>) = Tree(heap, var[b], <<>>)
        <5>1. E \subseteq Register /\ b \notin E
          BY <1>1, <3>2
        <5> HIDE DEF E
        <5> QED
          BY <2>7, <5>1, KeptTrees
      <4> QED
        BY <1>5, <2>1, <3>2, <4>1 DEF Shown
    <3> QED
      BY <3>1, <3>2
  <2> QED
    BY <1>5, <2>1, <2>8 DEF Shown
<1>7. CASE Free(heap) # {}
  <2>1. a \in Addr \ DOMAIN heap
    BY <1>7 DEF Free
  <2>2. /\ heap' = Deleted(g, moved[x]) /\ var' = [moved EXCEPT ![x] = a]
        /\ term' = [taken EXCEPT ![x] = tree]
    BY <1>7 DEF MakeBox, moved, taken, tree
  <2> HIDE DEF a
  <2>3. /\ DOMAIN g = DOMAIN heap \cup {a} /\ g[a] = node
        /\ \A b \in DOMAIN heap : g[b] = heap[b]
    BY <2>1
  <2>4. IsHeap(g)
    <3>1. node \in [value : Value, left : Pointer, right : Pointer]
      BY <1>1
    <3> HIDE DEF node
    <3>2. g \in [DOMAIN heap \cup {a} -> [value : Value, left : Pointer, right : Pointer]]
      BY <1>1, <3>1 DEF IsHeap
    <3> QED
      BY <1>1, <2>1, <3>2 DEF IsHeap
  <2>5. /\ DOMAIN heap' \subseteq DOMAIN g
        /\ \A b \in DOMAIN heap' : heap'[b] = g[b]
    <3> HIDE DEF g
    <3>1. /\ DOMAIN Deleted(g, moved[x]) \subseteq DOMAIN g
          /\ \A b \in DOMAIN Deleted(g, moved[x]) : Deleted(g, moved[x])[b] = g[b]
      BY <2>4, DeletedFacts
    <3> QED
      BY <2>2, <3>1
  <2>6. g[a].value = v /\ g[a].left = l /\ g[a].right = r
    BY <2>3
  <2> HIDE DEF g, node, l, r
  <2>7. \A b \in Register : var'[b] = IF b = x THEN a ELSE moved[b]
    BY <1>5, <2>2
  <2>8. \A b \in Register : term'[b] = IF b = x THEN tree ELSE taken[b]
    BY <1>5, <2>2
  <2>9. Keeps(heap, var, heap', var', K, D)
    BY <1>1, <1>5, <2>3, <2>5, <2>7 DEF Keeps, Held
  <2>10. a \in DOMAIN heap'
    <3>1. var'[x] \in DOMAIN heap' \cup {Null}
      BY HeapInv DEF Inv
    <3> QED
      BY <1>1, <2>1, <2>7, <3>1
  <2>11. /\ heap'[a].value = v /\ heap'[a].left = l /\ heap'[a].right = r
         /\ l \in DOMAIN heap' \cup {Null} /\ r \in DOMAIN heap' \cup {Null}
    <3>1. heap'[a].value = v /\ heap'[a].left = l /\ heap'[a].right = r
      BY <2>5, <2>6, <2>10
    <3>2. \A s \in Side : heap'[a][s] \in DOMAIN heap' \cup {Null}
      BY <2>10, HeapInv DEF Inv
    <3> QED
      BY <3>1, <3>2 DEF Side
  <2>12. Tree(heap', l, <<>>) = Tree(heap, l, <<>>) /\ Tree(heap', r, <<>>) = Tree(heap, r, <<>>)
    <3>1. D \cap (Visited(heap, l) \X Side) = {} /\ D \cap (Visited(heap, r) \X Side) = {}
      <4>1. Visited(heap, l) \subseteq Addr /\ Visited(heap, r) \subseteq Addr
        BY <1>1, <1>3, VisitedFacts DEF Pointer
      <4>2. Register \cap (Addr \X Side) = {}
        BY AddrAssumption
      <4> QED
        BY <1>1, <4>1, <4>2
    <3> HIDE DEF D
    <3> QED
      BY <1>3, <2>9, <2>11, <3>1, SparedTree
  <2>13. Tree(heap', a, <<>>) = tree
    <3> DEFINE none == <<>>
    <3>1. IsHeap(heap') /\ Grounded(heap')
      BY HeapInv DEF Inv
    <3>2. DOMAIN none = {}
      OBVIOUS
    <3> HIDE DEF none
    <3>3. /\ Branch(heap', none, a, "left") = Tree(heap', heap'[a].left, none)
          /\ Branch(heap', none, a, "right") = Tree(heap', heap'[a].right, none)
      BY <3>2 DEF Branch
    <3>4. Tree(heap', a, none) = [value |-> heap'[a].value,
                                  left  |-> Branch(heap', none, a, "left"),
                                  right |-> Branch(heap', none, a, "right")]
      BY <2>10, <3>1, TreeFacts
    <3>5. Tree(heap', a, none) = [value |-> v, left |-> tree.left, right |-> tree.right]
      BY <1>4, <2>11, <2>12, <3>3, <3>4 DEF none
    <3>6. tree = [value |-> v, left |-> tree.left, right |-> tree.right]
      BY DEF tree
    <3> QED
      BY <3>5, <3>6 DEF none
  <2>14. ASSUME NEW b \in Register
         PROVE  Tree(heap', var'[b], <<>>) = term'[b]
    <3>1. CASE b = x
      BY <2>7, <2>8, <2>13, <3>1
    <3>2. CASE b # x /\ b \in {y, z}
      BY <1>2, <1>5, <2>7, <2>8, <3>2
    <3>3. CASE b \notin D
      <4>1. b \notin {x, y, z}
        BY <1>1, <3>3
      <4>2. Tree(heap', var'[b], <<>>) = Tree(heap, var[b], <<>>)
        BY <1>1, <2>9, <3>3, KeptTrees
      <4> QED
        BY <1>5, <2>8, <4>1, <4>2 DEF Shown
    <3> QED
      BY <1>1, <3>1, <3>2, <3>3
  <2> QED
    BY <1>5, <2>2, <2>14 DEF Shown
<1> QED
  BY <1>6, <1>7

\* The variables hold disjoint trees.
LEMMA DisjointTrees ==
  ASSUME Inv, NEW x \in Register, NEW y \in Register, x # y
  PROVE  Visited(heap, var[x]) \cap Visited(heap, var[y]) = {}
<1> DEFINE Z == Below(heap, var, x) \cap Below(heap, var, y)
<1>1. /\ Good(heap, var) /\ DOMAIN var = Register /\ Register \cap (Addr \X Side) = {}
      /\ DOMAIN heap \subseteq Addr
  BY AddrAssumption DEF Inv, Good, IsHeap
<1>2. /\ x \in Places(heap, var) /\ Held(heap, var, x) = var[x]
      /\ y \in Places(heap, var) /\ Held(heap, var, y) = var[y]
  BY <1>1 DEF Places, Held
<1>3. ASSUME Z # {}
      PROVE  FALSE
  <2>1. Below(heap, var, x) \subseteq DOMAIN heap /\ Below(heap, var, y) \subseteq DOMAIN heap
    BY <1>1, <1>2, BelowFacts
  <2>2. PICK p \in Places(heap, var) \ (Z \X Side) : Held(heap, var, p) \in Z
    <3>1. Z \in SUBSET DOMAIN heap
      BY <2>1
    <3> QED
      BY <1>1, <1>3, <3>1 DEF Good, Rooted
  <2>3. p = x \/ p \in Below(heap, var, x) \X Side
    BY <1>1, <1>2, <2>2, BelowFacts
  <2>4. p = y \/ p \in Below(heap, var, y) \X Side
    BY <1>1, <1>2, <2>2, BelowFacts
  <2> QED
    BY <1>1, <2>1, <2>2, <2>3, <2>4
<1> QED
  BY <1>2, <1>3 DEF Below

LEMMA SetValueShown ==
  ASSUME Inv, Inv', Shown,
         NEW x \in Register, NEW a \in DOMAIN heap, NEW v \in Value, SetValue(x, a, v)
  PROVE  Shown'
<1>1. /\ IsHeap(heap) /\ DOMAIN heap \subseteq Pointer /\ Null \in Pointer /\ Null \notin Addr
      /\ \A b \in DOMAIN heap : \A s \in Side : heap[b][s] \in DOMAIN heap \cup {Null}
      /\ \A y \in Register : var[y] \in DOMAIN heap \cup {Null}
  BY HeapInv, AddrAssumption DEF Inv
<1>2. /\ a \in Visited(heap, var[x]) /\ heap' = [heap EXCEPT ![a].value = v] /\ var' = var
      /\ term' = [term EXCEPT ![x] = Tree(heap', var[x], <<>>)]
  BY DEF SetValue
<1>3. /\ DOMAIN heap' = DOMAIN heap
      /\ \A b \in DOMAIN heap : b # a => heap'[b] = heap[b]
      /\ \A b \in DOMAIN heap : \A s \in Side : heap'[b][s] = heap[b][s]
  <2> DEFINE n == [heap[a] EXCEPT !.value = v]
  <2>1. heap' = [heap EXCEPT ![a] = n]
    BY <1>2
  <2>2. heap[a] \in [value : Value, left : Pointer, right : Pointer]
    BY <1>1 DEF IsHeap
  <2>3. n.left = heap[a].left /\ n.right = heap[a].right
    BY <2>2
  <2> HIDE DEF n
  <2>4. \A s \in Side : n[s] = heap[a][s]
    BY <2>3 DEF Side
  <2> QED
    BY <2>1, <2>4
<1>4. ASSUME NEW y \in Register
      PROVE  Tree(heap', var'[y], <<>>) = term'[y]
  <2>1. CASE y = x
    BY <1>2, <2>1 DEF Shown
  <2>2. CASE y # x
    <3> DEFINE f == [b \in Pointer |-> b]
               V == Visited(heap, var[y])
    <3>1. V \subseteq DOMAIN heap /\ a \notin V
      <4>1. y \in Place /\ Ptr(y) = var[y]
        BY DEF Place, Ptr
      <4>2. V \subseteq DOMAIN heap
        BY <4>1, PlaceFacts DEF Live
      <4> QED
        BY <1>2, <2>2, <4>2, DisjointTrees
    <3>2. \A b \in Pointer : f[b] = b
      OBVIOUS
    <3> HIDE DEF f, V
    <3>3. /\ f[Null] = Null /\ f[var[y]] = var[y]
          /\ \A b \in V : f[b] = b /\ \A s \in Side : f[heap[b][s]] = heap[b][s]
      BY <1>1, <3>1, <3>2
    <3>4. \A b \in V : f[b] # Null
      BY <1>1, <3>1, <3>3 DEF IsHeap
    <3>5. ASSUME NEW b \in V
          PROVE  heap'[f[b]].value = heap[b].value /\ \A s \in Side : heap'[f[b]][s] = f[heap[b][s]]
      <4>1. b \in DOMAIN heap /\ b # a /\ f[b] = b
        BY <3>1, <3>3
      <4> QED
        BY <1>3, <3>3, <4>1
    <3>6. Carries(f, var[y])
      BY <1>1, <1>3, <3>3, <3>4, <3>5 DEF Carries, V
    <3>7. Tree(heap', f[var[y]], <<>>) = Tree(heap, var[y], <<>>)
      BY <1>1, <3>6, CarriedTree
    <3>8. term'[y] = term[y]
      BY <1>2, <2>2
    <3> QED
      BY <1>2, <3>3, <3>7, <3>8 DEF Shown
  <2> QED
    BY <2>1, <2>2
<1> QED
  BY <1>2, <1>4 DEF Shown

-----------------------------------------------------------------------------
(* The results.                                                             *)

LEMMA InvInit ==
  ASSUME Init
  PROVE  Inv
<1> DEFINE h == << >>
           v == [x \in Register |-> Null]
<1>1. heap = h /\ var = v /\ fault = FALSE
  BY DEF Init
<1>2. DOMAIN h = {} /\ h \in [{} -> [value : Value, left : Pointer, right : Pointer]]
  OBVIOUS
<1>3. DOMAIN v = Register /\ v \in [Register -> Pointer] /\ \A x \in Register : v[x] = Null
  BY DEF Pointer
<1> HIDE DEF h, v
<1>4. IsHeap(h)
  BY <1>2 DEF IsHeap
<1>5. Places(h, v) = Register /\ \A p \in Register : Held(h, v, p) = Null
  BY <1>2, <1>3 DEF Places, Held
<1>6. Good(h, v)
  BY <1>2, <1>3, <1>4, <1>5, AddrAssumption DEF Good, NoneDangling, HeldOnce, Rooted
<1> QED
  BY <1>1, <1>3, <1>6 DEF Inv

LEMMA CommonStep ==
  ASSUME Inv, Common
  PROVE  Inv'
BY MakeBoxStep, CopyConstructStep, MoveConstructStep, DestroyStep, SetValueStep DEF Common

LEMMA InvOwned ==
  ASSUME Inv
  PROVE  Owned
<1>1. /\ IsHeap(heap) /\ Good(heap, var) /\ DOMAIN var = Register /\ Null \notin DOMAIN heap
      /\ Place = Places(heap, var) /\ \A p \in Place : Ptr(p) = Held(heap, var, p)
      /\ var \in [Register -> Pointer] /\ ~fault
  BY PlaceFacts, AddrAssumption DEF Inv, IsHeap
<1>2. \A p \in Place : Ptr(p) \in DOMAIN heap \cup {Null}
  BY <1>1 DEF Good, NoneDangling
<1>3. ASSUME NEW a \in DOMAIN heap
      PROVE  Cardinality({p \in Place : Ptr(p) = a}) = 1
  <2>1. {a} \in SUBSET DOMAIN heap /\ {a} # {}
    OBVIOUS
  <2>2. PICK p \in Place : Ptr(p) = a
    BY <1>1, <2>1 DEF Good, Rooted
  <2>3. {r \in Place : Ptr(r) = a} = {p}
    BY <1>1, <2>2 DEF Good, HeldOnce
  <2> QED
    BY <2>3, FS_Singleton
<1>4. DOMAIN heap = UNION {Visited(heap, var[x]) : x \in Register}
  <2> DEFINE R == UNION {Visited(heap, var[x]) : x \in Register}
             Z == DOMAIN heap \ R
  <2>1. ASSUME NEW x \in Register
        PROVE  /\ x \in Places(heap, var) /\ Held(heap, var, x) = var[x]
               /\ Visited(heap, var[x]) \subseteq DOMAIN heap
               /\ Closed(heap, Visited(heap, var[x]))
               /\ var[x] \in Visited(heap, var[x]) \cup {Null}
    <3>1. x \in Places(heap, var) /\ Held(heap, var, x) = var[x]
      BY <1>1 DEF Places, Held
    <3> QED
      BY <1>1, <3>1, BelowFacts DEF Below
  <2>2. R \subseteq DOMAIN heap
    BY <2>1
  <2>3. Z = {}
    <3> SUFFICES ASSUME Z # {}
                 PROVE  FALSE
      OBVIOUS
    <3>1. Z \in SUBSET DOMAIN heap
      OBVIOUS
    <3>2. PICK p \in Places(heap, var) \ (Z \X Side) : Held(heap, var, p) \in Z
      BY <1>1, <3>1 DEF Good, Rooted
    <3>3. CASE p \in Register
      BY <1>1, <2>1, <3>2, <3>3
    <3>4. CASE p \notin Register
      <4>1. PICK b \in DOMAIN heap, k \in Side : p = <<b, k>>
        BY <1>1, <3>2, <3>4 DEF Places
      <4>2. PICK x \in Register : b \in Visited(heap, var[x])
        BY <3>2, <4>1
      <4>3. Held(heap, var, p) = heap[b][k]
        BY <1>1, <4>1, SlotFacts DEF Good
      <4>4. heap[b][k] \in Visited(heap, var[x])
        BY <1>1, <2>1, <3>2, <4>2, <4>3 DEF Closed
      <4> QED
        BY <3>2, <4>3, <4>4
    <3> QED
      BY <3>3, <3>4
  <2> QED
    BY <2>2, <2>3
<1> QED
  BY <1>1, <1>2, <1>3, <1>4 DEF Owned

\* box.hpp:40-60: while clients assign neither between a tree and a part of it
\* nor a copy that memory does not suffice for, every node has exactly one
\* owner, nothing leaks and no destroyed object is used.
THEOREM BoxOwned ==
  ASSUME ~AliasedAssign, ~ThrowingAssign
  PROVE  Spec => []Owned
<1>1. Init => Inv
  BY InvInit
<1>2. Inv /\ [Next]_vars => Inv'
  <2>1. ASSUME Inv, Next
        PROVE  Inv'
    BY <2>1, CommonStep, CopyAssignStep, MoveAssignStep DEF Next
  <2>2. ASSUME Inv, UNCHANGED vars
        PROVE  Inv'
    BY <2>2 DEF Inv, vars, Good, NoneDangling, HeldOnce, Rooted, Places, Held
  <2> QED
    BY <2>1, <2>2
<1>3. Inv => Owned
  BY InvOwned
<1> QED
  BY <1>1, <1>2, <1>3, PTL DEF Spec

\* examples/fixpoint_tree_example.cpp:23-26: with the assignment that takes its
\* operand by value and swaps, the same holds while clients move no tree into a
\* part of itself.  They may copy between a tree and its parts, move a part of a
\* tree up to it, assign a box to itself, and make copies that throw.
THEOREM SwapBoxOwned ==
  ASSUME ~SelfMove
  PROVE  Init /\ [][SwapNext]_vars => []Owned
<1>1. Init => Inv
  BY InvInit
<1>2. Inv /\ [SwapNext]_vars => Inv'
  <2>1. ASSUME Inv, SwapNext
        PROVE  Inv'
    BY <2>1, CommonStep, CopyAssignBySwapStep, MoveAssignBySwapStep DEF SwapNext
  <2>2. ASSUME Inv, UNCHANGED vars
        PROVE  Inv'
    BY <2>2 DEF Inv, vars, Good, NoneDangling, HeldOnce, Rooted, Places, Held
  <2> QED
    BY <2>1, <2>2
<1>3. Inv => Owned
  BY InvOwned
<1> QED
  BY <1>1, <1>2, <1>3, PTL
-----------------------------------------------------------------------------
LEMMA ShownInit ==
  ASSUME Init
  PROVE  Shown
<1>1. Inv /\ DOMAIN term = Register /\ \A x \in Register : var[x] = Null /\ term[x] = Null
  BY InvInit DEF Init
<1>2. Tree(heap, Null, <<>>) = Null
  BY <1>1, NoTree DEF Inv
<1> QED
  BY <1>1, <1>2 DEF Shown

LEMMA CommonShown ==
  ASSUME Inv, Inv', Shown, Common
  PROVE  Shown'
BY MakeBoxShown, CopyConstructShown, MoveConstructShown, DestroyShown, SetValueShown DEF Common

LEMMA ShownValues ==
  ASSUME Inv, Shown
  PROVE  ValueSemantics
BY DEF Inv, Shown, ValueSemantics, TreeAt, Ptr

\* box.hpp:20, "owning pointer with deep-copy value semantics": while clients
\* assign neither between a tree and a part of it nor a copy that memory does not
\* suffice for, every variable holds the tree its client gave it, whatever is
\* copied, moved, changed or destroyed elsewhere.
THEOREM BoxValueSemantics ==
  ASSUME ~AliasedAssign, ~ThrowingAssign
  PROVE  Spec => []ValueSemantics
<1>1. Init => Inv /\ Shown
  BY InvInit, ShownInit
<1>2. Inv /\ Shown /\ [Next]_vars => Inv' /\ Shown'
  <2>1. ASSUME Inv, Shown, Next
        PROVE  Inv' /\ Shown'
    <3>1. Inv'
      BY <2>1, CommonStep, CopyAssignStep, MoveAssignStep DEF Next
    <3> QED
      BY <2>1, <3>1, CommonShown, CopyAssignShown, MoveAssignShown DEF Next
  <2>2. ASSUME Inv, Shown, UNCHANGED vars
        PROVE  Inv' /\ Shown'
    BY <2>2 DEF Inv, Shown, vars, Good, NoneDangling, HeldOnce, Rooted, Places, Held
  <2> QED
    BY <2>1, <2>2
<1>3. Inv /\ Shown => ValueSemantics
  BY ShownValues
<1> QED
  BY <1>1, <1>2, <1>3, PTL DEF Spec

\* examples/fixpoint_tree_example.cpp:23-26: with the assignment that takes its
\* operand by value and swaps, the same holds while clients move no tree into a
\* part of itself: after a copy between a tree and a part of it, either way, both
\* are what they should be, and a copy that throws changes no tree.
THEOREM SwapBoxValueSemantics ==
  ASSUME ~SelfMove
  PROVE  Init /\ [][SwapNext]_vars => []ValueSemantics
<1>1. Init => Inv /\ Shown
  BY InvInit, ShownInit
<1>2. Inv /\ Shown /\ [SwapNext]_vars => Inv' /\ Shown'
  <2>1. ASSUME Inv, Shown, SwapNext
        PROVE  Inv' /\ Shown'
    <3>1. Inv'
      BY <2>1, CommonStep, CopyAssignBySwapStep, MoveAssignBySwapStep DEF SwapNext
    <3> QED
      BY <2>1, <3>1, CommonShown, CopyAssignBySwapShown, MoveAssignBySwapShown DEF SwapNext
  <2>2. ASSUME Inv, Shown, UNCHANGED vars
        PROVE  Inv' /\ Shown'
    BY <2>2 DEF Inv, Shown, vars, Good, NoneDangling, HeldOnce, Rooted, Places, Held
  <2> QED
    BY <2>1, <2>2
<1>3. Inv /\ Shown => ValueSemantics
  BY ShownValues
<1> QED
  BY <1>1, <1>2, <1>3, PTL
=============================================================================
