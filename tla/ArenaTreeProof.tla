--------------------------- MODULE ArenaTreeProof ---------------------------
(***************************************************************************)
(* Arenas of at most MaxNodes < IndexSpace nodes stay well formed and      *)
(* denote the trees their clients built, for every number of registers,    *)
(* every width of the index and every sequence of operations that does not *)
(* read a moved-from tree.                                                 *)
(***************************************************************************)
EXTENDS ArenaTree, ProofLemmas, SequenceTheorems, TLAPS

USE IndexAssumption

LEMMA CastInRange == \A n \in 0..npos : Cast(n) = n
  BY DEF Cast, npos

LEMMA NposType == npos \in Index /\ npos \in Nat /\ npos >= 1
  BY DEF npos, Index

\* An absorbed index moves up by the offset, the sentinel stays.
Shift(child, offset) == IF child = npos THEN npos ELSE child + offset

\* How node(v, l, r) lays out its nodes: those of l, those of r moved up,
\* and the new root over both roots.
LEMMA NodeArenaLayout ==
  ASSUME NEW v \in Value, NEW l \in Arena, NEW r \in Arena,
         WellFormedArena(l), WellFormedArena(r),
         Size(l) + Size(r) + 1 <= npos
  PROVE  LET t == NodeArena(v, l, r)
             a == Size(l)
             b == Size(r)
         IN  /\ t \in Arena
             /\ Size(t) = a + b + 1
             /\ t.root = a + b
             /\ \A i \in 0..a - 1 : At(t, i) = At(l, i)
             /\ \A i \in 0..b - 1 :
                   At(t, a + i) = [value |-> At(r, i).value,
                                   left  |-> Shift(At(r, i).left, a),
                                   right |-> Shift(At(r, i).right, a)]
             /\ At(t, a + b) = [value |-> v, left |-> l.root, right |-> Shift(r.root, a)]
<1> DEFINE t == NodeArena(v, l, r)
           a == Size(l)
           b == Size(r)
           lefts == AbsorbedNodes(<<>>, l)
           both == AbsorbedNodes(lefts, r)
           shifted == [i \in 1..b |-> RebaseNode(r.nodes[i], a)]
           top == [value |-> v, left |-> l.root, right |-> Shift(r.root, a)]
<1>1. /\ l.nodes \in Seq(Node) /\ r.nodes \in Seq(Node) /\ l.root \in Index /\ r.root \in Index
      /\ a = Len(l.nodes) /\ b = Len(r.nodes) /\ Size(l) = a /\ Size(r) = b
  BY DEF Arena, Size
<1>0. a \in Nat /\ b \in Nat
  BY <1>1
<1>2. a + b + 1 <= npos
  OBVIOUS
<1>3. t = [nodes |-> Append(both, [value |-> v, left |-> AbsorbedRoot(<<>>, l),
                                   right |-> AbsorbedRoot(lefts, r)]),
           root |-> Cast(Len(Append(both, [value |-> v, left |-> AbsorbedRoot(<<>>, l),
                                           right |-> AbsorbedRoot(lefts, r)])) - 1)]
  BY DEF NodeArena
<1>4. shifted = [i \in 1..b |-> RebaseNode(r.nodes[i], a)]
  OBVIOUS
<1> HIDE DEF t, a, b, lefts, both, shifted, top
<1>5. /\ l.root = IF a = 0 THEN npos ELSE a - 1
      /\ r.root = IF b = 0 THEN npos ELSE b - 1
  <2>1. (l.nodes = <<>> <=> a = 0) /\ (r.nodes = <<>> <=> b = 0)
    BY <1>1, <1>0, EmptySeq
  <2> QED
    BY <1>1, <2>1 DEF WellFormedArena
<1>6. npos \in Nat /\ a <= npos /\ b <= npos /\ a + b <= npos
  BY <1>0, <1>2, NposType
<1>7. Cast(0) = 0 /\ Cast(a) = a /\ Cast(a + b) = a + b
  BY <1>0, <1>6, CastInRange
<1>8. (IsEmpty(l) <=> a = 0) /\ (IsEmpty(r) <=> b = 0)
  BY <1>0, <1>5, <1>6 DEF IsEmpty
<1>9. \A c \in Index : c \in 0..npos
  BY DEF Index, npos
<1>10. ASSUME NEW i \in 1..a PROVE RebaseNode(l.nodes[i], 0) = l.nodes[i]
  <2>1. l.nodes[i] \in Node
    BY <1>1
  <2>2. \A c \in Index : Rebase(c, 0) = c
    <3> TAKE c \in Index
    <3>1. c \in 0..npos /\ c + 0 = c
      BY <1>9, NposType
    <3>2. Cast(c + 0) = c
      BY <3>1, CastInRange
    <3> QED
      BY <3>2 DEF Rebase
  <2> QED
    BY <2>1, <2>2 DEF RebaseNode, Node
<1>11. lefts = l.nodes
  <2>1. CASE a = 0
    <3>1. l.nodes = <<>>
      BY <1>1, <2>1, EmptySeq
    <3> QED
      BY <1>8, <2>1, <3>1 DEF lefts, AbsorbedNodes
  <2>2. CASE a # 0
    <3>1. lefts = <<>> \o [i \in 1..Size(l) |-> RebaseNode(l.nodes[i], Cast(Len(<<>>)))]
      BY <1>8, <2>2 DEF lefts, AbsorbedNodes
    <3>2. Cast(Len(<<>>)) = 0
      BY <1>7
    <3>3. [i \in 1..a |-> RebaseNode(l.nodes[i], 0)] = l.nodes
      <4>1. l.nodes = [i \in 1..a |-> l.nodes[i]]
        BY <1>1
      <4> QED
        BY <1>10, <4>1
    <3> QED
      <4>1. lefts = <<>> \o l.nodes
        <5>1. Size(l) = a
          BY <1>1
        <5>2. lefts = <<>> \o [i \in 1..a |-> RebaseNode(l.nodes[i], 0)]
          BY <3>1, <3>2, <5>1
        <5> QED
          BY <3>3, <5>2, Zenon
      <4>2. l.nodes \in Seq(Node)
        BY <1>1
      <4> QED
        BY <4>1, <4>2, ConcatEmptySeq
  <2> QED
    BY <2>1, <2>2
<1>12. AbsorbedRoot(<<>>, l) = l.root
  <2>1. CASE a = 0
    BY <1>5, <1>8, <2>1 DEF AbsorbedRoot
  <2>2. CASE a # 0
    <3>1. l.root \in 0..npos /\ l.root + 0 = l.root
      <4>1. l.root \in Index
        BY <1>1
      <4> QED
        <5>1. l.root \in 0..npos
          BY <4>1, <1>9
        <5> QED
          BY <5>1, NposType
    <3>2. Cast(l.root + 0) = l.root
      BY <3>1, CastInRange
    <3> QED
      BY <1>7, <1>8, <2>2, <3>2 DEF AbsorbedRoot
  <2> QED
    BY <2>1, <2>2
<1>13. AbsorbedRoot(lefts, r) = Shift(r.root, a)
  <2>1. CASE b = 0
    BY <1>5, <1>8, <2>1 DEF AbsorbedRoot, Shift
  <2>2. CASE b # 0
    <3>1. AbsorbedRoot(lefts, r) = Cast(r.root + a)
      BY <1>1, <1>7, <1>8, <1>11, <2>2 DEF AbsorbedRoot
    <3>2. r.root = b - 1 /\ r.root + a \in 0..npos /\ r.root # npos
      BY <1>0, <1>2, <1>5, <1>6, <2>2
    <3>3. Cast(r.root + a) = r.root + a
      BY <3>2, CastInRange
    <3> QED
      BY <3>1, <3>2, <3>3 DEF Shift
  <2> QED
    BY <2>1, <2>2
<1>14. ASSUME NEW i \in 1..b
       PROVE  /\ RebaseNode(r.nodes[i], a) = [value |-> r.nodes[i].value,
                                              left  |-> Shift(r.nodes[i].left, a),
                                              right |-> Shift(r.nodes[i].right, a)]
              /\ RebaseNode(r.nodes[i], a) \in Node
  <2>0. i \in Nat /\ i >= 1 /\ i <= b /\ i - 1 \in 0..b - 1 /\ i - 1 + 1 = i
    BY <1>0
  <2>1. r.nodes[i] \in Node /\ i - 1 \in 0..b - 1 /\ At(r, i - 1) = r.nodes[i]
    BY <1>1, <2>0 DEF At
  <2>2. \A s \in Side : Child(r, i - 1, s) = npos \/ Child(r, i - 1, s) < i - 1
    BY <1>1, <2>1 DEF WellFormedArena
  <2>3. /\ r.nodes[i].left \in Index /\ (r.nodes[i].left = npos \/ r.nodes[i].left < i - 1)
        /\ r.nodes[i].right \in Index /\ (r.nodes[i].right = npos \/ r.nodes[i].right < i - 1)
    BY <2>1, <2>2 DEF Side, Child, Node
  <2>4. ASSUME NEW c \in Index, c = npos \/ c < i - 1
        PROVE  Rebase(c, a) = Shift(c, a) /\ Rebase(c, a) \in Index
    <3>1. CASE c = npos
      BY <3>1, NposType DEF Rebase, Shift
    <3>2. CASE c # npos
      <4>1. c \in Nat /\ c + a \in 0..npos
        BY <1>0, <1>6, <1>9, <2>0, <2>4, <3>2, NposType
      <4>2. Cast(c + a) = c + a /\ c + a \in Index
        BY <4>1, CastInRange DEF Index, npos
      <4> QED
        BY <3>2, <4>2 DEF Rebase, Shift
    <3> QED
      BY <3>1, <3>2
  <2>5. /\ Rebase(r.nodes[i].left, a) = Shift(r.nodes[i].left, a)
        /\ Rebase(r.nodes[i].left, a) \in Index
        /\ Rebase(r.nodes[i].right, a) = Shift(r.nodes[i].right, a)
        /\ Rebase(r.nodes[i].right, a) \in Index
    BY <2>3, <2>4
  <2> QED
    BY <2>1, <2>5 DEF RebaseNode, Node
<1>15. shifted \in Seq(Node) /\ Len(shifted) = b
  <2>1. shifted \in [1..b -> Node]
    BY <1>4, <1>14
  <2> QED
    BY <1>0, <2>1
<1>16. both = l.nodes \o shifted
  <2>1. CASE b = 0
    <3>1. shifted = <<>>
      BY <1>15, <2>1, EmptySeq
    <3> QED
      BY <1>1, <1>8, <1>11, <2>1, <3>1, ConcatEmptySeq DEF both, AbsorbedNodes
  <2>2. CASE b # 0
    <3>1. Cast(Len(lefts)) = a
      BY <1>1, <1>7, <1>11
    <3>2. both = lefts \o [i \in 1..Size(r) |-> RebaseNode(r.nodes[i], Cast(Len(lefts)))]
      BY <1>8, <2>2 DEF both, AbsorbedNodes
    <3> QED
      BY <1>1, <1>4, <1>11, <3>1, <3>2
  <2> QED
    BY <2>1, <2>2
<1>17. top = [value |-> v, left |-> l.root, right |-> Shift(r.root, a)]
  BY <1>1 DEF top
<1>18. top \in Node
  <2>1. Shift(r.root, a) \in Index
    <3>1. CASE r.root = npos
      BY <3>1, NposType DEF Shift
    <3>2. CASE r.root # npos
      BY <1>0, <1>2, <1>5, <1>6, <3>2 DEF Shift, Index, npos
    <3> QED
      BY <3>1, <3>2
  <2> QED
    BY <1>1, <1>17, <2>1 DEF Node
<1>19. /\ both \in Seq(Node) /\ Len(both) = a + b
       /\ \A i \in 1..a + b : both[i] = IF i <= a THEN l.nodes[i] ELSE shifted[i - a]
  <2>1. l.nodes \in Seq(Node) /\ Len(l.nodes) = a
    BY <1>1
  <2>2. /\ l.nodes \o shifted \in Seq(Node)
        /\ Len(l.nodes \o shifted) = Len(l.nodes) + Len(shifted)
        /\ \A i \in 1..Len(l.nodes) + Len(shifted) :
              (l.nodes \o shifted)[i] =
                 IF i <= Len(l.nodes) THEN l.nodes[i] ELSE shifted[i - Len(l.nodes)]
    BY <1>15, <2>1, ConcatProperties
  <2> QED
    BY <1>15, <1>16, <2>1, <2>2
<1>20. /\ Append(both, top) \in Seq(Node) /\ Len(Append(both, top)) = a + b + 1
       /\ \A i \in 1..a + b : Append(both, top)[i] = both[i]
       /\ Append(both, top)[a + b + 1] = top
  <2>1. \A i \in 1..Len(both) : Append(both, top)[i] = both[i]
    BY <1>18, <1>19, AppendProperties
  <2>2. /\ Append(both, top) \in Seq(Node) /\ Len(Append(both, top)) = Len(both) + 1
        /\ Append(both, top)[Len(both) + 1] = top
    BY <1>18, <1>19, AppendProperties
  <2> QED
    BY <1>19, <2>1, <2>2
<1>21. t = [nodes |-> Append(both, top), root |-> Cast(Len(Append(both, top)) - 1)]
  BY <1>3, <1>12, <1>13, <1>17
<1>22. t.nodes = Append(both, top) /\ t.root = a + b
  <2>1. a + b + 1 - 1 = a + b
    BY <1>0
  <2> QED
    <3>1. Len(Append(both, top)) - 1 = a + b
      <4>1. Len(Append(both, top)) = a + b + 1
        BY <1>20
      <4> QED
        BY <1>0, <4>1
    <3>2. t.nodes = Append(both, top) /\ t.root = Cast(Len(Append(both, top)) - 1)
      BY <1>21
    <3> QED
      BY <1>7, <3>1, <3>2
<1>23. t \in Arena /\ Size(t) = a + b + 1
  <2>1. a + b \in Index
    BY <1>0, <1>6 DEF Index, npos
  <2> QED
    BY <1>20, <1>21, <1>22, <2>1 DEF Arena, Size
<1>24. ASSUME NEW i \in 0..a - 1 PROVE At(t, i) = At(l, i)
  <2>1. i + 1 \in 1..a + b /\ i + 1 <= a
    BY <1>0
  <2> QED
    BY <1>19, <1>20, <1>22, <2>1 DEF At
<1>25. ASSUME NEW i \in 0..b - 1
       PROVE  At(t, a + i) = [value |-> At(r, i).value,
                              left  |-> Shift(At(r, i).left, a),
                              right |-> Shift(At(r, i).right, a)]
  <2>1. /\ i + 1 \in 1..b /\ a + i + 1 \in 1..a + b
        /\ ~(a + i + 1 <= a) /\ a + i + 1 - a = i + 1
    BY <1>0
  <2>2. t.nodes[a + i + 1] = shifted[i + 1]
    <3>1. both[a + i + 1] = shifted[i + 1]
      <4>1. /\ a + i + 1 \in 1..a + b
            /\ ~(a + i + 1 <= a) /\ (a + i + 1) - a = i + 1
        BY <1>0, <2>1
      <4>2. \A j \in 1..a + b : both[j] = IF j <= a THEN l.nodes[j] ELSE shifted[j - a]
        BY <1>19
      <4>3. both[a + i + 1] = IF a + i + 1 <= a THEN l.nodes[a + i + 1]
                              ELSE shifted[(a + i + 1) - a]
        BY <4>1, <4>2
      <4>4. both[a + i + 1] = shifted[(a + i + 1) - a]
        BY <4>1, <4>3
      <4> QED
        BY <4>1, <4>4
    <3>2. Append(both, top)[a + i + 1] = both[a + i + 1]
      BY <1>20, <2>1
    <3> QED
      BY <1>22, <3>1, <3>2
  <2>3. shifted[i + 1] = RebaseNode(r.nodes[i + 1], a)
    BY <1>4, <2>1
  <2> QED
    BY <1>14, <2>1, <2>2, <2>3 DEF At
<1>26. At(t, a + b) = top
  BY <1>20, <1>22 DEF At
<1> QED
  BY <1>17, <1>22, <1>23, <1>24, <1>25, <1>26 DEF t, a, b

\* The children of a well-formed arena's nodes, as numbers.
LEMMA ChildType ==
  ASSUME NEW t \in Arena, WellFormedArena(t), NEW i \in 0..Size(t) - 1, NEW s \in Side
  PROVE  /\ Child(t, i, s) \in Index
         /\ Child(t, i, s) = npos \/ (Child(t, i, s) \in Nat /\ Child(t, i, s) < i)
<1>1. t.nodes \in Seq(Node) /\ Size(t) = Len(t.nodes)
  BY DEF Arena, Size
<1>2. i + 1 \in 1..Len(t.nodes)
  BY <1>1
<1>3. At(t, i) \in Node
  BY <1>1, <1>2 DEF At
<1>4. Child(t, i, s) \in Index
  BY <1>3 DEF Child, Side, Node
<1>5. Child(t, i, s) = npos \/ Child(t, i, s) < i
  BY DEF WellFormedArena
<1>6. Child(t, i, s) \in Nat
  BY <1>4 DEF Index
<1> QED
  BY <1>4, <1>5, <1>6

\* An arena laid out as NodeArenaLayout says is well formed.
LEMMA LayoutWellFormed ==
  ASSUME NEW t \in Arena, NEW l \in Arena, NEW r \in Arena, NEW a \in Nat, NEW b \in Nat,
         WellFormedArena(l), WellFormedArena(r), Size(l) = a, Size(r) = b,
         a + b + 1 <= npos, Size(t) = a + b + 1, t.root = a + b,
         \A i \in 0..a - 1, s \in Side : Child(t, i, s) = Child(l, i, s),
         \A i \in 0..b - 1, s \in Side : Child(t, a + i, s) = Shift(Child(r, i, s), a),
         Child(t, a + b, "left") = l.root,
         Child(t, a + b, "right") = Shift(r.root, a)
  PROVE  WellFormedArena(t)
<1> USE NposType
<1>1. /\ (a = 0 /\ l.root = npos) \/ (a > 0 /\ l.root = a - 1)
      /\ (b = 0 /\ r.root = npos) \/ (b > 0 /\ r.root = b - 1)
  <2>1. (l.nodes = <<>> <=> a = 0) /\ (r.nodes = <<>> <=> b = 0)
    BY EmptySeq DEF Size, Arena
  <2> QED
    BY <2>1 DEF WellFormedArena
<1>2. \A i \in 0..a - 1, s \in Side :
        /\ Child(t, i, s) = Child(l, i, s)
        /\ Child(t, i, s) = npos \/ (Child(t, i, s) \in Nat /\ Child(t, i, s) < i)
  BY ChildType
<1>3. \A i \in a..a + b - 1, s \in Side :
        /\ i - a \in 0..b - 1
        /\ Child(r, i - a, s) = npos \/ (Child(r, i - a, s) \in Nat /\ Child(r, i - a, s) < i - a)
        /\ Child(t, i, s) = Shift(Child(r, i - a, s), a)
  <2> TAKE i \in a..a + b - 1, s \in Side
  <2>1. i - a \in 0..b - 1 /\ a + (i - a) = i
    OBVIOUS
  <2>2. Child(r, i - a, s) = npos \/ (Child(r, i - a, s) \in Nat /\ Child(r, i - a, s) < i - a)
    BY <2>1, ChildType
  <2>3. Child(t, a + (i - a), s) = Shift(Child(r, i - a, s), a)
    BY <2>1
  <2> QED
    BY <2>1, <2>2, <2>3
<1>4. \A i \in a..a + b - 1, s \in Side :
        Child(t, i, s) = npos
        \/ (Child(t, i, s) \in Nat /\ Child(t, i, s) >= a /\ Child(t, i, s) < i)
  BY <1>3 DEF Shift
<1>5. /\ Child(t, a + b, "left") = npos \/ (Child(t, a + b, "left") = a - 1 /\ a > 0)
      /\ Child(t, a + b, "right") = npos \/ (Child(t, a + b, "right") = a + b - 1 /\ b > 0)
  <2>1. Child(t, a + b, "left") = npos \/ (Child(t, a + b, "left") = a - 1 /\ a > 0)
    BY <1>1
  <2>2. CASE b = 0
    <3>1. r.root = npos
      BY <1>1, <2>2
    <3>2. Child(t, a + b, "right") = npos
      BY <3>1 DEF Shift
    <3> QED
      BY <2>1, <3>2
  <2>3. CASE b > 0
    <3>1. r.root = b - 1 /\ b - 1 # npos /\ (b - 1) + a = a + b - 1
      BY <1>1, <2>3
    <3>2. Child(t, a + b, "right") = a + b - 1
      BY <3>1 DEF Shift
    <3> QED
      BY <2>1, <2>3, <3>2
  <2> QED
    BY <2>2, <2>3
<1>6. \A i \in 0..Size(t) - 1 : i \in 0..a - 1 \/ i \in a..a + b - 1 \/ i = a + b
  OBVIOUS
<1>7. \A s \in Side : s = "left" \/ s = "right"
  BY DEF Side
<1>8. ASSUME NEW i \in 0..Size(t) - 1, NEW s \in Side
      PROVE  Child(t, i, s) = npos \/ Child(t, i, s) < i
  <2>1. CASE i \in 0..a - 1
    BY <1>2, <2>1
  <2>2. CASE i \in a..a + b - 1
    BY <1>4, <2>2
  <2>3. CASE i = a + b
    BY <1>5, <1>7, <2>3
  <2> QED
    BY <1>6, <2>1, <2>2, <2>3
<1>9. ASSUME NEW j \in 0..Size(t) - 2
      PROVE  /\ \E i \in 0..Size(t) - 1, s \in Side : Child(t, i, s) = j
             /\ \A i1, i2 \in 0..Size(t) - 1, s1, s2 \in Side :
                  Child(t, i1, s1) = j /\ Child(t, i2, s2) = j => i1 = i2 /\ s1 = s2
  <2>0. j # npos /\ j \in Nat /\ j < a + b
    OBVIOUS
  <2>1. CASE j < a - 1
    <3>1. j \in 0..Size(l) - 2
      BY <2>0, <2>1
    <3>2. PICK i \in 0..Size(l) - 1, s \in Side : Child(l, i, s) = j
      BY <3>1 DEF WellFormedArena
    <3>3. i \in 0..Size(t) - 1 /\ Child(t, i, s) = j
      BY <1>2, <3>2
    <3>4. ASSUME NEW k \in 0..Size(t) - 1, NEW u \in Side, Child(t, k, u) = j
          PROVE  k \in 0..Size(l) - 1 /\ Child(l, k, u) = j
      <4>1. k \notin a..a + b - 1
        BY <1>4, <2>0, <2>1, <3>4
      <4>2. k # a + b
        BY <1>5, <1>7, <2>0, <2>1, <3>4
      <4> QED
        BY <1>2, <1>6, <3>4, <4>1, <4>2
    <3>5. \A i1, i2 \in 0..Size(l) - 1, s1, s2 \in Side :
            Child(l, i1, s1) = j /\ Child(l, i2, s2) = j => i1 = i2 /\ s1 = s2
      BY <3>1 DEF WellFormedArena
    <3> QED
      BY <3>3, <3>4, <3>5
  <2>2. CASE j = a - 1
    <3>1. a > 0 /\ Child(t, a + b, "left") = j /\ a + b \in 0..Size(t) - 1 /\ "left" \in Side
      BY <1>1, <2>0, <2>2 DEF Side
    <3>2. ASSUME NEW k \in 0..Size(t) - 1, NEW u \in Side, Child(t, k, u) = j
          PROVE  k = a + b /\ u = "left"
      <4>1. k \notin a..a + b - 1
        BY <1>4, <2>0, <2>2, <3>2
      <4>2. k \notin 0..a - 1
        BY <1>2, <2>0, <2>2, <3>2
      <4>3. k = a + b
        BY <1>6, <4>1, <4>2
      <4>4. u # "right"
        BY <1>5, <2>0, <2>2, <3>2, <4>3
      <4> QED
        BY <1>7, <4>3, <4>4
    <3> QED
      BY <3>1, <3>2
  <2>3. CASE j >= a /\ j < a + b - 1
    <3>1. j - a \in 0..Size(r) - 2
      BY <2>0, <2>3
    <3>2. PICK i \in 0..Size(r) - 1, s \in Side : Child(r, i, s) = j - a
      BY <3>1 DEF WellFormedArena
    <3>3. a + i \in 0..Size(t) - 1 /\ Child(t, a + i, s) = j
      BY <2>0, <3>1, <3>2 DEF Shift
    <3>4. ASSUME NEW k \in 0..Size(t) - 1, NEW u \in Side, Child(t, k, u) = j
          PROVE  k - a \in 0..Size(r) - 1 /\ Child(r, k - a, u) = j - a
      <4>1. k \notin 0..a - 1
        BY <1>2, <2>0, <2>3, <3>4
      <4>2. k # a + b
        BY <1>5, <1>7, <2>0, <2>3, <3>4
      <4>3. k \in a..a + b - 1
        BY <1>6, <4>1, <4>2
      <4>4. Child(t, k, u) = Shift(Child(r, k - a, u), a) /\ k - a \in 0..b - 1
        BY <1>3, <4>3
      <4>5. Child(r, k - a, u) # npos
        BY <2>0, <3>4, <4>4 DEF Shift
      <4>6. Child(r, k - a, u) \in Nat
        BY <1>3, <4>3, <4>5
      <4>7. Child(r, k - a, u) + a = j
        BY <3>4, <4>4, <4>5 DEF Shift
      <4> QED
        BY <2>0, <4>4, <4>6, <4>7
    <3>5. \A i1, i2 \in 0..Size(r) - 1, s1, s2 \in Side :
            Child(r, i1, s1) = j - a /\ Child(r, i2, s2) = j - a => i1 = i2 /\ s1 = s2
      BY <3>1 DEF WellFormedArena
    <3>6. ASSUME NEW i1 \in 0..Size(t) - 1, NEW i2 \in 0..Size(t) - 1,
                 NEW s1 \in Side, NEW s2 \in Side,
                 Child(t, i1, s1) = j, Child(t, i2, s2) = j
          PROVE  i1 = i2 /\ s1 = s2
      <4>1. i1 - a = i2 - a /\ s1 = s2
        BY <3>4, <3>5, <3>6
      <4> QED
        BY <4>1
    <3> QED
      BY <3>3, <3>6
  <2>4. CASE j = a + b - 1 /\ b > 0
    <3>1. Child(t, a + b, "right") = j /\ a + b \in 0..Size(t) - 1 /\ "right" \in Side
      BY <1>1, <2>0, <2>4 DEF Side, Shift
    <3>2. ASSUME NEW k \in 0..Size(t) - 1, NEW u \in Side, Child(t, k, u) = j
          PROVE  k = a + b /\ u = "right"
      <4>1. k \notin a..a + b - 1
        BY <1>4, <2>0, <2>4, <3>2
      <4>2. k \notin 0..a - 1
        BY <1>2, <2>0, <2>4, <3>2
      <4>3. k = a + b
        BY <1>6, <4>1, <4>2
      <4>4. u # "left"
        BY <1>5, <2>0, <2>4, <3>2, <4>3
      <4> QED
        BY <1>7, <4>3, <4>4
    <3> QED
      BY <3>1, <3>2
  <2> QED
    BY <2>0, <2>1, <2>2, <2>3, <2>4
<1>10. t.root = IF t.nodes = <<>> THEN npos ELSE Size(t) - 1
  <2>1. t.nodes # <<>>
    BY EmptySeq DEF Size
  <2> QED
    BY <2>1
<1>11. Size(t) <= npos
  OBVIOUS
<1> QED
  BY <1>8, <1>9, <1>10, <1>11 DEF WellFormedArena

-----------------------------------------------------------------------------
(* What an arena denotes, without induction: whatever function F assigns a   *)
(* term to every node as the projection reads it (arena_tree.hpp:233-243)    *)
(* assigns the term m to the root.                                           *)
TermAt(F, i) == IF i = npos THEN NoTree ELSE F[i]

Solves(F, t) ==
  \A i \in 0..Size(t) - 1 :
     F[i] = NodeTerm(At(t, i).value, TermAt(F, At(t, i).left), TermAt(F, At(t, i).right))

Denotes(t, m) == \A F : Solves(F, t) => TermAt(F, t.root) = m

LEMMA NodeDenotes ==
  ASSUME NEW v \in Value, NEW l \in Arena, NEW r \in Arena, NEW ml, NEW mr,
         WellFormedArena(l), WellFormedArena(r), Denotes(l, ml), Denotes(r, mr),
         Size(l) + Size(r) + 1 <= npos
  PROVE  Denotes(NodeArena(v, l, r), NodeTerm(v, ml, mr))
<1> SUFFICES ASSUME NEW F, Solves(F, NodeArena(v, l, r))
             PROVE  TermAt(F, NodeArena(v, l, r).root) = NodeTerm(v, ml, mr)
  BY DEF Denotes
<1> DEFINE t == NodeArena(v, l, r)
           a == Size(l)
           b == Size(r)
           G == [i \in 0..b - 1 |-> F[a + i]]
<1>1. /\ Size(t) = a + b + 1 /\ t.root = a + b
      /\ \A i \in 0..a - 1 : At(t, i) = At(l, i)
      /\ \A i \in 0..b - 1 : At(t, a + i) = [value |-> At(r, i).value,
                                            left  |-> Shift(At(r, i).left, a),
                                            right |-> Shift(At(r, i).right, a)]
      /\ At(t, a + b) = [value |-> v, left |-> l.root, right |-> Shift(r.root, a)]
  BY NodeArenaLayout
<1>2. a \in Nat /\ b \in Nat /\ a + b + 1 <= npos
  BY DEF Arena, Size
<1>3. Solves(F, t)
  OBVIOUS
<1>4. \A i \in 0..b - 1 : G[i] = F[a + i]
  OBVIOUS
<1> HIDE DEF t, a, b, G
<1>5. Solves(F, l)
  <2> SUFFICES ASSUME NEW i \in 0..a - 1
               PROVE  F[i] = NodeTerm(At(l, i).value, TermAt(F, At(l, i).left),
                                      TermAt(F, At(l, i).right))
    BY DEF Solves, a
  <2>1. i \in 0..Size(t) - 1
    BY <1>1, <1>2
  <2> QED
    BY <1>1, <1>3, <2>1 DEF Solves
<1>6. \A c : (c = npos \/ c \in 0..b - 1) => TermAt(F, Shift(c, a)) = TermAt(G, c)
  <2> SUFFICES ASSUME NEW c, c = npos \/ c \in 0..b - 1
               PROVE  TermAt(F, Shift(c, a)) = TermAt(G, c)
    OBVIOUS
  <2>1. CASE c = npos
    BY <2>1 DEF TermAt, Shift
  <2>2. CASE c # npos
    <3>1. c \in 0..b - 1 /\ c + a = a + c /\ c + a # npos
      BY <1>2, <2>2, NposType
    <3> QED
      BY <1>4, <2>2, <3>1 DEF TermAt, Shift
  <2> QED
    BY <2>1, <2>2
<1>7. Solves(G, r)
  <2> SUFFICES ASSUME NEW i \in 0..b - 1
               PROVE  G[i] = NodeTerm(At(r, i).value, TermAt(G, At(r, i).left),
                                      TermAt(G, At(r, i).right))
    BY DEF Solves, b
  <2>1. a + i \in 0..Size(t) - 1
    BY <1>1, <1>2
  <2>2. F[a + i] = NodeTerm(At(t, a + i).value, TermAt(F, At(t, a + i).left),
                            TermAt(F, At(t, a + i).right))
    BY <1>3, <2>1 DEF Solves
  <2>3. F[a + i] = NodeTerm(At(r, i).value, TermAt(F, Shift(At(r, i).left, a)),
                            TermAt(F, Shift(At(r, i).right, a)))
    <3>1. At(t, a + i) = [value |-> At(r, i).value,
                          left  |-> Shift(At(r, i).left, a),
                          right |-> Shift(At(r, i).right, a)]
      BY <1>1
    <3>2. /\ At(t, a + i).value = At(r, i).value
          /\ At(t, a + i).left = Shift(At(r, i).left, a)
          /\ At(t, a + i).right = Shift(At(r, i).right, a)
      BY <3>1
    <3> QED
      BY <2>2, <3>2
  <2>4. \A s \in Side : Child(r, i, s) = npos \/ Child(r, i, s) \in 0..b - 1
    <3> TAKE s \in Side
    <3>1. i \in 0..Size(r) - 1
      BY DEF b
    <3>2. Child(r, i, s) = npos \/ (Child(r, i, s) \in Nat /\ Child(r, i, s) < i)
      BY <3>1, ChildType
    <3> QED
      BY <1>2, <3>2
  <2>5. /\ At(r, i).left = npos \/ At(r, i).left \in 0..b - 1
        /\ At(r, i).right = npos \/ At(r, i).right \in 0..b - 1
    BY <2>4 DEF Child, Side
  <2> QED
    BY <1>4, <1>6, <2>3, <2>5
<1>8. TermAt(F, l.root) = ml /\ TermAt(G, r.root) = mr
  BY <1>5, <1>7 DEF Denotes
<1>9. r.root = npos \/ r.root \in 0..b - 1
  <2>1. r.root = IF r.nodes = <<>> THEN npos ELSE b - 1
    BY DEF WellFormedArena, b
  <2>2. r.nodes # <<>> => b > 0
    BY <1>2, EmptySeq DEF b, Size, Arena
  <2> QED
    BY <1>2, <2>1, <2>2
<1>10. a + b \in 0..Size(t) - 1 /\ a + b # npos
  BY <1>1, <1>2, NposType
<1>11. F[a + b] = NodeTerm(v, TermAt(F, l.root), TermAt(F, Shift(r.root, a)))
  BY <1>1, <1>3, <1>10 DEF Solves
<1>12. F[a + b] = NodeTerm(v, ml, mr)
  BY <1>6, <1>8, <1>9, <1>11
<1> QED
  BY <1>1, <1>10, <1>12 DEF TermAt, t

LEMMA EmptyGood ==
  EmptyArena \in Arena /\ WellFormedArena(EmptyArena) /\ Denotes(EmptyArena, NoTree)
<1>1. EmptyArena \in Arena
  BY NposType DEF EmptyArena, Arena
<1>2. Size(EmptyArena) = 0 /\ EmptyArena.root = npos /\ EmptyArena.nodes = <<>>
  BY DEF EmptyArena, Size
<1>3. WellFormedArena(EmptyArena)
  BY <1>2, NposType DEF WellFormedArena
<1>4. Denotes(EmptyArena, NoTree)
  BY <1>2 DEF Denotes, TermAt
<1> QED
  BY <1>1, <1>3, <1>4

LEMMA LeafGood ==
  ASSUME NEW v \in Value
  PROVE  /\ LeafArena(v) \in Arena /\ WellFormedArena(LeafArena(v))
         /\ Denotes(LeafArena(v), NodeTerm(v, NoTree, NoTree))
<1> DEFINE t == LeafArena(v)
           n == [value |-> v, left |-> npos, right |-> npos]
<1>1. n \in Node /\ 0 \in Index
  BY NposType DEF Node, Index
<1>2. t.nodes = <<n>> /\ t.root = 0 /\ Size(t) = 1 /\ t = [nodes |-> <<n>>, root |-> 0]
  BY DEF LeafArena, Size
<1>3. t \in Arena
  BY <1>1, <1>2 DEF Arena
<1>4. At(t, 0) = n
  BY <1>2 DEF At
<1>5. \A i \in 0..Size(t) - 1 : i = 0
  BY <1>2
<1>6. WellFormedArena(t)
  <2>1. \A s \in Side : Child(t, 0, s) = npos
    BY <1>4 DEF Child, Side
  <2>2. t.root = Size(t) - 1 /\ t.nodes # <<>> /\ Size(t) <= npos
    BY <1>2, NposType
  <2>3. \A j \in 0..Size(t) - 2 : FALSE
    BY <1>2
  <2> HIDE DEF t
  <2> QED
    BY <1>5, <2>1, <2>2, <2>3 DEF WellFormedArena
<1>7. Denotes(t, NodeTerm(v, NoTree, NoTree))
  <2> SUFFICES ASSUME NEW F, Solves(F, t)
               PROVE  TermAt(F, t.root) = NodeTerm(v, NoTree, NoTree)
    BY DEF Denotes
  <2>1. 0 \in 0..Size(t) - 1
    BY <1>2
  <2>2. F[0] = NodeTerm(v, TermAt(F, npos), TermAt(F, npos))
    BY <1>4, <2>1 DEF Solves
  <2>3. 0 # npos
    BY NposType
  <2> HIDE DEF t
  <2> QED
    BY <1>2, <2>2, <2>3 DEF TermAt
<1> QED
  BY <1>3, <1>6, <1>7

LEMMA NodeGood ==
  ASSUME NEW v \in Value, NEW l \in Arena, NEW r \in Arena,
         WellFormedArena(l), WellFormedArena(r), Size(l) + Size(r) + 1 <= npos
  PROVE  NodeArena(v, l, r) \in Arena /\ WellFormedArena(NodeArena(v, l, r))
<1> DEFINE t == NodeArena(v, l, r)
           a == Size(l)
           b == Size(r)
<1>1. /\ t \in Arena /\ Size(t) = a + b + 1 /\ t.root = a + b
      /\ \A i \in 0..a - 1 : At(t, i) = At(l, i)
      /\ \A i \in 0..b - 1 : At(t, a + i) = [value |-> At(r, i).value,
                                            left  |-> Shift(At(r, i).left, a),
                                            right |-> Shift(At(r, i).right, a)]
      /\ At(t, a + b) = [value |-> v, left |-> l.root, right |-> Shift(r.root, a)]
  BY NodeArenaLayout
<1>2. a \in Nat /\ b \in Nat /\ a + b + 1 <= npos
  BY DEF Arena, Size
<1> HIDE DEF t
<1>3. \A i \in 0..a - 1, s \in Side : Child(t, i, s) = Child(l, i, s)
  BY <1>1 DEF Child
<1>4. \A i \in 0..b - 1, s \in Side : Child(t, a + i, s) = Shift(Child(r, i, s), a)
  <2> TAKE i \in 0..b - 1, s \in Side
  <2>1. At(t, a + i) = [value |-> At(r, i).value,
                        left  |-> Shift(At(r, i).left, a),
                        right |-> Shift(At(r, i).right, a)]
    BY <1>1
  <2>2. CASE s = "left"
    BY <2>1, <2>2 DEF Child
  <2>3. CASE s = "right"
    BY <2>1, <2>3 DEF Child
  <2> QED
    BY <2>2, <2>3 DEF Side
<1>5. Child(t, a + b, "left") = l.root /\ Child(t, a + b, "right") = Shift(r.root, a)
  BY <1>1 DEF Child
<1>6. WellFormedArena(t)
  <2> HIDE DEF a, b
  <2>1. a = Size(l) /\ b = Size(r)
    BY DEF a, b
  <2> QED
    BY <1>1, <1>2, <1>3, <1>4, <1>5, <2>1, LayoutWellFormed
<1> QED
  BY <1>1, <1>6 DEF t

-----------------------------------------------------------------------------
(* The recursive reading is one of these functions: as children come before *)
(* their parents, terms can be assigned to the nodes in the order of their  *)
(* indices.                                                                  *)

\* f assigns terms to the first k nodes of t and to the sentinel.
Assigns(f, t, k) ==
  /\ f[npos] = NoTree
  /\ \A j \in 0..k - 1 : f[j] = NodeTerm(At(t, j).value, f[At(t, j).left], f[At(t, j).right])

LEMMA AssignsAll ==
  ASSUME NEW t \in Arena, WellFormedArena(t)
  PROVE  \E f : Assigns(f, t, Size(t))
<1> DEFINE N == Size(t)
           P == {k \in 0..N : \E f : Assigns(f, t, k)}
<1>1. N \in Nat /\ N <= npos
  BY DEF Size, Arena, WellFormedArena
<1>2. 0 \in P
  <2>1. Assigns([j \in {npos} |-> NoTree], t, 0)
    BY DEF Assigns
  <2> QED
    BY <1>1, <2>1
<1>3. ASSUME NEW k \in 0..N, k # N, k \in P
      PROVE  k + 1 \in P
  <2>1. PICK f : Assigns(f, t, k)
    BY <1>3
  <2> DEFINE node(j) == NodeTerm(At(t, j).value, f[At(t, j).left], f[At(t, j).right])
             g == [j \in 0..k \cup {npos} |-> IF j = k THEN node(k) ELSE f[j]]
  <2>2. k \in Nat /\ k < N /\ k # npos
    BY <1>1, <1>3, NposType
  <2>3. /\ g[k] = node(k) /\ g[npos] = f[npos]
        /\ \A j \in 0..k - 1 : g[j] = f[j]
    BY <2>2
  <2>4. ASSUME NEW j \in 0..k
        PROVE  g[At(t, j).left] = f[At(t, j).left] /\ g[At(t, j).right] = f[At(t, j).right]
    <3>1. ASSUME NEW s \in Side
          PROVE  Child(t, j, s) \in 0..k - 1 \cup {npos}
      <4>1. Child(t, j, s) = npos \/ (Child(t, j, s) \in Nat /\ Child(t, j, s) < j)
        BY <1>1, <2>2, ChildType
      <4> QED
        BY <2>2, <4>1
    <3>2. At(t, j).left \in 0..k - 1 \cup {npos} /\ At(t, j).right \in 0..k - 1 \cup {npos}
      BY <3>1 DEF Child, Side
    <3> HIDE DEF g
    <3> QED
      BY <2>3, <3>2
  <2> HIDE DEF g
  <2>5. ASSUME NEW j \in 0..k
        PROVE  g[j] = NodeTerm(At(t, j).value, g[At(t, j).left], g[At(t, j).right])
    <3>1. g[j] = node(j)
      <4>1. CASE j = k
        BY <2>3, <4>1
      <4>2. CASE j # k
        BY <2>1, <2>2, <2>3, <4>2 DEF Assigns
      <4> QED
        BY <4>1, <4>2
    <3> QED
      BY <2>4, <3>1
  <2>6. Assigns(g, t, k + 1)
    <3>1. (k + 1) - 1 = k
      BY <2>2
    <3> QED
      BY <2>1, <2>3, <2>5, <3>1 DEF Assigns
  <2> QED
    BY <1>1, <2>2, <2>6
<1>4. N \in P
  <2> HIDE DEF P
  <2>1. \A k \in 0..N : k \in P
    BY <1>1, <1>2, <1>3, CountingInduction
  <2> QED
    BY <1>1, <2>1
<1> QED
  BY <1>4

LEMMA ReadDenotes ==
  ASSUME NEW t \in Arena, WellFormedArena(t), NEW m, Denotes(t, m)
  PROVE  Read(t, t.root) = m
<1> DEFINE C == 0..Size(t) - 1 \cup {npos}
           Body(f) == [j \in C |-> IF j = npos THEN NoTree
                                   ELSE NodeTerm(At(t, j).value, f[At(t, j).left], f[At(t, j).right])]
           W == CHOOSE f : f = Body(f)
<1>1. Size(t) \in Nat /\ Size(t) <= npos /\ npos \in Nat
  BY NposType DEF Size, Arena, WellFormedArena
<1>2. \A j \in 0..Size(t) - 1 : At(t, j).left \in C /\ At(t, j).right \in C /\ j # npos
  <2> TAKE j \in 0..Size(t) - 1
  <2>1. ASSUME NEW s \in Side
        PROVE  Child(t, j, s) \in C
    <3>1. Child(t, j, s) = npos \/ (Child(t, j, s) \in Nat /\ Child(t, j, s) < j)
      BY ChildType
    <3> QED
      BY <1>1, <3>1
  <2> QED
    BY <1>1, <2>1 DEF Child, Side
<1>3. PICK f : Assigns(f, t, Size(t))
  BY AssignsAll
<1> DEFINE g == [j \in C |-> f[j]]
<1>4. g = Body(g)
  <2>1. \A j \in C : g[j] = f[j]
    OBVIOUS
  <2>2. \A j \in C : f[j] = IF j = npos THEN NoTree
                            ELSE NodeTerm(At(t, j).value, f[At(t, j).left], f[At(t, j).right])
    BY <1>2, <1>3 DEF Assigns
  <2>3. \A j \in C : f[j] = IF j = npos THEN NoTree
                            ELSE NodeTerm(At(t, j).value, g[At(t, j).left], g[At(t, j).right])
    <3> HIDE DEF g
    <3> QED
      BY <1>2, <2>1, <2>2
  <2> QED
    BY <2>3
<1>5. W = Body(W)
  <2> HIDE DEF Body, g
  <2> QED
    BY <1>4
<1>6. Read(t, t.root) = W[t.root]
  BY DEF Read
<1> HIDE DEF W
<1>7. \A j \in C : W[j] = IF j = npos THEN NoTree
                          ELSE NodeTerm(At(t, j).value, W[At(t, j).left], W[At(t, j).right])
  BY <1>5
<1>8. W[npos] = NoTree
  BY <1>7
<1>9. \A i : TermAt(W, i) = W[i]
  BY <1>8 DEF TermAt
<1>10. Solves(W, t)
  BY <1>2, <1>7, <1>9 DEF Solves
<1> QED
  BY <1>6, <1>9, <1>10 DEF Denotes

-----------------------------------------------------------------------------
(* The inductive invariant: readable registers hold well-formed arenas that  *)
(* denote the terms their clients built.  Neither half is inductive alone:   *)
(* a node is read through indices that only the well-formedness of both      *)
(* operands keeps apart from the sentinel.                                   *)
Represented == \A x \in Register : x \notin moved => Denotes(tree[x], term[x])

Inv == /\ TypeOK /\ WellFormed /\ Represented
       /\ term = [x \in Register |-> term[x]]

LEMMA AssignStep ==
  ASSUME Inv, NEW x \in Register, NEW t \in Arena, NEW m, NEW from \in SUBSET Register,
         WellFormedArena(t), Denotes(t, m), Assign(x, t, m, from)
  PROVE  Inv'
<1>1. \A y \in Register : Husk(tree[y]) \in Arena
  <2> TAKE y \in Register
  <2>1. tree[y].root \in Index
    BY DEF Inv, TypeOK, Arena
  <2> QED
    BY <2>1 DEF Husk, Arena
<1>2. TypeOK'
  BY <1>1 DEF Inv, TypeOK, Assign
<1>3. ASSUME NEW y \in Register, y \notin moved'
      PROVE  \/ y = x /\ tree'[y] = t /\ term'[y] = m
             \/ y # x /\ y \notin moved /\ tree'[y] = tree[y] /\ term'[y] = term[y]
  BY <1>3 DEF Inv, Assign
<1>4. WellFormed'
  BY <1>3 DEF Inv, WellFormed
<1>5. Represented'
  BY <1>3 DEF Inv, Represented
<1>6. (term = [y \in Register |-> term[y]])'
  BY DEF Inv, Assign
<1> QED
  BY <1>2, <1>4, <1>5, <1>6 DEF Inv

LEMMA InvInit == Init => Inv
  BY EmptyGood DEF Init, Inv, TypeOK, WellFormed, Represented

\* A register that may be read.
LEMMA ReadableGood ==
  ASSUME Inv, NEW x \in Register, Readable(x)
  PROVE  tree[x] \in Arena /\ WellFormedArena(tree[x]) /\ Denotes(tree[x], term[x])
  BY DEF Inv, Readable, TypeOK, WellFormed, Represented

LEMMA InvStep == ASSUME MaxNodes < IndexSpace PROVE Inv /\ [Next]_vars => Inv'
<1> SUFFICES ASSUME Inv, [Next]_vars PROVE Inv'
  OBVIOUS
<1>1. ASSUME NEW x \in Register, MakeEmpty(x) PROVE Inv'
  BY <1>1, EmptyGood, AssignStep DEF MakeEmpty
<1>2. ASSUME NEW x \in Register, NEW v \in Value, MakeLeaf(x, v) PROVE Inv'
  BY <1>2, LeafGood, AssignStep DEF MakeLeaf
<1>3. ASSUME NEW x \in Register, NEW v \in Value, NEW y \in Register, NEW z \in Register,
             NEW from \in SUBSET {y, z}, MakeNode(x, v, y, z, from)
      PROVE  Inv'
  <2>1. /\ tree[y] \in Arena /\ WellFormedArena(tree[y]) /\ Denotes(tree[y], term[y])
        /\ tree[z] \in Arena /\ WellFormedArena(tree[z]) /\ Denotes(tree[z], term[z])
    BY <1>3, ReadableGood DEF MakeNode
  <2>2. Size(tree[y]) + Size(tree[z]) + 1 <= npos
    <3>1. Size(tree[y]) \in Nat /\ Size(tree[z]) \in Nat
      BY <2>1 DEF Size, Arena
    <3>2. Size(tree[y]) + Size(tree[z]) + 1 <= MaxNodes
      BY <1>3 DEF MakeNode
    <3>3. MaxNodes <= npos
      BY DEF npos
    <3> QED
      BY <3>1, <3>2, <3>3, NposType
  <2>3. /\ NodeArena(v, tree[y], tree[z]) \in Arena
        /\ WellFormedArena(NodeArena(v, tree[y], tree[z]))
        /\ Denotes(NodeArena(v, tree[y], tree[z]), NodeTerm(v, term[y], term[z]))
    BY <2>1, <2>2, NodeGood, NodeDenotes
  <2>4. Assign(x, NodeArena(v, tree[y], tree[z]), NodeTerm(v, term[y], term[z]), from)
    BY <1>3 DEF MakeNode
  <2> QED
    BY <2>3, <2>4, AssignStep
<1>4. ASSUME NEW x \in Register, NEW y \in Register, CopyTree(x, y) PROVE Inv'
  BY <1>4, ReadableGood, AssignStep DEF CopyTree
<1>5. ASSUME NEW x \in Register, NEW y \in Register, MoveTree(x, y) PROVE Inv'
  BY <1>5, ReadableGood, AssignStep DEF MoveTree
<1>6. CASE UNCHANGED vars
  BY <1>6 DEF vars, Inv, TypeOK, WellFormed, Represented
<1> QED
  BY <1>1, <1>2, <1>3, <1>4, <1>5, <1>6 DEF Next

\* Arena trees smaller than the sentinel index are well formed in every
\* reachable state (arena_tree.hpp:97-104, 134-144), for every index width.
THEOREM ArenaWellFormed == ASSUME MaxNodes < IndexSpace PROVE Spec => []WellFormed
<1>1. Inv => WellFormed
  BY DEF Inv
<1>2. Inv /\ [Next]_vars => Inv'
  BY InvStep
<1> QED
  BY InvInit, <1>1, <1>2, PTL DEF Spec

\* Arena trees have values of their types in every reachable state.
THEOREM ArenaTypeCorrect == ASSUME MaxNodes < IndexSpace PROVE Spec => []TypeOK
<1>1. Inv => TypeOK
  BY DEF Inv
<1>2. Inv /\ [Next]_vars => Inv'
  BY InvStep
<1> QED
  BY InvInit, <1>1, <1>2, PTL DEF Spec

\* Whoever folds a readable arena through its projection reads the tree its
\* client built: no node lost, shared, exchanged or taken from the operand
\* next to it.
THEOREM ArenaRepresents == ASSUME MaxNodes < IndexSpace PROVE Spec => []Represented
<1>1. Inv => Represented
  BY DEF Inv
<1>2. Inv /\ [Next]_vars => Inv'
  BY InvStep
<1> QED
  BY InvInit, <1>1, <1>2, PTL DEF Spec

\* What fold_with reads in a readable arena, recursively from the root, is the
\* tree its client built (arena_tree.hpp:97-104, 233-243).
THEOREM ArenaReads == ASSUME MaxNodes < IndexSpace PROVE Spec => []Represents
<1>1. Inv => Represents
  <2> SUFFICES ASSUME Inv, NEW x \in Register, x \notin moved
               PROVE  Read(tree[x], tree[x].root) = term[x]
    BY DEF Represents
  <2>1. tree[x] \in Arena /\ WellFormedArena(tree[x]) /\ Denotes(tree[x], term[x])
    BY ReadableGood DEF Readable
  <2> QED
    BY <2>1, ReadDenotes
<1>2. Inv /\ [Next]_vars => Inv'
  BY InvStep
<1> QED
  BY InvInit, <1>1, <1>2, PTL DEF Spec
=============================================================================
