-------------------------- MODULE SearchTreeProof --------------------------
(***************************************************************************)
(* SearchTree implements a set of keys, for every set of integers as keys  *)
(* and trees of every size and shape: the tree is a search tree without    *)
(* duplicates for the keys its client expects, contains answers for all of *)
(* them from one path, and insert and erase give back a search tree for    *)
(* the set they are asked for, the same tree for the same set, and one     *)
(* whose height differs by one at most.                                    *)
(***************************************************************************)
EXTENDS SearchTree, ProofLemmas

-----------------------------------------------------------------------------
(* Search trees and their keys.  A pair of a tree and a set is made from     *)
(* pairs in R; a set of pairs is supported if all its pairs are made from    *)
(* pairs in it.                                                              *)
Below(A, v) == \A a \in A : a < v
Above(B, v) == \A b \in B : v < b

Made(t, K, R) ==
  \/ t = NoTree /\ K = {}
  \/ \E v \in Key : \E l, r, A, B :
       /\ <<l, A>> \in R /\ <<r, B>> \in R
       /\ Below(A, v) /\ Above(B, v)
       /\ t = Node(v, l, r) /\ K = {v} \cup A \cup B

Supported(R) == \A p \in R : p[2] \subseteq Key /\ Made(p[1], p[2], R)

\* t is a search tree without duplicates, and K is the set of its keys.
Holds(t, K) == \E R : <<t, K>> \in R /\ Supported(R)

LEMMA NodeFacts ==
  ASSUME NEW v, NEW l, NEW r
  PROVE  /\ Node(v, l, r) # NoTree
         /\ Node(v, l, r).value = v /\ Node(v, l, r).left = l /\ Node(v, l, r).right = r
BY DEF Node, NoTree

LEMMA KeysAreIntegers ==
  ASSUME NEW t, NEW K, Holds(t, K)
  PROVE  K \subseteq Key /\ K \subseteq Int
BY KeyAssumption DEF Holds, Supported

LEMMA HoldsInverted ==
  ASSUME NEW t, NEW K, Holds(t, K)
  PROVE  \/ t = NoTree /\ K = {}
         \/ /\ t # NoTree /\ t.value \in Key
            /\ t = Node(t.value, t.left, t.right)
            /\ \E A, B : /\ Holds(t.left, A) /\ Holds(t.right, B)
                         /\ Below(A, t.value) /\ Above(B, t.value)
                         /\ K = {t.value} \cup A \cup B
<1>1. PICK R : <<t, K>> \in R /\ Supported(R)
  BY DEF Holds
<1>2. Made(t, K, R)
  BY <1>1 DEF Supported
<1>3. \A u, A : <<u, A>> \in R => Holds(u, A)
  BY <1>1 DEF Holds
<1>4. CASE t = NoTree /\ K = {}
  BY <1>4
<1>5. CASE ~(t = NoTree /\ K = {})
  <2>1. PICK v, l, r, A, B :
               /\ v \in Key
               /\ <<l, A>> \in R /\ <<r, B>> \in R
               /\ Below(A, v) /\ Above(B, v)
               /\ t = Node(v, l, r) /\ K = {v} \cup A \cup B
    BY <1>2, <1>5 DEF Made
  <2>2. t # NoTree /\ t.value = v /\ t.left = l /\ t.right = r
    BY <2>1, NodeFacts
  <2>3. Holds(l, A) /\ Holds(r, B)
    BY <1>3, <2>1
  <2> QED
    BY <2>1, <2>2, <2>3
<1> QED
  BY <1>4, <1>5

LEMMA MadeMonotonic ==
  ASSUME NEW t, NEW K, NEW X, NEW Y, X \subseteq Y, Made(t, K, X)
  PROVE  Made(t, K, Y)
<1>1. CASE t = NoTree /\ K = {}
  BY <1>1 DEF Made
<1>2. CASE ~(t = NoTree /\ K = {})
  <2>1. PICK v, l, r, A, B :
               /\ v \in Key
               /\ <<l, A>> \in X /\ <<r, B>> \in X
               /\ Below(A, v) /\ Above(B, v)
               /\ t = Node(v, l, r) /\ K = {v} \cup A \cup B
    BY <1>2 DEF Made
  <2>2. <<l, A>> \in Y /\ <<r, B>> \in Y
    BY <2>1
  <2> QED
    BY <2>1, <2>2 DEF Made
<1> QED
  BY <1>1, <1>2

LEMMA NoTreeHolds == Holds(NoTree, {})
<1> DEFINE R == {<<NoTree, {}>>}
<1>1. Supported(R)
  BY DEF Supported, Made
<1> QED
  BY <1>1 DEF Holds

LEMMA NodeHolds ==
  ASSUME NEW v \in Key, NEW l, NEW r, NEW A, NEW B,
         Holds(l, A), Holds(r, B), Below(A, v), Above(B, v)
  PROVE  Holds(Node(v, l, r), {v} \cup A \cup B)
<1>1. PICK R : <<l, A>> \in R /\ Supported(R)
  BY DEF Holds
<1>2. PICK Q : <<r, B>> \in Q /\ Supported(Q)
  BY DEF Holds
<1> DEFINE t == Node(v, l, r)
           K == {v} \cup A \cup B
           U == R \cup Q \cup {<<t, K>>}
<1>3. \A u, C, X, Y : X \subseteq Y /\ Made(u, C, X) => Made(u, C, Y)
  BY MadeMonotonic
<1>4. R \subseteq U /\ Q \subseteq U
  OBVIOUS
<1>5. Made(t, K, U)
  BY <1>1, <1>2 DEF Made
<1>6. K \subseteq Key
  BY KeysAreIntegers
<1> HIDE DEF t, K
<1>7. ASSUME NEW p \in U
      PROVE  p[2] \subseteq Key /\ Made(p[1], p[2], U)
  <2>1. CASE p \in R
    BY <1>1, <1>3, <1>4, <2>1 DEF Supported
  <2>2. CASE p \in Q
    BY <1>2, <1>3, <1>4, <2>2 DEF Supported
  <2>3. CASE p = <<t, K>>
    BY <1>5, <1>6, <2>3
  <2> QED
    BY <2>1, <2>2, <2>3
<1>8. Supported(U)
  BY <1>7 DEF Supported
<1>9. <<t, K>> \in U
  OBVIOUS
<1>10. Holds(t, K)
  BY <1>8, <1>9 DEF Holds
<1> QED
  BY <1>10 DEF t, K

-----------------------------------------------------------------------------
(* The path of a running operation.  A frame stands for the keys of the tree *)
(* that its call returns; its node and its other subtree have some, and the  *)
(* call inside it is to return the rest.                                     *)
Owes(f, outer, inner) ==
  /\ f.value \in Key /\ inner \subseteq Key
  /\ \E B : /\ Holds(f.other, B)
            /\ outer = {f.value} \cup inner \cup B
            /\ IF f.side = "left" THEN Below(inner, f.value) /\ Above(B, f.value)
                                  ELSE Below(B, f.value) /\ Above(inner, f.value)

\* The innermost call of `path` is to return a tree for A, the outermost one
\* then returns one for `whole`.
Pathed(path, whole, A) ==
  \E L : (\A p \in L : Owes(p[1], p[2], p[3])) /\ Chain(path, L, whole, A)

LEMMA PathedPush ==
  ASSUME NEW S, NEW path \in Seq(S), NEW f, NEW whole, NEW outer, NEW inner,
         Pathed(path, whole, outer), Owes(f, outer, inner)
  PROVE  Pathed(Append(path, f), whole, inner)
<1>1. PICK L : (\A p \in L : Owes(p[1], p[2], p[3])) /\ Chain(path, L, whole, outer)
  BY DEF Pathed
<1> DEFINE M == L \cup {<<f, outer, inner>>}
<1>2. \A p \in M : Owes(p[1], p[2], p[3])
  BY <1>1
<1>3. Chain(Append(path, f), M, whole, inner)
  BY <1>1, ChainPush
<1> QED
  BY <1>2, <1>3 DEF Pathed

LEMMA PathedPop ==
  ASSUME NEW S, NEW path \in Seq(S), path # <<>>, NEW whole, NEW inner,
         Pathed(path, whole, inner)
  PROVE  \E outer : /\ Owes(path[Len(path)], outer, inner)
                    /\ Pathed(SubSeq(path, 1, Len(path) - 1), whole, outer)
<1>1. PICK L : (\A p \in L : Owes(p[1], p[2], p[3])) /\ Chain(path, L, whole, inner)
  BY DEF Pathed
<1>2. PICK outer : /\ <<path[Len(path)], outer, inner>> \in L
                   /\ Chain(SubSeq(path, 1, Len(path) - 1), L, whole, outer)
  BY <1>1, ChainPop
<1> QED
  BY <1>1, <1>2 DEF Pathed

LEMMA PathedEmpty ==
  ASSUME NEW whole
  PROVE  Pathed(<<>>, whole, whole) /\ \A A : Pathed(<<>>, whole, A) => A = whole
<1>1. Chain(<<>>, {}, whole, whole)
  BY ChainEmpty
<1>2. Pathed(<<>>, whole, whole)
  BY <1>1 DEF Pathed
<1>3. \A A : Pathed(<<>>, whole, A) => A = whole
  BY ChainEmpty DEF Pathed
<1> QED
  BY <1>2, <1>3

\* A frame plugged with what it is owed is a search tree again.
LEMMA PlugHolds ==
  ASSUME NEW f, NEW outer, NEW inner, Owes(f, outer, inner), NEW t, Holds(t, inner)
  PROVE  Holds(Plug(f, t), outer)
<1>1. PICK B : /\ Holds(f.other, B)
               /\ outer = {f.value} \cup inner \cup B
               /\ IF f.side = "left" THEN Below(inner, f.value) /\ Above(B, f.value)
                                     ELSE Below(B, f.value) /\ Above(inner, f.value)
  BY DEF Owes
<1>2. f.value \in Key
  BY DEF Owes
<1>3. CASE f.side = "left"
  <2>1. Holds(Node(f.value, t, f.other), {f.value} \cup inner \cup B)
    BY <1>1, <1>2, <1>3, NodeHolds
  <2> QED
    BY <1>1, <1>3, <2>1 DEF Plug
<1>4. CASE f.side # "left"
  <2>1. Holds(Node(f.value, f.other, t), {f.value} \cup B \cup inner)
    BY <1>1, <1>2, <1>4, NodeHolds
  <2>2. {f.value} \cup B \cup inner = outer
    BY <1>1
  <2> QED
    BY <1>4, <2>1, <2>2 DEF Plug
<1> QED
  BY <1>3, <1>4

-----------------------------------------------------------------------------
(* The inductive invariant.                                                  *)
Operation == {"insert", "erase", "contains"}

IsCall(c) ==
  /\ c = [phase |-> c.phase, op |-> c.op, arg |-> c.arg, key |-> c.key, at |-> c.at,
          cursor |-> c.cursor, path |-> c.path]
  /\ c.phase \in {"down", "min", "up"} /\ c.op \in Operation
  /\ c.arg \in Key /\ c.key \in Key
  /\ \E S : c.path \in Seq(S)

\* contains has no frames; what it finds at `at` is the answer for K.
Looking(c, K) ==
  /\ c.path = <<>> /\ c.phase \in {"down", "up"}
  /\ \E A : /\ Holds(c.at, A) /\ A \subseteq K
            /\ c.phase = "down" => (c.key \in A <=> c.arg \in K)
  /\ c.phase = "up" => (c.at # NoTree <=> c.arg \in K)

\* insert and erase have the operation still to do on `at`, with a key that
\* is another one after Replace,
Descending(c, K) ==
  \E A : Holds(c.at, A) /\ Pathed(c.path, Outcome(c.op, c.arg, K), Outcome(c.op, c.key, A))

\* are at the node to erase and on the way to its successor, below which are
\* the least keys of the right subtree,
Replacing(c, K) ==
  /\ c.op = "erase" /\ c.at # NoTree /\ c.cursor # NoTree
  /\ \E A, B, C :
       /\ Holds(c.at.left, A) /\ Holds(c.at.right, B)
       /\ Below(A, c.key) /\ Above(B, c.key)
       /\ Pathed(c.path, Outcome(c.op, c.arg, K), A \cup B)
       /\ Holds(c.cursor, C) /\ C \subseteq B
       /\ \A k \in C, b \in B \ C : k < b

\* or have done it.
Ascending(c, K) == \E A : Holds(c.at, A) /\ Pathed(c.path, Outcome(c.op, c.arg, K), A)

Promised(c, K) ==
  IF c.op = "contains" THEN Looking(c, K)
  ELSE /\ c.phase = "down" => Descending(c, K)
       /\ c.phase = "min" => Replacing(c, K)
       /\ c.phase = "up" => Ascending(c, K)

Inv == /\ Holds(tree, keys)
       /\ call # NoCall => IsCall(call) /\ Promised(call, keys)

LEMMA InitInv == Init => Inv /\ Promise!Init
BY NoTreeHolds DEF Init, Inv, Promise!Init, Promise!NoOperation, Promise!Nothing

LEMMA StartInv ==
  ASSUME Inv, NEW op \in Operation, NEW v \in Key, Start(op, v)
  PROVE  Inv' /\ Promise!Ask(op, v)
<1>1. /\ call = NoCall /\ UNCHANGED <<tree, answer, keys>>
      /\ call' = [phase |-> "down", op |-> op, arg |-> v, key |-> v, at |-> tree,
                  cursor |-> NoTree, path |-> <<>>]
  BY DEF Start
<1>2. /\ call'.phase = "down" /\ call'.op = op /\ call'.arg = v /\ call'.key = v
      /\ call'.at = tree /\ call'.path = <<>>
  BY <1>1
<1>3. call' # NoCall
  BY <1>2 DEF NoCall
<1>4. IsCall(call')
  <2>1. <<>> \in Seq(Key)
    OBVIOUS
  <2> QED
    BY <1>1, <1>2, <2>1 DEF IsCall
<1>5. Promised(call', keys)
  <2>1. Holds(tree, keys)
    BY DEF Inv
  <2>2. Pathed(<<>>, Outcome(op, v, keys), Outcome(op, v, keys))
    BY PathedEmpty
  <2> QED
    BY <1>2, <2>1, <2>2 DEF Promised, Looking, Descending
<1>6. Inv'
  BY <1>1, <1>4, <1>5 DEF Inv
<1>7. Promise!Ask(op, v)
  BY <1>1, <1>2, <1>3 DEF Promise!Ask, Promise!NoOperation
<1> QED
  BY <1>6, <1>7

\* A step inside an operation shows nothing to the client.
LEMMA InsideStep ==
  ASSUME Inv, call # NoCall, UNCHANGED <<tree, answer, keys>>,
         call'.op = call.op, call'.arg = call.arg,
         IsCall(call'), Promised(call', keys)
  PROVE  Inv' /\ UNCHANGED Promise!vars
<1>1. call' # NoCall
  BY DEF IsCall, NoCall
<1>2. Inv'
  BY DEF Inv
<1> QED
  BY <1>1, <1>2 DEF Promise!vars

\* What holds when a call looks at its subtree.
LEMMA SearchingFacts ==
  ASSUME Inv, Searching
  PROVE  /\ call # NoCall /\ call.phase = "down" /\ UNCHANGED <<tree, answer, keys>>
         /\ IsCall(call)
         /\ call.op = "contains" => Looking(call, keys)
         /\ call.op # "contains" => Descending(call, keys)
BY DEF Searching, Inv, NoCall, Promised

\* The search for key k in a tree goes on in its subtree t, where it will find
\* what there is to find, and frame f keeps the rest of the tree.
LEMMA GoesTo ==
  ASSUME NEW node, node # NoTree, NEW A, Holds(node, A), NEW k \in Key, NEW f, NEW t,
         \/ k < node.value /\ f = LeftOf(node.value, node.right) /\ t = node.left
         \/ node.value < k /\ f = RightOf(node.value, node.left) /\ t = node.right
  PROVE  /\ node = Plug(f, t)
         /\ \E C : /\ Holds(t, C) /\ C \subseteq A
                   /\ k \in A <=> k \in C
                   /\ \A op \in {"insert", "erase"} : Owes(f, Outcome(op, k, A), Outcome(op, k, C))
<1> DEFINE v == node.value
<1>1. PICK C, D : /\ Holds(node.left, C) /\ Holds(node.right, D)
                  /\ Below(C, v) /\ Above(D, v)
                  /\ A = {v} \cup C \cup D /\ v \in Key
                  /\ node = Node(v, node.left, node.right)
  BY HoldsInverted
<1>2. /\ C \subseteq Key /\ D \subseteq Key /\ C \subseteq Int /\ D \subseteq Int
      /\ v \in Int /\ k \in Int
  BY <1>1, KeysAreIntegers, KeyAssumption
<1>3. CASE k < v
  <2>1. f = LeftOf(v, node.right) /\ t = node.left
    BY <1>2, <1>3
  <2>2. f.value = v /\ f.side = "left" /\ f.other = node.right
    BY <2>1 DEF LeftOf
  <2>3. k # v /\ k \notin D
    BY <1>1, <1>2, <1>3 DEF Above
  <2>4. \A op \in {"insert", "erase"} :
          /\ Outcome(op, k, A) = {v} \cup Outcome(op, k, C) \cup D
          /\ Outcome(op, k, C) \subseteq Key
          /\ Below(Outcome(op, k, C), v)
    BY <1>1, <1>2, <1>3, <2>3 DEF Outcome, Below
  <2> QED
    BY <1>1, <2>1, <2>2, <2>3, <2>4 DEF Owes, Plug
<1>4. CASE v < k
  <2>1. f = RightOf(v, node.left) /\ t = node.right
    BY <1>2, <1>4
  <2>2. f.value = v /\ f.side = "right" /\ f.other = node.left
    BY <2>1 DEF RightOf
  <2>3. k # v /\ k \notin C
    BY <1>1, <1>2, <1>4 DEF Below
  <2>4. \A op \in {"insert", "erase"} :
          /\ Outcome(op, k, A) = {v} \cup Outcome(op, k, D) \cup C
          /\ Outcome(op, k, D) \subseteq Key
          /\ Above(Outcome(op, k, D), v)
    BY <1>1, <1>2, <1>4, <2>3 DEF Outcome, Above
  <2> QED
    BY <1>1, <2>1, <2>2, <2>3, <2>4 DEF Owes, Plug
<1> QED
  BY <1>3, <1>4

\* A call of insert or erase goes on to the left or to the right.
LEMMA GoDownInv ==
  ASSUME Inv, Searching, call.at # NoTree, NEW f, NEW t, GoDown(f, t),
         \/ call.key < call.at.value /\ f = LeftOf(call.at.value, call.at.right)
            /\ t = call.at.left
         \/ call.at.value < call.key /\ f = RightOf(call.at.value, call.at.left)
            /\ t = call.at.right
  PROVE  Inv' /\ UNCHANGED Promise!vars
<1>1. /\ call # NoCall /\ call.phase = "down" /\ UNCHANGED <<tree, answer, keys>>
      /\ IsCall(call)
      /\ call.op = "contains" => Looking(call, keys)
      /\ call.op # "contains" => Descending(call, keys)
  BY SearchingFacts
<1>2. PICK S : call.path \in Seq(S)
  BY <1>1 DEF IsCall
<1>3. /\ call'.op = call.op /\ call'.arg = call.arg /\ call'.key = call.key
      /\ call'.phase = "down" /\ call'.at = t
      /\ call'.path = IF call.op = "contains" THEN call.path ELSE Append(call.path, f)
      /\ call' = [phase |-> call.phase, op |-> call.op, arg |-> call.arg, key |-> call.key,
                  at |-> t, cursor |-> call.cursor, path |-> call'.path]
  BY <1>1 DEF GoDown, IsCall
<1>4. call'.path \in Seq(S \cup {f})
  BY <1>2, <1>3, AppendFacts
<1>5. IsCall(call')
  BY <1>1, <1>3, <1>4 DEF IsCall
<1>6. ASSUME NEW A, Holds(call.at, A)
      PROVE  \E C : /\ Holds(t, C) /\ C \subseteq A
                    /\ call.key \in A <=> call.key \in C
                    /\ \A op \in {"insert", "erase"} :
                         Owes(f, Outcome(op, call.key, A), Outcome(op, call.key, C))
  BY <1>1, <1>6, GoesTo DEF IsCall
<1>7. CASE call.op = "contains"
  BY <1>1, <1>3, <1>5, <1>6, <1>7, InsideStep DEF Promised, Looking
<1>8. CASE call.op # "contains"
  <2>1. call.op \in {"insert", "erase"}
    BY <1>1, <1>8 DEF IsCall, Operation
  <2>2. PICK A : /\ Holds(call.at, A)
                 /\ Pathed(call.path, Outcome(call.op, call.arg, keys),
                           Outcome(call.op, call.key, A))
    BY <1>1, <1>8 DEF Descending
  <2>3. PICK C : /\ Holds(t, C)
                 /\ Owes(f, Outcome(call.op, call.key, A), Outcome(call.op, call.key, C))
    BY <1>6, <2>1, <2>2
  <2>4. Pathed(call'.path, Outcome(call.op, call.arg, keys), Outcome(call.op, call.key, C))
    BY <1>2, <1>3, <1>8, <2>2, <2>3, PathedPush
  <2>5. Promised(call', keys)
    BY <1>3, <1>8, <2>3, <2>4 DEF Promised, Descending
  <2> QED
    BY <1>1, <1>3, <1>5, <2>5, InsideStep
<1> QED
  BY <1>7, <1>8

\* The innermost call of insert or erase returns t, a tree for what it owes.
LEMMA YieldInv ==
  ASSUME Inv, Searching, NEW t, Yield(t), call.op # "contains",
         \E A : /\ Holds(t, A)
                /\ Pathed(call.path, Outcome(call.op, call.arg, keys), A)
  PROVE  Inv' /\ UNCHANGED Promise!vars
<1>1. call # NoCall /\ UNCHANGED <<tree, answer, keys>> /\ IsCall(call)
  BY SearchingFacts
<1>2. call' = [phase |-> "up", op |-> call.op, arg |-> call.arg, key |-> call.key,
               at |-> t, cursor |-> call.cursor, path |-> call.path]
  BY <1>1 DEF Yield, IsCall
<1>3. /\ call'.phase = "up" /\ call'.op = call.op /\ call'.arg = call.arg
      /\ call'.at = t /\ call'.path = call.path
  BY <1>2
<1>4. IsCall(call')
  BY <1>1, <1>2 DEF IsCall
<1>5. Promised(call', keys)
  BY <1>3 DEF Promised, Ascending
<1> QED
  BY <1>1, <1>3, <1>4, <1>5, InsideStep

\* contains has found the answer.
LEMMA AnswerInv ==
  ASSUME Inv, Searching, NEW t, Yield(t), call.op = "contains", t = call.at,
         t # NoTree <=> call.arg \in keys
  PROVE  Inv' /\ UNCHANGED Promise!vars
<1>1. /\ call # NoCall /\ UNCHANGED <<tree, answer, keys>> /\ IsCall(call)
      /\ Looking(call, keys)
  BY SearchingFacts
<1>2. call' = [phase |-> "up", op |-> call.op, arg |-> call.arg, key |-> call.key,
               at |-> t, cursor |-> call.cursor, path |-> call.path]
  BY <1>1 DEF Yield, IsCall
<1>3. /\ call'.phase = "up" /\ call'.op = call.op /\ call'.arg = call.arg
      /\ call'.at = t /\ call'.path = call.path
  BY <1>2
<1>4. IsCall(call')
  BY <1>1, <1>2 DEF IsCall
<1>5. Promised(call', keys)
  BY <1>1, <1>3 DEF Promised, Looking
<1> QED
  BY <1>1, <1>3, <1>4, <1>5, InsideStep

LEMMA NotFoundInv ==
  ASSUME Inv, NotFound
  PROVE  Inv' /\ UNCHANGED Promise!vars
<1>1. Searching /\ call.at = NoTree
      /\ Yield(IF call.op = "insert" THEN Node(call.key, NoTree, NoTree) ELSE NoTree)
  BY DEF NotFound
<1>2. /\ IsCall(call)
      /\ call.op = "contains" => Looking(call, keys)
      /\ call.op # "contains" => Descending(call, keys)
      /\ call.phase = "down"
  BY <1>1, SearchingFacts
<1>3. \A A : Holds(call.at, A) => A = {}
  BY <1>1, HoldsInverted
<1>4. CASE call.op = "contains"
  <2>1. call.arg \notin keys
    BY <1>2, <1>3, <1>4 DEF Looking
  <2> QED
    BY <1>1, <1>4, <2>1, AnswerInv
<1>5. CASE call.op = "insert"
  <2>1. Pathed(call.path, Outcome(call.op, call.arg, keys), Outcome("insert", call.key, {}))
    BY <1>2, <1>3, <1>5 DEF Descending
  <2>2. Outcome("insert", call.key, {}) = {call.key} \cup {} \cup {}
    BY DEF Outcome
  <2>3. Holds(Node(call.key, NoTree, NoTree), {call.key} \cup {} \cup {})
    BY <1>2, NoTreeHolds, NodeHolds DEF IsCall, Below, Above
  <2> QED
    BY <1>1, <1>5, <2>1, <2>2, <2>3, YieldInv
<1>6. CASE call.op = "erase"
  <2>1. Pathed(call.path, Outcome(call.op, call.arg, keys), Outcome("erase", call.key, {}))
    BY <1>2, <1>3, <1>6 DEF Descending
  <2>2. Outcome("erase", call.key, {}) = {}
    BY DEF Outcome
  <2> QED
    BY <1>1, <1>6, <2>1, <2>2, NoTreeHolds, YieldInv
<1> QED
  BY <1>2, <1>4, <1>5, <1>6 DEF IsCall, Operation

LEMMA FoundInv ==
  ASSUME Inv, Found
  PROVE  Inv' /\ UNCHANGED Promise!vars
<1>1. /\ Searching /\ call.op \in {"insert", "contains"} /\ call.at # NoTree
      /\ call.at.value = call.key /\ Yield(call.at)
  BY DEF Found, Here
<1>2. /\ call.op = "contains" => Looking(call, keys)
      /\ call.op # "contains" => Descending(call, keys)
      /\ call.phase = "down"
  BY <1>1, SearchingFacts
<1>3. \A A : Holds(call.at, A) => call.key \in A
  BY <1>1, HoldsInverted
<1>4. CASE call.op = "contains"
  <2>1. call.arg \in keys
    BY <1>2, <1>3, <1>4 DEF Looking
  <2> QED
    BY <1>1, <1>4, <2>1, AnswerInv
<1>5. CASE call.op = "insert"
  <2>1. PICK A : /\ Holds(call.at, A)
                 /\ Pathed(call.path, Outcome(call.op, call.arg, keys),
                           Outcome("insert", call.key, A))
    BY <1>2, <1>5 DEF Descending
  <2>2. Outcome("insert", call.key, A) = A
    BY <1>3, <2>1 DEF Outcome
  <2> QED
    BY <1>1, <1>5, <2>1, <2>2, YieldInv
<1> QED
  BY <1>1, <1>4, <1>5

LEMMA EraseHereInv ==
  ASSUME Inv, EraseHere
  PROVE  Inv' /\ UNCHANGED Promise!vars
<1>1. /\ Searching /\ call.op = "erase" /\ call.at # NoTree /\ call.at.value = call.key
  BY DEF EraseHere, Here
<1>2. /\ call # NoCall /\ UNCHANGED <<tree, answer, keys>> /\ IsCall(call)
      /\ Descending(call, keys)
  BY <1>1, SearchingFacts
<1>3. PICK K : /\ Holds(call.at, K)
               /\ Pathed(call.path, Outcome(call.op, call.arg, keys), Outcome("erase", call.key, K))
  BY <1>1, <1>2 DEF Descending
<1>4. PICK A, B : /\ Holds(call.at.left, A) /\ Holds(call.at.right, B)
                  /\ Below(A, call.key) /\ Above(B, call.key)
                  /\ K = {call.key} \cup A \cup B
  BY <1>1, <1>3, HoldsInverted
<1>5. A \subseteq Int /\ B \subseteq Int /\ call.key \in Int
  BY <1>2, <1>4, KeysAreIntegers, KeyAssumption DEF IsCall
<1>6. call.key \notin A /\ call.key \notin B
  BY <1>4, <1>5 DEF Below, Above
<1>7. Outcome("erase", call.key, K) = A \cup B
  BY <1>4, <1>6 DEF Outcome
<1>8. Pathed(call.path, Outcome(call.op, call.arg, keys), A \cup B)
  BY <1>3, <1>7
<1>9. CASE call.at.left = NoTree
  <2>1. Yield(call.at.right)
    BY <1>9 DEF EraseHere
  <2>2. A \cup B = B
    BY <1>4, <1>9, HoldsInverted
  <2> QED
    BY <1>1, <1>4, <1>8, <2>1, <2>2, YieldInv
<1>10. CASE call.at.left # NoTree /\ call.at.right = NoTree
  <2>1. Yield(call.at.left)
    BY <1>10 DEF EraseHere
  <2>2. A \cup B = A
    BY <1>4, <1>10, HoldsInverted
  <2> QED
    BY <1>1, <1>4, <1>8, <2>1, <2>2, YieldInv
<1>11. CASE call.at.left # NoTree /\ call.at.right # NoTree
  <2>1. call' = [phase |-> "min", op |-> call.op, arg |-> call.arg, key |-> call.key,
                 at |-> call.at, cursor |-> call.at.right, path |-> call.path]
    BY <1>2, <1>11 DEF EraseHere, IsCall
  <2>2. /\ call'.phase = "min" /\ call'.op = "erase" /\ call'.op = call.op
        /\ call'.arg = call.arg /\ call'.key = call.key /\ call'.at = call.at
        /\ call'.cursor = call.at.right /\ call'.path = call.path
    BY <1>1, <2>1
  <2>3. IsCall(call')
    BY <1>2, <2>1 DEF IsCall
  <2>4. \A k \in B, b \in B \ B : k < b
    OBVIOUS
  <2>5. Replacing(call', keys)
    BY <1>1, <1>4, <1>8, <1>11, <2>2, <2>4 DEF Replacing
  <2>6. Promised(call', keys)
    BY <2>2, <2>5 DEF Promised
  <2> QED
    BY <1>2, <2>2, <2>3, <2>6, InsideStep
<1> QED
  BY <1>9, <1>10, <1>11

LEMMA MinValueInv ==
  ASSUME Inv, MinValue
  PROVE  Inv' /\ UNCHANGED Promise!vars
<1>1. /\ call.phase = "min" /\ call # NoCall /\ call.cursor.left # NoTree
      /\ UNCHANGED <<tree, answer, keys>> /\ call' = [call EXCEPT !.cursor = @.left]
  BY DEF MinValue, NoCall
<1>2. IsCall(call) /\ Promised(call, keys)
  BY <1>1 DEF Inv
<1>3. Replacing(call, keys)
  BY <1>1, <1>2 DEF Promised, Looking
<1>4. PICK A, B, C :
       /\ Holds(call.at.left, A) /\ Holds(call.at.right, B)
       /\ Below(A, call.key) /\ Above(B, call.key)
       /\ Pathed(call.path, Outcome(call.op, call.arg, keys), A \cup B)
       /\ Holds(call.cursor, C) /\ C \subseteq B
       /\ \A k \in C, b \in B \ C : k < b
  BY <1>3 DEF Replacing
<1>5. call.cursor # NoTree /\ call.at # NoTree /\ call.op = "erase"
  BY <1>3 DEF Replacing
<1>6. PICK D, E : /\ Holds(call.cursor.left, D) /\ Holds(call.cursor.right, E)
                  /\ Below(D, call.cursor.value) /\ Above(E, call.cursor.value)
                  /\ C = {call.cursor.value} \cup D \cup E
  BY <1>4, <1>5, HoldsInverted
<1>7. call' = [phase |-> "min", op |-> call.op, arg |-> call.arg, key |-> call.key,
               at |-> call.at, cursor |-> call.cursor.left, path |-> call.path]
  BY <1>1, <1>2 DEF IsCall
<1>8. /\ call'.phase = "min" /\ call'.op = call.op
      /\ call'.arg = call.arg /\ call'.key = call.key /\ call'.at = call.at
      /\ call'.cursor = call.cursor.left /\ call'.path = call.path
  BY <1>7
<1>9. IsCall(call')
  BY <1>2, <1>7 DEF IsCall
<1>10. D \subseteq B /\ \A k \in D, b \in B \ D : k < b
  <2>1. B \subseteq Int /\ D \subseteq Int /\ E \subseteq Int /\ call.cursor.value \in Int
    BY <1>4, <1>6, KeysAreIntegers
  <2>2. ASSUME NEW k \in D, NEW b \in B \ D
        PROVE  k < b
    <3>1. CASE b \in B \ C
      BY <1>4, <1>6, <3>1
    <3>2. CASE b = call.cursor.value
      BY <1>6, <3>2 DEF Below
    <3>3. CASE b \in E
      <4>1. k < call.cursor.value /\ call.cursor.value < b
        BY <1>6, <3>3 DEF Below, Above
      <4>2. k \in Int /\ b \in Int
        BY <2>1
      <4> QED
        BY <2>1, <4>1, <4>2
    <3> QED
      BY <1>6, <3>1, <3>2, <3>3
  <2> QED
    BY <1>4, <1>6, <2>2
<1>11. Replacing(call', keys)
  BY <1>1, <1>4, <1>5, <1>6, <1>8, <1>10 DEF Replacing
<1>12. Promised(call', keys)
  BY <1>5, <1>8, <1>11 DEF Promised
<1> QED
  BY <1>1, <1>8, <1>9, <1>12, InsideStep

LEMMA ReplaceInv ==
  ASSUME Inv, Replace
  PROVE  Inv' /\ UNCHANGED Promise!vars
<1> DEFINE m == call.cursor.value
<1>1. /\ call.phase = "min" /\ call # NoCall /\ call.cursor.left = NoTree
      /\ UNCHANGED <<tree, answer, keys>>
  BY DEF Replace, NoCall
<1>2. IsCall(call) /\ Promised(call, keys)
  BY <1>1 DEF Inv
<1>3. Replacing(call, keys)
  BY <1>1, <1>2 DEF Promised, Looking
<1>4. PICK A, B, C :
       /\ Holds(call.at.left, A) /\ Holds(call.at.right, B)
       /\ Below(A, call.key) /\ Above(B, call.key)
       /\ Pathed(call.path, Outcome(call.op, call.arg, keys), A \cup B)
       /\ Holds(call.cursor, C) /\ C \subseteq B
       /\ \A k \in C, b \in B \ C : k < b
  BY <1>3 DEF Replacing
<1>5. call.cursor # NoTree /\ call.at # NoTree /\ call.op = "erase"
  BY <1>3 DEF Replacing
<1>6. PICK D, E : /\ Holds(call.cursor.left, D) /\ Holds(call.cursor.right, E)
                  /\ Above(E, m) /\ C = {m} \cup D \cup E /\ m \in Key
  BY <1>4, <1>5, HoldsInverted
<1>7. D = {}
  BY <1>1, <1>6, HoldsInverted
<1>8. PICK S : call.path \in Seq(S)
  BY <1>2 DEF IsCall
<1> DEFINE f == RightOf(m, call.at.left)
<1>9. call' = [phase |-> "down", op |-> call.op, arg |-> call.arg, key |-> m,
               at |-> call.at.right, cursor |-> call.cursor, path |-> Append(call.path, f)]
  BY <1>2 DEF Replace, IsCall
<1>10. /\ call'.phase = "down" /\ call'.op = call.op
       /\ call'.arg = call.arg /\ call'.key = m /\ call'.at = call.at.right
       /\ call'.path = Append(call.path, f)
  BY <1>9
<1>11. call'.path \in Seq(S \cup {f})
  BY <1>8, <1>10, AppendFacts
<1>12. IsCall(call')
  BY <1>2, <1>6, <1>9, <1>11 DEF IsCall
<1>13. /\ A \subseteq Int /\ B \subseteq Int /\ B \subseteq Key /\ C \subseteq Int
       /\ call.key \in Int /\ m \in Int
  BY <1>2, <1>4, <1>6, KeysAreIntegers, KeyAssumption DEF IsCall
<1>14. m \in B /\ Above(B \ {m}, m)
  BY <1>4, <1>6, <1>7 DEF Above
<1>15. Below(A, m)
  <2>1. call.key < m
    BY <1>4, <1>14 DEF Above
  <2>2. ASSUME NEW a \in A
        PROVE  a < m
    <3>1. a < call.key /\ a \in Int
      BY <1>4, <1>13 DEF Below
    <3> QED
      BY <1>13, <2>1, <3>1
  <2> QED
    BY <2>2 DEF Below
<1>16. Owes(f, A \cup B, B \ {m})
  <2>1. f.value = m /\ f.side = "right" /\ f.other = call.at.left
    BY DEF RightOf
  <2>2. A \cup B = {m} \cup (B \ {m}) \cup A
    BY <1>14
  <2> QED
    BY <1>4, <1>6, <1>13, <1>14, <1>15, <2>1, <2>2 DEF Owes
<1>17. Pathed(Append(call.path, f), Outcome(call.op, call.arg, keys), B \ {m})
  BY <1>4, <1>8, <1>16, PathedPush
<1>18. Outcome("erase", m, B) = B \ {m}
  BY DEF Outcome
<1>19. Promised(call', keys)
  BY <1>4, <1>5, <1>10, <1>17, <1>18 DEF Promised, Descending
<1> QED
  BY <1>1, <1>10, <1>12, <1>19, InsideStep

LEMMA RebuildInv ==
  ASSUME Inv, Rebuild
  PROVE  Inv' /\ UNCHANGED Promise!vars
<1> DEFINE n == Len(call.path)
<1>1. /\ call.phase = "up" /\ call # NoCall /\ call.path # <<>>
      /\ UNCHANGED <<tree, answer, keys>>
  BY DEF Rebuild, NoCall
<1>2. IsCall(call) /\ Promised(call, keys)
  BY <1>1 DEF Inv
<1>3. call.op # "contains" /\ Ascending(call, keys)
  BY <1>1, <1>2 DEF Promised, Looking
<1>4. PICK A : Holds(call.at, A) /\ Pathed(call.path, Outcome(call.op, call.arg, keys), A)
  BY <1>3 DEF Ascending
<1>5. PICK S : call.path \in Seq(S)
  BY <1>2 DEF IsCall
<1>6. PICK K : /\ Owes(call.path[n], K, A)
               /\ Pathed(SubSeq(call.path, 1, n - 1), Outcome(call.op, call.arg, keys), K)
  BY <1>1, <1>4, <1>5, PathedPop
<1>7. call' = [phase |-> "up", op |-> call.op, arg |-> call.arg, key |-> call.key,
               at |-> Plug(call.path[n], call.at), cursor |-> call.cursor,
               path |-> SubSeq(call.path, 1, n - 1)]
  BY <1>1, <1>2 DEF Rebuild, IsCall
<1>8. /\ call'.phase = "up" /\ call'.op = call.op /\ call'.arg = call.arg
      /\ call'.at = Plug(call.path[n], call.at) /\ call'.path = SubSeq(call.path, 1, n - 1)
  BY <1>7
<1>9. call'.path \in Seq(S)
  BY <1>1, <1>5, <1>8, PopFacts
<1>10. IsCall(call')
  BY <1>2, <1>7, <1>9 DEF IsCall
<1>11. Holds(call'.at, K)
  BY <1>4, <1>6, <1>8, PlugHolds
<1>12. Promised(call', keys)
  BY <1>3, <1>6, <1>8, <1>11 DEF Promised, Ascending
<1> QED
  BY <1>1, <1>8, <1>10, <1>12, InsideStep

LEMMA FinishInv ==
  ASSUME Inv, Finish
  PROVE  Inv' /\ (Promise!Insert \/ Promise!Erase \/ Promise!Contains)
<1>1. /\ call.phase = "up" /\ call # NoCall /\ call.path = <<>> /\ call' = NoCall
      /\ keys' = Outcome(call.op, call.arg, keys)
  BY DEF Finish, NoCall
<1>2. IsCall(call) /\ Promised(call, keys)
  BY <1>1 DEF Inv
<1> DEFINE pending == IF call = NoCall THEN [op |-> "none"] ELSE [op |-> call.op, key |-> call.arg]
<1>3. pending.op = call.op /\ pending.key = call.arg
  BY <1>1
<1>4. CASE call.op = "contains"
  <2>1. /\ answer' = <<call.at # NoTree>> /\ UNCHANGED tree /\ keys' = keys
    BY <1>1, <1>4 DEF Finish, Outcome
  <2>2. call.at # NoTree <=> call.arg \in keys
    BY <1>1, <1>2, <1>4 DEF Promised, Looking
  <2>3. (call.at # NoTree) = (call.arg \in keys)
    BY <2>2
  <2>4. Inv'
    BY <1>1, <2>1 DEF Inv
  <2>5. Promise!Contains
    BY <1>1, <1>3, <1>4, <2>1, <2>3 DEF Promise!Contains, Promise!Done, Promise!NoOperation
  <2> QED
    BY <2>4, <2>5
<1>5. CASE call.op # "contains"
  <2>1. tree' = call.at /\ answer' = <<>>
    BY <1>5 DEF Finish
  <2>2. Ascending(call, keys)
    BY <1>1, <1>2, <1>5 DEF Promised
  <2>3. Holds(call.at, Outcome(call.op, call.arg, keys))
    <3>1. PICK A : Holds(call.at, A) /\ Pathed(<<>>, Outcome(call.op, call.arg, keys), A)
      BY <1>1, <2>2 DEF Ascending
    <3>2. A = Outcome(call.op, call.arg, keys)
      BY <3>1, PathedEmpty
    <3> QED
      BY <3>1, <3>2
  <2>4. Inv'
    BY <1>1, <2>1, <2>3 DEF Inv
  <2>5. CASE call.op = "insert"
    <3>1. keys' = keys \cup {call.arg}
      BY <1>1, <2>5 DEF Outcome
    <3>2. Promise!Insert
      BY <1>1, <1>3, <2>1, <2>5, <3>1
      DEF Promise!Insert, Promise!Done, Promise!NoOperation, Promise!Nothing
    <3> QED
      BY <2>4, <3>2
  <2>6. CASE call.op = "erase"
    <3>1. keys' = keys \ {call.arg}
      BY <1>1, <2>6 DEF Outcome
    <3>2. Promise!Erase
      BY <1>1, <1>3, <2>1, <2>6, <3>1
      DEF Promise!Erase, Promise!Done, Promise!NoOperation, Promise!Nothing
    <3> QED
      BY <2>4, <3>2
  <2> QED
    BY <1>2, <1>5, <2>5, <2>6 DEF IsCall, Operation
<1> QED
  BY <1>4, <1>5

-----------------------------------------------------------------------------
(* Every step keeps the invariant and is a step of KeySet, or none.          *)

LEMMA SearchInv ==
  ASSUME Inv, SearchLeft \/ SearchRight
  PROVE  Inv' /\ UNCHANGED Promise!vars
<1>1. CASE SearchLeft
  BY <1>1, GoDownInv DEF SearchLeft
<1>2. CASE SearchRight
  BY <1>2, GoDownInv DEF SearchRight
<1> QED
  BY <1>1, <1>2

LEMMA StepInv == Inv /\ [Next]_vars => Inv' /\ [Promise!Next]_Promise!vars
<1> SUFFICES ASSUME Inv, [Next]_vars
             PROVE  Inv' /\ [Promise!Next]_Promise!vars
  OBVIOUS
<1>1. CASE UNCHANGED vars
  BY <1>1 DEF vars, Inv, Promise!vars
<1>2. CASE Step
  BY <1>2, SearchInv, NotFoundInv, FoundInv, EraseHereInv, MinValueInv, ReplaceInv,
     RebuildInv, FinishInv DEF Step, Promise!Next
<1>3. ASSUME NEW op \in Operation, NEW v \in Key, Start(op, v)
      PROVE  Inv' /\ Promise!Next
  BY <1>3, StartInv DEF Promise!Next, Operation
<1> QED
  BY <1>1, <1>2, <1>3 DEF Next, Operation

LEMMA Invariance == Spec => []Inv
<1> QED
  BY InitInv, StepInv, PTL DEF Spec

\* insert, erase and contains do to the client's set of keys what they are
\* asked for, once, when they return (search_tree_on_fix.cpp:66-125).
THEOREM SearchTreeImplementsKeySet == Spec => ImplementsKeySet
<1> QED
  BY InitInv, Invariance, StepInv, PTL DEF Spec, ImplementsKeySet, Promise!Spec

-----------------------------------------------------------------------------
(* An insert of a key that is there, and an erase of one that is not, build  *)
(* the tree that was there.                                                  *)
Idle(c, K) == \/ c.op = "insert" /\ c.arg \in K
              \/ c.op = "erase" /\ c.arg \notin K

\* The frames of `path` around t make up the tree `whole`.
Retraced(path, whole, t) ==
  \E L : (\A p \in L : p[2] = Plug(p[1], p[3])) /\ Chain(path, L, whole, t)

Retracing ==
  call # NoCall /\ Idle(call, keys) =>
    /\ call.phase \in {"down", "up"}
    /\ Retraced(call.path, tree, call.at)
    /\ call.phase = "down" =>
         /\ call.key = call.arg
         /\ \E A : Holds(call.at, A) /\ (call.key \in A <=> call.arg \in keys)

LEMMA RetracedPush ==
  ASSUME NEW S, NEW path \in Seq(S), NEW f, NEW whole, NEW t,
         Retraced(path, whole, Plug(f, t))
  PROVE  Retraced(Append(path, f), whole, t)
<1>1. PICK L : (\A p \in L : p[2] = Plug(p[1], p[3])) /\ Chain(path, L, whole, Plug(f, t))
  BY DEF Retraced
<1> DEFINE M == L \cup {<<f, Plug(f, t), t>>}
<1>2. \A p \in M : p[2] = Plug(p[1], p[3])
  BY <1>1
<1>3. Chain(Append(path, f), M, whole, t)
  BY <1>1, ChainPush
<1> QED
  BY <1>2, <1>3 DEF Retraced

LEMMA RetracedPop ==
  ASSUME NEW S, NEW path \in Seq(S), path # <<>>, NEW whole, NEW t,
         Retraced(path, whole, t)
  PROVE  Retraced(SubSeq(path, 1, Len(path) - 1), whole, Plug(path[Len(path)], t))
<1>1. PICK L : (\A p \in L : p[2] = Plug(p[1], p[3])) /\ Chain(path, L, whole, t)
  BY DEF Retraced
<1>2. PICK outer : /\ <<path[Len(path)], outer, t>> \in L
                   /\ Chain(SubSeq(path, 1, Len(path) - 1), L, whole, outer)
  BY <1>1, ChainPop
<1>3. outer = Plug(path[Len(path)], t)
  BY <1>1, <1>2
<1> QED
  BY <1>1, <1>2, <1>3 DEF Retraced

LEMMA RetracedEmpty ==
  ASSUME NEW whole
  PROVE  Retraced(<<>>, whole, whole) /\ \A t : Retraced(<<>>, whole, t) => t = whole
<1>1. Chain(<<>>, {}, whole, whole)
  BY ChainEmpty
<1>2. Retraced(<<>>, whole, whole)
  BY <1>1 DEF Retraced
<1>3. \A t : Retraced(<<>>, whole, t) => t = whole
  BY ChainEmpty DEF Retraced
<1> QED
  BY <1>2, <1>3

\* The steps inside an operation that is idle.
LEMMA RetracingInside ==
  ASSUME Inv, call # NoCall, Retracing, Idle(call, keys), Step, ~Finish
  PROVE  /\ call'.phase \in {"down", "up"} /\ tree' = tree
         /\ Retraced(call'.path, tree, call'.at)
         /\ call'.phase = "down" =>
              /\ call'.key = call'.arg
              /\ \E A : Holds(call'.at, A) /\ (call'.key \in A <=> call'.arg \in keys)
<1>1. /\ call.phase \in {"down", "up"}
      /\ Retraced(call.path, tree, call.at)
      /\ call.op \in {"insert", "erase"} /\ call.op # "contains"
  BY DEF Retracing, Idle
<1>2. IsCall(call)
  BY DEF Inv
<1>3. PICK S : call.path \in Seq(S)
  BY <1>2 DEF IsCall
<1>4. ASSUME call.phase = "down"
      PROVE  /\ call.key = call.arg
             /\ \E A : Holds(call.at, A) /\ (call.key \in A <=> call.arg \in keys)
  BY <1>4 DEF Retracing
<1>5. ASSUME Searching, call.at # NoTree, NEW f, NEW t, GoDown(f, t),
             \/ call.key < call.at.value /\ f = LeftOf(call.at.value, call.at.right)
                /\ t = call.at.left
             \/ call.at.value < call.key /\ f = RightOf(call.at.value, call.at.left)
                /\ t = call.at.right
      PROVE  /\ call'.phase = "down" /\ tree' = tree
             /\ Retraced(call'.path, tree, call'.at)
             /\ call'.key = call'.arg
             /\ \E A : Holds(call'.at, A) /\ (call'.key \in A <=> call'.arg \in keys)
  <2>1. call.phase = "down" /\ tree' = tree
    BY <1>5 DEF Searching
  <2>2. PICK A : Holds(call.at, A) /\ (call.key \in A <=> call.arg \in keys)
    BY <1>4, <2>1
  <2> call.key \in Key
    BY <1>2 DEF IsCall
  <2>3. /\ call.at = Plug(f, t)
        /\ \E C : Holds(t, C) /\ (call.key \in A <=> call.key \in C)
    <3>1. /\ call.at = Plug(f, t)
          /\ \E C : /\ Holds(t, C) /\ C \subseteq A
                    /\ call.key \in A <=> call.key \in C
                    /\ \A op \in {"insert", "erase"} :
                         Owes(f, Outcome(op, call.key, A), Outcome(op, call.key, C))
      BY <1>5, <2>2, GoesTo
    <3> QED
      BY <3>1
  <2>4. /\ call'.phase = "down" /\ call'.key = call.key /\ call'.arg = call.arg
        /\ call'.at = t /\ call'.path = Append(call.path, f)
    BY <1>1, <1>2, <1>5, <2>1 DEF GoDown, IsCall
  <2>5. Retraced(call'.path, tree, t)
    BY <1>1, <1>3, <2>3, <2>4, RetracedPush
  <2> QED
    BY <1>4, <2>1, <2>2, <2>3, <2>4, <2>5
<1>6. CASE SearchLeft
  BY <1>5, <1>6 DEF SearchLeft
<1>7. CASE SearchRight
  BY <1>5, <1>7 DEF SearchRight
<1>8. ASSUME Searching, Yield(call.at)
      PROVE  /\ call'.phase = "up" /\ tree' = tree
             /\ Retraced(call'.path, tree, call'.at)
  BY <1>1, <1>2, <1>8 DEF Searching, Yield, IsCall
<1>9. CASE NotFound
  <2>1. call.at = NoTree /\ call.phase = "down" /\ Searching
    BY <1>9 DEF NotFound, Searching
  <2>2. call.arg \notin keys
    BY <1>4, <2>1, HoldsInverted
  <2>3. call.op = "erase"
    BY <2>2 DEF Idle
  <2>4. Yield(call.at)
    BY <1>9, <2>1, <2>3 DEF NotFound
  <2> QED
    BY <1>8, <2>1, <2>4
<1>10. CASE Found
  BY <1>8, <1>10 DEF Found
<1>11. CASE EraseHere
  <2>1. /\ call.at # NoTree /\ call.phase = "down" /\ call.at.value = call.key
        /\ call.op = "erase"
    BY <1>11 DEF EraseHere, Here, Searching
  <2>2. call.arg \in keys
    BY <1>4, <2>1, HoldsInverted
  <2> QED
    BY <2>1, <2>2 DEF Idle
<1>12. CASE MinValue \/ Replace
  BY <1>1, <1>12 DEF MinValue, Replace
<1>13. CASE Rebuild
  <2>1. /\ call.phase = "up" /\ call.path # <<>> /\ tree' = tree
    BY <1>13 DEF Rebuild
  <2>2. /\ call'.phase = "up"
        /\ call'.path = SubSeq(call.path, 1, Len(call.path) - 1)
        /\ call'.at = Plug(call.path[Len(call.path)], call.at)
    BY <1>2, <1>13, <2>1 DEF Rebuild, IsCall
  <2> QED
    BY <1>1, <1>3, <2>1, <2>2, RetracedPop
<1> QED
  BY <1>6, <1>7, <1>9, <1>10, <1>11, <1>12, <1>13 DEF Step

LEMMA RetracingStep == Inv /\ Retracing /\ [Next]_vars => Retracing'
<1> SUFFICES ASSUME Inv, Retracing, [Next]_vars, call' # NoCall, Idle(call', keys')
             PROVE  /\ call'.phase \in {"down", "up"}
                    /\ Retraced(call'.path, tree', call'.at)
                    /\ call'.phase = "down" =>
                         /\ call'.key = call'.arg
                         /\ \E A : Holds(call'.at, A) /\ (call'.key \in A <=> call'.arg \in keys')
  BY DEF Retracing
<1>1. CASE UNCHANGED vars
  BY <1>1 DEF vars, Retracing
<1>2. CASE Finish
  BY <1>2 DEF Finish
<1>3. CASE Step /\ ~Finish
  <2>1. call # NoCall /\ UNCHANGED keys
    BY <1>3 DEF Step, SearchLeft, SearchRight, NotFound, Found, EraseHere, MinValue, Replace,
                Rebuild, Searching, NoCall
  <2>2. IsCall(call)
    BY <2>1 DEF Inv
  <2>3. call'.op = call.op /\ call'.arg = call.arg
    BY <1>3, <2>2 DEF IsCall, Step, SearchLeft, SearchRight, NotFound, Found, EraseHere,
                      MinValue, Replace, Rebuild, GoDown, Yield
  <2>4. Idle(call, keys)
    BY <2>1, <2>3 DEF Idle
  <2> QED
    BY <1>3, <2>1, <2>4, RetracingInside
<1>4. ASSUME NEW op \in Operation, NEW v \in Key, Start(op, v)
      PROVE  /\ call'.phase \in {"down", "up"}
             /\ Retraced(call'.path, tree', call'.at)
             /\ call'.key = call'.arg
             /\ \E A : Holds(call'.at, A) /\ (call'.key \in A <=> call'.arg \in keys')
  <2>1. /\ tree' = tree /\ keys' = keys /\ call'.phase = "down" /\ call'.key = v
        /\ call'.arg = v /\ call'.at = tree /\ call'.path = <<>>
    BY <1>4 DEF Start
  <2>2. Holds(tree, keys)
    BY DEF Inv
  <2> QED
    BY <2>1, <2>2, RetracedEmpty
<1> QED
  BY <1>1, <1>2, <1>3, <1>4 DEF Next, Operation

LEMMA IdleStep == Inv /\ Retracing /\ [Next]_vars => (keys' = keys => tree' = tree)
<1> SUFFICES ASSUME Inv, Retracing, [Next]_vars, keys' = keys
             PROVE  tree' = tree
  OBVIOUS
<1>1. CASE Finish
  <2>1. /\ call # NoCall /\ call.phase = "up" /\ call.path = <<>>
        /\ keys' = Outcome(call.op, call.arg, keys)
    BY <1>1 DEF Finish, NoCall
  <2>2. call.op \in Operation
    BY <2>1 DEF Inv, IsCall
  <2>3. CASE call.op = "contains"
    BY <1>1, <2>3 DEF Finish
  <2>4. CASE call.op # "contains"
    <3>1. Idle(call, keys)
      BY <2>1, <2>2, <2>4 DEF Outcome, Operation, Idle
    <3>2. Retraced(call.path, tree, call.at)
      BY <2>1, <3>1 DEF Retracing
    <3>3. Retraced(<<>>, tree, call.at)
      BY <2>1, <3>2
    <3>4. \A t : Retraced(<<>>, tree, t) => t = tree
      BY RetracedEmpty
    <3>5. call.at = tree
      BY <3>3, <3>4
    <3> QED
      BY <1>1, <2>4, <3>5 DEF Finish
  <2> QED
    BY <2>3, <2>4
<1>2. CASE ~Finish
  BY <1>2 DEF Next, Step, Start, SearchLeft, SearchRight, NotFound, Found, EraseHere, MinValue,
              Replace, Rebuild, Searching, vars
<1> QED
  BY <1>1, <1>2

\* "Duplicates are dropped": an operation that leaves the set of keys as it is
\* leaves the tree as it is, shape included, although insert and erase rebuild
\* the path they took (search_tree_on_fix.cpp:66-80, 104-125).
THEOREM SearchTreeSameSetSameTree == Spec => SameSetSameTree
<1>1. Init => Retracing
  BY DEF Init, Retracing
<1> QED
  BY <1>1, Invariance, RetracingStep, IdleStep, PTL DEF Spec, SameSetSameTree

-----------------------------------------------------------------------------
(* The levels of a tree.                                                     *)
Levels(f, t, n) ==
  f = [k \in 0..n |-> IF k = 0 THEN {t} \ {NoTree} ELSE Kids(f[k - 1])]

LEMMA LevelsUpTo ==
  ASSUME NEW f, NEW t, NEW n \in Nat, Levels(f, t, n)
  PROVE  f[0] = {t} \ {NoTree} /\ \A k \in 1..n : f[k] = Kids(f[k - 1])
BY DEF Levels

LEMMA LevelsExist ==
  ASSUME NEW t, NEW N \in Nat
  PROVE  \E f : Levels(f, t, N)
<1> DEFINE P == {n \in 0..N : \E f : Levels(f, t, n)}
<1>1. 0 \in P
  <2> DEFINE f == [k \in 0..0 |-> {t} \ {NoTree}]
  <2>1. f = [k \in 0..0 |-> IF k = 0 THEN {t} \ {NoTree} ELSE Kids(f[k - 1])]
    OBVIOUS
  <2> HIDE DEF f
  <2>2. Levels(f, t, 0)
    BY <2>1 DEF Levels
  <2> QED
    BY <2>2
<1>2. ASSUME NEW n \in 0..N, n # N, n \in P
      PROVE  n + 1 \in P
  <2>1. PICK f : Levels(f, t, n)
    BY <1>2
  <2>2. f[0] = {t} \ {NoTree} /\ \A k \in 1..n : f[k] = Kids(f[k - 1])
    BY <2>1, LevelsUpTo
  <2> DEFINE g == [k \in 0..n + 1 |-> IF k = n + 1 THEN Kids(f[n]) ELSE f[k]]
  <2>3. ASSUME NEW k \in 0..n + 1
        PROVE  g[k] = IF k = 0 THEN {t} \ {NoTree} ELSE Kids(g[k - 1])
    <3>1. CASE k = 0
      BY <2>2, <3>1
    <3>2. CASE k # 0
      <4>1. k - 1 \in 0..n /\ g[k - 1] = f[k - 1]
        BY <3>2
      <4>2. CASE k = n + 1
        BY <3>2, <4>1, <4>2
      <4>3. CASE k # n + 1
        BY <2>2, <3>2, <4>1, <4>3
      <4> QED
        BY <4>2, <4>3
    <3> QED
      BY <3>1, <3>2
  <2>4. g = [k \in 0..n + 1 |-> g[k]]
    OBVIOUS
  <2> HIDE DEF g
  <2>5. Levels(g, t, n + 1)
    BY <2>3, <2>4 DEF Levels
  <2>6. n + 1 \in 0..N
    BY <1>2
  <2> QED
    BY <2>5, <2>6
<1>3. N \in P
  <2> HIDE DEF P
  <2> QED
    BY <1>1, <1>2, CountingInduction
<1> QED
  BY <1>3

LEMMA LevelsAgree ==
  ASSUME NEW t, NEW m \in Nat, NEW n \in Nat, m <= n,
         NEW f, NEW g, Levels(f, t, m), Levels(g, t, n)
  PROVE  \A k \in 0..m : f[k] = g[k]
<1> DEFINE P == {k \in 0..m : f[k] = g[k]}
<1>1. /\ f[0] = {t} \ {NoTree} /\ \A k \in 1..m : f[k] = Kids(f[k - 1])
      /\ g[0] = {t} \ {NoTree} /\ \A k \in 1..n : g[k] = Kids(g[k - 1])
  BY LevelsUpTo
<1>2. 0 \in P
  BY <1>1
<1>3. ASSUME NEW k \in 0..m, k # m, k \in P
      PROVE  k + 1 \in P
  <2>1. k + 1 \in 1..m /\ k + 1 \in 1..n /\ k + 1 \in 0..m /\ (k + 1) - 1 = k
    BY <1>3
  <2>2. f[k] = g[k]
    BY <1>3
  <2>3. f[k + 1] = Kids(f[k]) /\ g[k + 1] = Kids(g[k])
    BY <1>1, <2>1
  <2> QED
    BY <2>1, <2>2, <2>3
<1>4. \A k \in 0..m : k \in P
  <2> HIDE DEF P
  <2> QED
    BY <1>2, <1>3, CountingInduction
<1> QED
  BY <1>4

LEMMA LevelRead ==
  ASSUME NEW t, NEW n \in Nat, NEW f, Levels(f, t, n)
  PROVE  \A k \in 0..n : Level(t, k) = f[k]
<1> SUFFICES ASSUME NEW k \in 0..n
             PROVE  Level(t, k) = f[k]
  OBVIOUS
<1> DEFINE g == CHOOSE h : h = [i \in 0..k |-> IF i = 0 THEN {t} \ {NoTree} ELSE Kids(h[i - 1])]
<1>1. Level(t, k) = g[k]
  BY DEF Level
<1>2. \E h : h = [i \in 0..k |-> IF i = 0 THEN {t} \ {NoTree} ELSE Kids(h[i - 1])]
  <2>1. \E h : Levels(h, t, k)
    BY LevelsExist
  <2> QED
    BY <2>1 DEF Levels
<1>3. g = [i \in 0..k |-> IF i = 0 THEN {t} \ {NoTree} ELSE Kids(g[i - 1])]
  BY <1>2
<1> HIDE DEF g
<1>4. Levels(g, t, k)
  BY <1>3 DEF Levels
<1>5. k \in Nat /\ k <= n /\ k \in 0..k
  OBVIOUS
<1>6. g[k] = f[k]
  BY <1>4, <1>5, LevelsAgree
<1> QED
  BY <1>1, <1>6

LEMMA LevelSteps ==
  ASSUME NEW t, NEW n \in Nat
  PROVE  Level(t, 0) = {t} \ {NoTree} /\ Level(t, n + 1) = Kids(Level(t, n))
<1>1. PICK f : Levels(f, t, n + 1)
  BY LevelsExist
<1>2. n \in 0..n + 1 /\ n + 1 \in 0..n + 1 /\ 0 \in 0..n + 1 /\ n + 1 \in 1..n + 1 /\ (n + 1) - 1 = n
      /\ n + 1 \in Nat
  OBVIOUS
<1>3. f[0] = {t} \ {NoTree} /\ f[n + 1] = Kids(f[n])
  BY <1>1, <1>2, LevelsUpTo
<1>4. Level(t, 0) = f[0] /\ Level(t, n) = f[n] /\ Level(t, n + 1) = f[n + 1]
  BY <1>1, <1>2, LevelRead
<1> QED
  BY <1>3, <1>4

\* Below its root a tree has the levels of its subtrees, one link higher.
LEMMA LevelBelow ==
  ASSUME NEW t, t # NoTree, NEW N \in Nat
  PROVE  Level(t, N + 1) = Level(t.left, N) \cup Level(t.right, N)
<1> DEFINE P == {n \in 0..N : Level(t, n + 1) = Level(t.left, n) \cup Level(t.right, n)}
<1>1. \A u : Level(u, 0) = {u} \ {NoTree}
  BY LevelSteps
<1>2. \A u, n : n \in Nat => Level(u, n + 1) = Kids(Level(u, n))
  BY LevelSteps
<1>3. 0 \in P
  <2>1. Level(t, 0 + 1) = Kids({t})
    BY <1>1, <1>2
  <2> QED
    BY <1>1, <2>1 DEF Kids
<1>4. ASSUME NEW n \in 0..N, n # N, n \in P
      PROVE  n + 1 \in P
  <2>1. n + 1 \in 0..N /\ n \in Nat /\ n + 1 \in Nat
    BY <1>4
  <2>2. Level(t, n + 1) = Level(t.left, n) \cup Level(t.right, n)
    BY <1>4
  <2>3. /\ Level(t, n + 1 + 1) = Kids(Level(t, n + 1))
        /\ Level(t.left, n + 1) = Kids(Level(t.left, n))
        /\ Level(t.right, n + 1) = Kids(Level(t.right, n))
    BY <1>2, <2>1
  <2>4. \A A, B : Kids(A \cup B) = Kids(A) \cup Kids(B)
    BY DEF Kids
  <2>5. Level(t, n + 1 + 1) = Level(t.left, n + 1) \cup Level(t.right, n + 1)
    BY <2>2, <2>3, <2>4
  <2> QED
    BY <2>1, <2>5
<1>5. N \in P
  <2> HIDE DEF P
  <2> QED
    BY <1>3, <1>4, CountingInduction
<1> QED
  BY <1>5

LEMMA LevelMonotone ==
  ASSUME NEW t, NEW n \in Nat, Level(t, n) = {}
  PROVE  Level(t, n + 1) = {}
<1>1. Level(t, n + 1) = Kids({})
  BY LevelSteps
<1> QED
  BY <1>1 DEF Kids

LEMMA NothingBelow ==
  ASSUME NEW N \in Nat
  PROVE  Level(NoTree, N) = {}
<1> DEFINE P == {n \in 0..N : Level(NoTree, n) = {}}
<1>1. 0 \in P
  BY LevelSteps
<1>2. ASSUME NEW n \in 0..N, n # N, n \in P
      PROVE  n + 1 \in P
  BY <1>2, LevelMonotone
<1>3. N \in P
  <2> HIDE DEF P
  <2> QED
    BY <1>1, <1>2, CountingInduction
<1> QED
  BY <1>3

\* The subtrees of a node are l and r.
Over(t, l, r) ==
  Level(t, 0) # {} /\ \A n \in Nat : Level(t, n + 1) = Level(l, n) \cup Level(r, n)

LEMMA OverSubtrees ==
  ASSUME NEW t, t # NoTree
  PROVE  Over(t, t.left, t.right)
<1>1. Level(t, 0) # {}
  BY LevelSteps
<1> QED
  BY <1>1, LevelBelow DEF Over

LEMMA OverOfNode ==
  ASSUME NEW v, NEW l, NEW r
  PROVE  Over(Node(v, l, r), l, r)
<1> DEFINE t == Node(v, l, r)
<1>1. t # NoTree /\ t.left = l /\ t.right = r
  BY NodeFacts
<1> HIDE DEF t
<1>2. Over(t, l, r)
  BY <1>1, OverSubtrees
<1> QED
  BY <1>2 DEF t

-----------------------------------------------------------------------------
(* The nodes of a search tree.                                               *)

LEMMA NodesHold ==
  ASSUME NEW N \in Nat, NEW tt, NEW KK, Holds(tt, KK)
  PROVE  \A u \in Level(tt, N) : u # NoTree /\ \E A : Holds(u, A) /\ A \subseteq KK
<1> DEFINE Part(t, K, n) ==
             \A u \in Level(t, n) : u # NoTree /\ \E A : Holds(u, A) /\ A \subseteq K
           P == {n \in 0..N : \A t, K : Holds(t, K) => Part(t, K, n)}
<1>1. 0 \in P
  <2>1. \A t : Level(t, 0) = {t} \ {NoTree}
    BY LevelSteps
  <2> QED
    BY <2>1
<1>2. ASSUME NEW n \in 0..N, n # N, n \in P
      PROVE  n + 1 \in P
  <2>1. ASSUME NEW t, NEW K, Holds(t, K)
        PROVE  Part(t, K, n + 1)
    <3>1. CASE t = NoTree
      <4>1. Level(t, n + 1) = {}
        BY <3>1, NothingBelow
      <4> QED
        BY <4>1
    <3>2. CASE t # NoTree
      <4>1. Level(t, n + 1) = Level(t.left, n) \cup Level(t.right, n)
        BY <3>2, LevelBelow
      <4>2. PICK A, B : /\ Holds(t.left, A) /\ Holds(t.right, B)
                        /\ K = {t.value} \cup A \cup B
        BY <2>1, <3>2, HoldsInverted
      <4>3. Part(t.left, A, n) /\ Part(t.right, B, n)
        BY <1>2, <4>2
      <4>4. A \subseteq K /\ B \subseteq K
        BY <4>2
      <4> QED
        BY <4>1, <4>3, <4>4
    <3> QED
      BY <3>1, <3>2
  <2> QED
    BY <1>2, <2>1
<1>3. N \in P
  <2> HIDE DEF P
  <2> QED
    BY <1>1, <1>2, CountingInduction
<1> QED
  BY <1>3

LEMMA NodeValues ==
  ASSUME NEW t, NEW K, Holds(t, K), NEW n \in Nat
  PROVE  \A u \in Level(t, n) : u.value \in K
<1>1. ASSUME NEW u \in Level(t, n)
      PROVE  u.value \in K
  <2>1. u # NoTree /\ \E A : Holds(u, A) /\ A \subseteq K
    BY NodesHold
  <2>2. PICK A : Holds(u, A) /\ A \subseteq K
    BY <2>1
  <2>3. u.value \in A
    BY <2>1, <2>2, HoldsInverted
  <2> QED
    BY <2>2, <2>3
<1> QED
  BY <1>1

\* The subtrees of a node have fewer keys.
LEMMA FewerKeys ==
  ASSUME NEW t, NEW K, Holds(t, K), IsFiniteSet(K), t # NoTree
  PROVE  /\ Cardinality(K) \in Nat \ {0}
         /\ \E A, B : /\ Holds(t.left, A) /\ Holds(t.right, B)
                      /\ K = {t.value} \cup A \cup B
                      /\ IsFiniteSet(A) /\ Cardinality(A) \in 0..Cardinality(K) - 1
                      /\ IsFiniteSet(B) /\ Cardinality(B) \in 0..Cardinality(K) - 1
<1>1. PICK A, B : /\ Holds(t.left, A) /\ Holds(t.right, B)
                  /\ Below(A, t.value) /\ Above(B, t.value)
                  /\ K = {t.value} \cup A \cup B
  BY HoldsInverted
<1>2. K \subseteq Int
  BY KeysAreIntegers
<1>3. t.value \in K /\ A \subseteq K \ {t.value} /\ B \subseteq K \ {t.value}
  BY <1>1, <1>2 DEF Below, Above
<1>4. /\ IsFiniteSet(K \ {t.value})
      /\ Cardinality(K \ {t.value}) = Cardinality(K) - 1
      /\ Cardinality(K) \in Nat /\ Cardinality(K \ {t.value}) \in Nat
  <2>1. IsFiniteSet(K \ {t.value}) /\ Cardinality(K \ {t.value}) = Cardinality(K) - 1
    BY <1>3, FS_RemoveElement
  <2> QED
    BY <2>1, FS_CardinalityType
<1>5. \A S : S \subseteq K \ {t.value} =>
        IsFiniteSet(S) /\ Cardinality(S) \in Nat /\ Cardinality(S) <= Cardinality(K) - 1
  <2> SUFFICES ASSUME NEW S, S \subseteq K \ {t.value}
               PROVE  IsFiniteSet(S) /\ Cardinality(S) \in Nat /\ Cardinality(S) <= Cardinality(K) - 1
    OBVIOUS
  <2>1. IsFiniteSet(S) /\ Cardinality(S) <= Cardinality(K \ {t.value})
    BY <1>4, FS_Subset
  <2> QED
    BY <1>4, <2>1, FS_CardinalityType
<1>6. Cardinality(K) \in Nat \ {0}
  BY <1>4
<1> QED
  BY <1>1, <1>3, <1>4, <1>5, <1>6

\* A search tree is no deeper than it has keys.
LEMMA NoDeeper ==
  ASSUME NEW N \in Nat, NEW tt, NEW KK, Holds(tt, KK), IsFiniteSet(KK), Cardinality(KK) <= N
  PROVE  Level(tt, N) = {}
<1> DEFINE P == {n \in 0..N : \A t, K : /\ Holds(t, K) /\ IsFiniteSet(K)
                                        /\ Cardinality(K) <= n
                                        => Level(t, n) = {}}
<1>1. ASSUME NEW n \in 0..N, NEW t, NEW K, Holds(t, K), IsFiniteSet(K), Cardinality(K) <= n,
             n = 0 \/ n - 1 \in P
      PROVE  Level(t, n) = {}
  <2>1. CASE t = NoTree
    BY <2>1, NothingBelow
  <2>2. CASE t # NoTree
    <3>1. PICK A, B : /\ Holds(t.left, A) /\ Holds(t.right, B)
                      /\ IsFiniteSet(A) /\ Cardinality(A) \in 0..Cardinality(K) - 1
                      /\ IsFiniteSet(B) /\ Cardinality(B) \in 0..Cardinality(K) - 1
      BY <1>1, <2>2, FewerKeys
    <3>2. Cardinality(K) \in Nat \ {0}
      BY <1>1, <2>2, FewerKeys
    <3>3. n # 0 /\ n - 1 \in Nat /\ (n - 1) + 1 = n
          /\ Cardinality(A) <= n - 1 /\ Cardinality(B) <= n - 1
      BY <1>1, <3>1, <3>2
    <3>4. Level(t.left, n - 1) = {} /\ Level(t.right, n - 1) = {}
      BY <1>1, <3>1, <3>3
    <3>5. Level(t, (n - 1) + 1) = Level(t.left, n - 1) \cup Level(t.right, n - 1)
      BY <2>2, <3>3, LevelBelow
    <3> QED
      BY <3>3, <3>4, <3>5
  <2> QED
    BY <2>1, <2>2
<1>2. 0 \in P
  BY <1>1
<1>3. ASSUME NEW n \in 0..N, n # N, n \in P
      PROVE  n + 1 \in P
  <2>1. n + 1 \in 0..N /\ (n + 1) - 1 = n
    BY <1>3
  <2>2. (n + 1) - 1 \in P
    BY <1>3, <2>1
  <2> HIDE DEF P
  <2>3. \A t, K : Holds(t, K) /\ IsFiniteSet(K) /\ Cardinality(K) <= n + 1 => Level(t, n + 1) = {}
    BY <1>1, <2>1, <2>2
  <2> QED
    BY <2>1, <2>3 DEF P
<1>4. N \in P
  <2> HIDE DEF P
  <2> QED
    BY <1>2, <1>3, CountingInduction
<1> QED
  BY <1>4

\* Every key is the value of a node.
LEMMA KeysHaveNodes ==
  ASSUME NEW N \in Nat, NEW tt, NEW KK, Holds(tt, KK), IsFiniteSet(KK), Cardinality(KK) <= N
  PROVE  \A k \in KK : \E n \in Nat : \E u \in Level(tt, n) : u.value = k
<1> DEFINE Present(t, K) == \A k \in K : \E n \in Nat : \E u \in Level(t, n) : u.value = k
           P == {n \in 0..N : \A t, K : /\ Holds(t, K) /\ IsFiniteSet(K)
                                        /\ Cardinality(K) <= n
                                        => Present(t, K)}
<1>1. ASSUME NEW n \in 0..N, NEW t, NEW K, Holds(t, K), IsFiniteSet(K), Cardinality(K) <= n,
             n = 0 \/ n - 1 \in P
      PROVE  Present(t, K)
  <2>1. CASE t = NoTree
    BY <1>1, <2>1, HoldsInverted
  <2>2. CASE t # NoTree
    <3>1. PICK A, B : /\ Holds(t.left, A) /\ Holds(t.right, B)
                      /\ K = {t.value} \cup A \cup B
                      /\ IsFiniteSet(A) /\ Cardinality(A) \in 0..Cardinality(K) - 1
                      /\ IsFiniteSet(B) /\ Cardinality(B) \in 0..Cardinality(K) - 1
      BY <1>1, <2>2, FewerKeys
    <3>2. Cardinality(K) \in Nat \ {0}
      BY <1>1, <2>2, FewerKeys
    <3>3. n # 0 /\ Cardinality(A) <= n - 1 /\ Cardinality(B) <= n - 1
      BY <1>1, <3>1, <3>2
    <3>4. Present(t.left, A) /\ Present(t.right, B)
      BY <1>1, <3>1, <3>3
    <3>5. \A m \in Nat : Level(t, m + 1) = Level(t.left, m) \cup Level(t.right, m)
      BY <2>2, LevelBelow
    <3>6. t \in Level(t, 0)
      BY <2>2, LevelSteps
    <3>7. ASSUME NEW k \in A \cup B
          PROVE  \E m \in Nat : \E u \in Level(t, m) : u.value = k
      <4>1. PICK m \in Nat : \E u \in Level(t.left, m) \cup Level(t.right, m) : u.value = k
        BY <3>4
      <4>2. Level(t, m + 1) = Level(t.left, m) \cup Level(t.right, m) /\ m + 1 \in Nat
        BY <3>5
      <4> QED
        BY <4>1, <4>2
    <3> QED
      BY <3>1, <3>6, <3>7
  <2> QED
    BY <2>1, <2>2
<1>2. 0 \in P
  BY <1>1
<1>3. ASSUME NEW n \in 0..N, n # N, n \in P
      PROVE  n + 1 \in P
  <2>1. n + 1 \in 0..N /\ (n + 1) - 1 = n
    BY <1>3
  <2>2. (n + 1) - 1 \in P
    BY <1>3, <2>1
  <2> HIDE DEF P, Present
  <2>3. \A t, K : Holds(t, K) /\ IsFiniteSet(K) /\ Cardinality(K) <= n + 1 => Present(t, K)
    BY <1>1, <2>1, <2>2
  <2> QED
    BY <2>1, <2>3 DEF P
<1>4. N \in P
  <2> HIDE DEF P
  <2> QED
    BY <1>2, <1>3, CountingInduction
<1> QED
  BY <1>4

\* What holds the keys, or one more, is ordered.
LEMMA HeldIsOrdered ==
  ASSUME NEW t, NEW K, Holds(t, K), IsFiniteSet(K), IsFiniteSet(keys),
         Cardinality(K) <= Cardinality(keys) + 1
  PROVE  IsOrdered(t)
<1>1. Cardinality(keys) \in Nat /\ Cardinality(keys) + 1 \in Nat
      /\ 0..Cardinality(keys) \subseteq Nat
  BY FS_CardinalityType
<1>2. Level(t, Cardinality(keys) + 1) = {}
  BY <1>1, NoDeeper
<1>3. ASSUME NEW u \in Nodes(t)
      PROVE  /\ \A w \in Nodes(u.left) : w.value < u.value
             /\ \A w \in Nodes(u.right) : u.value < w.value
  <2>1. PICK n \in Nat : u \in Level(t, n)
    BY <1>1 DEF Nodes
  <2>2. u # NoTree /\ \E A : Holds(u, A)
    BY <2>1, NodesHold
  <2>3. PICK A, B : /\ Holds(u.left, A) /\ Holds(u.right, B)
                    /\ Below(A, u.value) /\ Above(B, u.value)
    BY <2>2, HoldsInverted
  <2>4. /\ \A w \in Nodes(u.left) : w.value \in A
        /\ \A w \in Nodes(u.right) : w.value \in B
    BY <1>1, <2>3, NodeValues DEF Nodes
  <2> QED
    BY <2>3, <2>4 DEF Below, Above
<1> QED
  BY <1>2, <1>3 DEF IsOrdered

LEMMA HeldKeys ==
  ASSUME Holds(tree, keys), IsFiniteSet(keys)
  PROVE  IsOrdered(tree) /\ {u.value : u \in Nodes(tree)} = keys
<1> DEFINE c == Cardinality(keys)
<1>1. c \in Nat /\ 0..c \subseteq Nat /\ c <= c + 1
  BY FS_CardinalityType
<1>2. IsOrdered(tree)
  BY <1>1, HeldIsOrdered
<1>3. \A u \in Nodes(tree) : u.value \in keys
  BY <1>1, NodeValues DEF Nodes
<1>4. ASSUME NEW k \in keys
      PROVE  \E u \in Nodes(tree) : u.value = k
  <2>1. c <= c
    BY <1>1
  <2>2. PICK n \in Nat : \E u \in Level(tree, n) : u.value = k
    BY <1>1, <2>1, KeysHaveNodes
  <2>3. n <= c
    <3>1. n > c => Level(tree, n) = {}
      <4>1. n > c => c <= n
        BY <1>1
      <4> QED
        BY <4>1, NoDeeper
    <3> QED
      BY <1>1, <2>2, <3>1
  <2>4. n \in 0..c
    BY <1>1, <2>3
  <2> QED
    BY <2>2, <2>4 DEF Nodes
<1> QED
  BY <1>2, <1>3, <1>4

-----------------------------------------------------------------------------
(* The tree that the frames of `path` make around t, from the inside out.    *)
Assembly(f, path, t, n) ==
  f = [k \in 0..n |-> IF k = 0 THEN t ELSE Plug(path[Len(path) - k + 1], f[k - 1])]

LEMMA AssemblyUpTo ==
  ASSUME NEW f, NEW path, NEW t, NEW n \in Nat, Assembly(f, path, t, n)
  PROVE  f[0] = t /\ \A k \in 1..n : f[k] = Plug(path[Len(path) - k + 1], f[k - 1])
BY DEF Assembly

LEMMA AssemblyExists ==
  ASSUME NEW path, NEW t, NEW N \in Nat
  PROVE  \E f : Assembly(f, path, t, N)
<1> DEFINE P == {n \in 0..N : \E f : Assembly(f, path, t, n)}
<1>1. 0 \in P
  <2> DEFINE f == [k \in 0..0 |-> t]
  <2>1. f = [k \in 0..0 |-> IF k = 0 THEN t ELSE Plug(path[Len(path) - k + 1], f[k - 1])]
    OBVIOUS
  <2> HIDE DEF f
  <2>2. Assembly(f, path, t, 0)
    BY <2>1 DEF Assembly
  <2> QED
    BY <2>2
<1>2. ASSUME NEW n \in 0..N, n # N, n \in P
      PROVE  n + 1 \in P
  <2>1. PICK f : Assembly(f, path, t, n)
    BY <1>2
  <2>2. f[0] = t /\ \A k \in 1..n : f[k] = Plug(path[Len(path) - k + 1], f[k - 1])
    BY <2>1, AssemblyUpTo
  <2> DEFINE g == [k \in 0..n + 1 |->
                     IF k = n + 1 THEN Plug(path[Len(path) - (n + 1) + 1], f[n]) ELSE f[k]]
  <2>3. ASSUME NEW k \in 0..n + 1
        PROVE  g[k] = IF k = 0 THEN t ELSE Plug(path[Len(path) - k + 1], g[k - 1])
    <3>1. CASE k = 0
      BY <2>2, <3>1
    <3>2. CASE k # 0
      <4>1. k - 1 \in 0..n /\ g[k - 1] = f[k - 1]
        BY <3>2
      <4>2. CASE k = n + 1
        BY <3>2, <4>1, <4>2
      <4>3. CASE k # n + 1
        BY <2>2, <3>2, <4>1, <4>3
      <4> QED
        BY <4>2, <4>3
    <3> QED
      BY <3>1, <3>2
  <2>4. g = [k \in 0..n + 1 |-> g[k]]
    OBVIOUS
  <2> HIDE DEF g
  <2>5. Assembly(g, path, t, n + 1)
    BY <2>3, <2>4 DEF Assembly
  <2>6. n + 1 \in 0..N
    BY <1>2
  <2> QED
    BY <2>5, <2>6
<1>3. N \in P
  <2> HIDE DEF P
  <2> QED
    BY <1>1, <1>2, CountingInduction
<1> QED
  BY <1>3

LEMMA AssembledTree ==
  ASSUME Len(call.path) \in Nat
  PROVE  \E f : /\ Assembly(f, call.path, call.at, Len(call.path))
                /\ TreeAssembled = f[Len(call.path)]
<1> DEFINE n == Len(call.path)
           up == CHOOSE f : f = [k \in 0..n |-> IF k = 0 THEN call.at
                                                ELSE Plug(call.path[n - k + 1], f[k - 1])]
<1>1. TreeAssembled = up[n]
  BY DEF TreeAssembled
<1>2. \E f : f = [k \in 0..n |-> IF k = 0 THEN call.at
                                 ELSE Plug(call.path[n - k + 1], f[k - 1])]
  <2>1. \E f : Assembly(f, call.path, call.at, n)
    BY AssemblyExists
  <2> QED
    BY <2>1 DEF Assembly
<1>3. up = [k \in 0..n |-> IF k = 0 THEN call.at ELSE Plug(call.path[n - k + 1], up[k - 1])]
  BY <1>2
<1> HIDE DEF up
<1>4. Assembly(up, call.path, call.at, n)
  BY <1>3 DEF Assembly
<1> QED
  BY <1>1, <1>4

LEMMA AssembledHolds ==
  ASSUME NEW S, NEW path \in Seq(S), NEW t, NEW A, NEW whole, Holds(t, A),
         Pathed(path, whole, A), NEW f, Assembly(f, path, t, Len(path))
  PROVE  Holds(f[Len(path)], whole)
<1> DEFINE N == Len(path)
<1>1. PICK L : (\A p \in L : Owes(p[1], p[2], p[3])) /\ Chain(path, L, whole, A)
  BY DEF Pathed
<1>2. PICK c : c[0] = whole /\ c[N] = A /\ \A i \in 1..N : <<path[i], c[i - 1], c[i]>> \in L
  BY <1>1 DEF Chain
<1>3. N \in Nat
  OBVIOUS
<1>4. f[0] = t /\ \A k \in 1..N : f[k] = Plug(path[N - k + 1], f[k - 1])
  BY <1>3, AssemblyUpTo
<1> HIDE DEF N
<1> DEFINE P == {k \in 0..N : Holds(f[k], c[N - k])}
<1>5. 0 \in P
  <2>1. N - 0 = N /\ 0 \in 0..N
    BY <1>3
  <2> QED
    BY <1>2, <1>4, <2>1
<1>6. ASSUME NEW k \in 0..N, k # N, k \in P
      PROVE  k + 1 \in P
  <2> DEFINE i == N - k
  <2>1. /\ i \in 1..N /\ i - 1 = N - (k + 1) /\ N - (k + 1) + 1 = i
        /\ k + 1 \in 1..N /\ k + 1 \in 0..N /\ (k + 1) - 1 = k
    BY <1>3, <1>6
  <2>2. Holds(f[k], c[i])
    BY <1>6
  <2>3. f[k + 1] = Plug(path[i], f[k])
    BY <1>4, <2>1
  <2> HIDE DEF i
  <2>4. <<path[i], c[i - 1], c[i]>> \in L
    BY <1>2, <2>1
  <2>5. Owes(path[i], c[i - 1], c[i])
    BY <1>1, <2>4
  <2>6. Holds(f[k + 1], c[i - 1])
    BY <2>2, <2>3, <2>5, PlugHolds
  <2> QED
    BY <2>1, <2>6
<1>7. N \in P
  <2> HIDE DEF P
  <2>1. \A k \in 0..N : k # N /\ k \in P => k + 1 \in P
    BY <1>6
  <2>2. \A k \in 0..N : k \in P
    BY <1>3, <1>5, <2>1, CountingInduction
  <2> QED
    BY <1>3, <2>2
<1>8. N - N = 0
  BY <1>3
<1> QED
  BY <1>2, <1>7, <1>8 DEF N

\* The tree of a returning call has at most one key more than the client's.
LEMMA AssembledIsOrdered ==
  ASSUME Inv, IsFiniteSet(keys), call # NoCall, call.phase = "up"
  PROVE  IsOrdered(TreeAssembled)
<1>1. IsCall(call) /\ Promised(call, keys)
  BY DEF Inv
<1>2. PICK S : call.path \in Seq(S)
  BY <1>1 DEF IsCall
<1>3. PICK f : /\ Assembly(f, call.path, call.at, Len(call.path))
               /\ TreeAssembled = f[Len(call.path)]
  BY <1>2, AssembledTree
<1>4. Cardinality(keys) \in Nat
  BY FS_CardinalityType
<1>5. CASE call.op = "contains"
  <2>1. PICK A : Holds(call.at, A) /\ A \subseteq keys
    BY <1>1, <1>5 DEF Promised, Looking
  <2>2. call.path = <<>>
    BY <1>1, <1>5 DEF Promised, Looking
  <2>3. TreeAssembled = call.at
    <3>1. Len(call.path) = 0 /\ 0 \in Nat
      BY <2>2
    <3> QED
      BY <1>3, <3>1, AssemblyUpTo
  <2>4. IsFiniteSet(A) /\ Cardinality(A) <= Cardinality(keys) /\ Cardinality(A) \in Nat
    BY <2>1, FS_Subset, FS_CardinalityType
  <2>5. Cardinality(A) <= Cardinality(keys) + 1
    BY <1>4, <2>4
  <2>6. Holds(TreeAssembled, A)
    BY <2>1, <2>3
  <2> QED
    BY <2>4, <2>5, <2>6, HeldIsOrdered
<1>6. CASE call.op # "contains"
  <2> DEFINE K == Outcome(call.op, call.arg, keys)
  <2>1. PICK A : Holds(call.at, A) /\ Pathed(call.path, K, A)
    BY <1>1, <1>6 DEF Promised, Ascending
  <2>2. Holds(TreeAssembled, K)
    <3>1. Holds(f[Len(call.path)], K)
      BY <1>2, <1>3, <2>1, AssembledHolds
    <3> QED
      BY <1>3, <3>1
  <2>3. K \subseteq keys \cup {call.arg}
    BY <1>1, <1>6 DEF IsCall, Operation, Outcome
  <2>4. /\ IsFiniteSet(keys \cup {call.arg})
        /\ Cardinality(keys \cup {call.arg}) <= Cardinality(keys) + 1
        /\ Cardinality(keys \cup {call.arg}) \in Nat
    <3>1. /\ IsFiniteSet(keys \cup {call.arg})
          /\ Cardinality(keys \cup {call.arg}) =
               IF call.arg \in keys THEN Cardinality(keys) ELSE Cardinality(keys) + 1
      BY FS_AddElement
    <3> QED
      BY <1>4, <3>1
  <2> HIDE DEF K
  <2>5. IsFiniteSet(K) /\ Cardinality(K) <= Cardinality(keys \cup {call.arg})
        /\ Cardinality(K) \in Nat
    BY <2>3, <2>4, FS_Subset, FS_CardinalityType
  <2>6. Cardinality(K) <= Cardinality(keys) + 1
    BY <1>4, <2>4, <2>5
  <2> QED
    BY <2>2, <2>5, <2>6, HeldIsOrdered
<1> QED
  BY <1>5, <1>6

LEMMA FiniteStep == Inv /\ IsFiniteSet(keys) /\ [Next]_vars => IsFiniteSet(keys)'
<1> SUFFICES ASSUME Inv, IsFiniteSet(keys), [Next]_vars
             PROVE  IsFiniteSet(keys')
  OBVIOUS
<1>1. CASE Finish
  <2>1. /\ IsFiniteSet(keys \cup {call.arg})
        /\ IsFiniteSet(keys \ {call.arg})
    BY FS_AddElement, FS_RemoveElement
  <2>2. call.op \in Operation
    BY <1>1 DEF Finish, NoCall, Inv, IsCall
  <2>3. keys' \in {keys \cup {call.arg}, keys \ {call.arg}, keys}
    BY <1>1, <2>2 DEF Finish, Outcome, Operation
  <2> QED
    BY <2>1, <2>3
<1>2. CASE ~Finish
  BY <1>2 DEF Next, Step, Start, SearchLeft, SearchRight, NotFound, Found, EraseHere, MinValue,
              Replace, Rebuild, Searching, vars
<1> QED
  BY <1>1, <1>2

\* The client's tree is a search tree without duplicates for its set of keys,
\* and so is the tree that a returning insert or erase is making
\* (search_tree_on_fix.cpp:54-125).
THEOREM SearchTreeOrdered == Spec => []Ordered
<1>1. Init => IsFiniteSet(keys)
  BY FS_EmptySet DEF Init
<1>2. Inv /\ IsFiniteSet(keys) => Ordered
  <2> SUFFICES ASSUME Inv, IsFiniteSet(keys)
               PROVE  Ordered
    OBVIOUS
  <2>1. IsOrdered(tree) /\ {u.value : u \in Nodes(tree)} = keys
    BY HeldKeys DEF Inv
  <2>2. call # NoCall /\ call.phase = "up" => IsOrdered(TreeAssembled)
    BY AssembledIsOrdered
  <2> QED
    BY <2>1, <2>2 DEF Ordered
<1> QED
  BY <1>1, <1>2, Invariance, FiniteStep, PTL DEF Spec

-----------------------------------------------------------------------------
(* Trees whose heights differ by one at most.                                *)
AboutAsHigh(t, u) == \A n \in Nat : NotMuchDeeper(t, u, n) /\ NotMuchDeeper(u, t, n)

LEMMA AsHighAsItself ==
  ASSUME NEW t
  PROVE  AboutAsHigh(t, t)
BY LevelMonotone DEF AboutAsHigh, NotMuchDeeper

LEMMA AsHighAsALeaf ==
  ASSUME NEW t, Over(t, NoTree, NoTree)
  PROVE  AboutAsHigh(NoTree, t)
<1>1. \A n \in Nat : Level(NoTree, n) = {} /\ Level(NoTree, n + 1) = {}
  BY NothingBelow
<1> QED
  BY <1>1 DEF AboutAsHigh, NotMuchDeeper, Over

\* The root of a tree with one subtree goes.
LEMMA AsHighAsItsSubtree ==
  ASSUME NEW t, NEW u, Over(t, NoTree, u) \/ Over(t, u, NoTree)
  PROVE  AboutAsHigh(t, u)
<1>1. Level(t, 0) # {} /\ \A n \in Nat : Level(t, n + 1) = Level(u, n)
  BY NothingBelow DEF Over
<1>2. ASSUME NEW n \in Nat, Level(t, n) = {}
      PROVE  Level(u, n + 1) = {}
  <2>1. n # 0 /\ n - 1 \in Nat /\ (n - 1) + 1 = n
    BY <1>1, <1>2
  <2>2. Level(u, n - 1) = {}
    BY <1>1, <1>2, <2>1
  <2>3. Level(u, n) = {}
    BY <2>1, <2>2, LevelMonotone
  <2> QED
    BY <2>3, LevelMonotone
<1> QED
  BY <1>1, <1>2 DEF AboutAsHigh, NotMuchDeeper

\* The subtrees are replaced, whatever becomes of the value at the root.
LEMMA AsHighAround ==
  ASSUME NEW t, NEW u, NEW a, NEW b, NEW c, NEW d, Over(t, a, b), Over(u, c, d),
         AboutAsHigh(a, c), AboutAsHigh(b, d)
  PROVE  AboutAsHigh(t, u)
<1>1. ASSUME NEW x, NEW y, NEW k, NEW l, NEW m, NEW o, Over(x, k, l), Over(y, m, o),
             AboutAsHigh(k, m) \/ AboutAsHigh(m, k),
             AboutAsHigh(l, o) \/ AboutAsHigh(o, l),
             NEW n \in Nat
      PROVE  NotMuchDeeper(x, y, n)
  <2>1. SUFFICES ASSUME Level(x, n) = {}
                 PROVE  Level(y, n + 1) = {}
    BY DEF NotMuchDeeper
  <2>2. n # 0 /\ n - 1 \in Nat /\ (n - 1) + 1 = n
    BY <1>1, <2>1 DEF Over
  <2>3. Level(k, n - 1) = {} /\ Level(l, n - 1) = {}
    BY <1>1, <2>1, <2>2 DEF Over
  <2>4. NotMuchDeeper(k, m, n - 1) /\ NotMuchDeeper(l, o, n - 1)
    BY <1>1, <2>2 DEF AboutAsHigh
  <2>5. Level(m, n) = {} /\ Level(o, n) = {}
    BY <2>2, <2>3, <2>4 DEF NotMuchDeeper
  <2> QED
    BY <1>1, <2>5 DEF Over
<1>2. \A n \in Nat : NotMuchDeeper(t, u, n) /\ NotMuchDeeper(u, t, n)
  BY <1>1
<1> QED
  BY <1>2 DEF AboutAsHigh

-----------------------------------------------------------------------------
(* An operation in progress.  A frame keeps what a change below does to the  *)
(* height from growing, so that what the innermost call has done to its      *)
(* subtree is what the operation does to the tree.                           *)
Keeps(f, outer, inner) ==
  \A t : AboutAsHigh(inner, t) => AboutAsHigh(outer, Plug(f, t))

\* The frames of `path` were around subtree t of `whole`.
Around(path, whole, t) ==
  \E L : (\A p \in L : Keeps(p[1], p[2], p[3])) /\ Chain(path, L, whole, t)

Changing ==
  call # NoCall /\ call.op # "contains" =>
    /\ call.phase \in {"down", "min"} => Around(call.path, tree, call.at)
    /\ call.phase = "up" => \E t : AboutAsHigh(t, call.at) /\ Around(call.path, tree, t)

LEMMA AroundPush ==
  ASSUME NEW S, NEW path \in Seq(S), NEW f, NEW whole, NEW outer, NEW inner,
         Around(path, whole, outer), Keeps(f, outer, inner)
  PROVE  Around(Append(path, f), whole, inner)
<1>1. PICK L : (\A p \in L : Keeps(p[1], p[2], p[3])) /\ Chain(path, L, whole, outer)
  BY DEF Around
<1> DEFINE M == L \cup {<<f, outer, inner>>}
<1>2. \A p \in M : Keeps(p[1], p[2], p[3])
  BY <1>1
<1>3. Chain(Append(path, f), M, whole, inner)
  BY <1>1, ChainPush
<1> QED
  BY <1>2, <1>3 DEF Around

LEMMA AroundPop ==
  ASSUME NEW S, NEW path \in Seq(S), path # <<>>, NEW whole, NEW inner,
         Around(path, whole, inner)
  PROVE  \E outer : /\ Keeps(path[Len(path)], outer, inner)
                    /\ Around(SubSeq(path, 1, Len(path) - 1), whole, outer)
<1>1. PICK L : (\A p \in L : Keeps(p[1], p[2], p[3])) /\ Chain(path, L, whole, inner)
  BY DEF Around
<1>2. PICK outer : /\ <<path[Len(path)], outer, inner>> \in L
                   /\ Chain(SubSeq(path, 1, Len(path) - 1), L, whole, outer)
  BY <1>1, ChainPop
<1> QED
  BY <1>1, <1>2 DEF Around

LEMMA AroundEmpty ==
  ASSUME NEW whole
  PROVE  Around(<<>>, whole, whole) /\ \A t : Around(<<>>, whole, t) => t = whole
<1>1. Chain(<<>>, {}, whole, whole)
  BY ChainEmpty
<1>2. Around(<<>>, whole, whole)
  BY <1>1 DEF Around
<1>3. \A t : Around(<<>>, whole, t) => t = whole
  BY ChainEmpty DEF Around
<1> QED
  BY <1>2, <1>3

\* A frame that waits for the left subtree of `node`, or for the right one;
\* its value may be another one than the node's.
LEMMA FrameKeeps ==
  ASSUME NEW node, node # NoTree, NEW v
  PROVE  /\ Keeps(LeftOf(v, node.right), node, node.left)
         /\ Keeps(RightOf(v, node.left), node, node.right)
<1>1. Over(node, node.left, node.right)
  BY OverSubtrees
<1>2. AboutAsHigh(node.left, node.left) /\ AboutAsHigh(node.right, node.right)
  BY AsHighAsItself
<1>3. ASSUME NEW t, AboutAsHigh(node.left, t)
      PROVE  AboutAsHigh(node, Plug(LeftOf(v, node.right), t))
  <2>1. Plug(LeftOf(v, node.right), t) = Node(v, t, node.right)
    BY DEF Plug, LeftOf
  <2>2. Over(Node(v, t, node.right), t, node.right)
    BY OverOfNode
  <2> QED
    BY <1>1, <1>2, <1>3, <2>1, <2>2, AsHighAround
<1>4. ASSUME NEW t, AboutAsHigh(node.right, t)
      PROVE  AboutAsHigh(node, Plug(RightOf(v, node.left), t))
  <2>1. Plug(RightOf(v, node.left), t) = Node(v, node.left, t)
    BY DEF Plug, RightOf
  <2>2. Over(Node(v, node.left, t), node.left, t)
    BY OverOfNode
  <2> QED
    BY <1>1, <1>2, <1>4, <2>1, <2>2, AsHighAround
<1> QED
  BY <1>3, <1>4 DEF Keeps

\* The calls of insert and erase, one step after another.
LEMMA ChangingInside ==
  ASSUME Inv, call # NoCall, Changing, call.op # "contains", Step, ~Finish
  PROVE  /\ tree' = tree
         /\ call'.phase \in {"down", "min"} => Around(call'.path, tree, call'.at)
         /\ call'.phase = "up" => \E t : AboutAsHigh(t, call'.at) /\ Around(call'.path, tree, t)
<1>1. IsCall(call)
  BY DEF Inv
<1>2. PICK S : call.path \in Seq(S)
  BY <1>1 DEF IsCall
<1>3. /\ call.phase \in {"down", "min"} => Around(call.path, tree, call.at)
      /\ call.phase = "up" => \E t : AboutAsHigh(t, call.at) /\ Around(call.path, tree, t)
  BY DEF Changing
<1>4. CASE SearchLeft
  <2> DEFINE f == LeftOf(call.at.value, call.at.right)
  <2>1. /\ call.phase = "down" /\ call.at # NoTree /\ tree' = tree /\ call'.phase = "down"
        /\ call'.path = Append(call.path, f) /\ call'.at = call.at.left
    BY <1>1, <1>4 DEF SearchLeft, Searching, GoDown, IsCall
  <2>2. Keeps(f, call.at, call.at.left)
    BY <2>1, FrameKeeps
  <2>3. Around(Append(call.path, f), tree, call.at.left)
    BY <1>2, <1>3, <2>1, <2>2, AroundPush
  <2> QED
    BY <2>1, <2>3
<1>5. CASE SearchRight
  <2> DEFINE f == RightOf(call.at.value, call.at.left)
  <2>1. /\ call.phase = "down" /\ call.at # NoTree /\ tree' = tree /\ call'.phase = "down"
        /\ call'.path = Append(call.path, f) /\ call'.at = call.at.right
    BY <1>1, <1>5 DEF SearchRight, Searching, GoDown, IsCall
  <2>2. Keeps(f, call.at, call.at.right)
    BY <2>1, FrameKeeps
  <2>3. Around(Append(call.path, f), tree, call.at.right)
    BY <1>2, <1>3, <2>1, <2>2, AroundPush
  <2> QED
    BY <2>1, <2>3
<1>6. ASSUME Searching, NEW t, Yield(t), AboutAsHigh(call.at, t)
      PROVE  /\ tree' = tree /\ call'.phase = "up"
             /\ \E u : AboutAsHigh(u, call'.at) /\ Around(call'.path, tree, u)
  <2>1. /\ call.phase = "down" /\ tree' = tree /\ call'.phase = "up"
        /\ call'.path = call.path /\ call'.at = t
    BY <1>1, <1>6 DEF Searching, Yield, IsCall
  <2> QED
    BY <1>3, <1>6, <2>1
<1>7. CASE NotFound
  <2> DEFINE t == IF call.op = "insert" THEN Node(call.key, NoTree, NoTree) ELSE NoTree
  <2>1. Searching /\ call.at = NoTree /\ Yield(t)
    BY <1>7 DEF NotFound
  <2>2. AboutAsHigh(NoTree, t)
    BY OverOfNode, AsHighAsALeaf, AsHighAsItself
  <2> HIDE DEF t
  <2>3. AboutAsHigh(call.at, t)
    BY <2>1, <2>2
  <2>4. /\ tree' = tree /\ call'.phase = "up"
        /\ \E u : AboutAsHigh(u, call'.at) /\ Around(call'.path, tree, u)
    BY <1>6, <2>1, <2>3
  <2> QED
    BY <2>4
<1>8. CASE Found
  <2>1. Searching /\ Yield(call.at) /\ AboutAsHigh(call.at, call.at)
    BY <1>8, AsHighAsItself DEF Found
  <2>2. /\ tree' = tree /\ call'.phase = "up"
        /\ \E u : AboutAsHigh(u, call'.at) /\ Around(call'.path, tree, u)
    BY <1>6, <2>1
  <2> QED
    BY <2>2
<1>9. CASE EraseHere
  <2>1. Searching /\ call.phase = "down" /\ call.at # NoTree
    BY <1>9 DEF EraseHere, Here, Searching
  <2>2. Over(call.at, call.at.left, call.at.right)
    BY <2>1, OverSubtrees
  <2>3. CASE call.at.left = NoTree \/ call.at.right = NoTree
    <3>1. PICK t : Yield(t) /\ (Over(call.at, NoTree, t) \/ Over(call.at, t, NoTree))
      BY <1>9, <2>2, <2>3 DEF EraseHere
    <3>2. AboutAsHigh(call.at, t)
      BY <3>1, AsHighAsItsSubtree
    <3>3. /\ tree' = tree /\ call'.phase = "up"
          /\ \E u : AboutAsHigh(u, call'.at) /\ Around(call'.path, tree, u)
      BY <1>6, <2>1, <3>1, <3>2
    <3> QED
      BY <3>3
  <2>4. CASE call.at.left # NoTree /\ call.at.right # NoTree
    <3>1. /\ tree' = tree /\ call'.phase = "min" /\ call'.path = call.path
          /\ call'.at = call.at
      BY <1>1, <1>9, <2>1, <2>4 DEF EraseHere, Searching, IsCall
    <3> QED
      BY <1>3, <2>1, <3>1
  <2> QED
    BY <2>3, <2>4
<1>10. CASE MinValue
  <2>1. /\ call.phase = "min" /\ tree' = tree /\ call'.phase = "min"
        /\ call'.path = call.path /\ call'.at = call.at
    BY <1>1, <1>10 DEF MinValue, IsCall
  <2> QED
    BY <1>3, <2>1
<1>11. CASE Replace
  <2> DEFINE f == RightOf(call.cursor.value, call.at.left)
  <2>1. /\ call.phase = "min" /\ tree' = tree /\ call'.phase = "down"
        /\ call'.path = Append(call.path, f) /\ call'.at = call.at.right
    BY <1>1, <1>11 DEF Replace, IsCall
  <2>2. call.at # NoTree
    BY <2>1 DEF Inv, Promised, Replacing
  <2>3. Keeps(f, call.at, call.at.right)
    BY <2>2, FrameKeeps
  <2>4. Around(Append(call.path, f), tree, call.at.right)
    BY <1>2, <1>3, <2>1, <2>3, AroundPush
  <2> QED
    BY <2>1, <2>4
<1>12. CASE Rebuild
  <2> DEFINE f == call.path[Len(call.path)]
             rest == SubSeq(call.path, 1, Len(call.path) - 1)
  <2>1. /\ call.phase = "up" /\ call.path # <<>> /\ tree' = tree /\ call'.phase = "up"
        /\ call'.path = rest /\ call'.at = Plug(f, call.at)
    BY <1>1, <1>12 DEF Rebuild, IsCall
  <2>2. PICK t : AboutAsHigh(t, call.at) /\ Around(call.path, tree, t)
    BY <1>3, <2>1
  <2>3. PICK outer : Keeps(f, outer, t) /\ Around(rest, tree, outer)
    BY <1>2, <2>1, <2>2, AroundPop
  <2>4. AboutAsHigh(outer, Plug(f, call.at))
    BY <2>2, <2>3 DEF Keeps
  <2> QED
    BY <2>1, <2>3, <2>4
<1> QED
  BY <1>4, <1>5, <1>7, <1>8, <1>9, <1>10, <1>11, <1>12 DEF Step

LEMMA ChangingStep == Inv /\ Changing /\ [Next]_vars => Changing'
<1> SUFFICES ASSUME Inv, Changing, [Next]_vars, call' # NoCall, call'.op # "contains"
             PROVE  /\ call'.phase \in {"down", "min"} => Around(call'.path, tree', call'.at)
                    /\ call'.phase = "up" =>
                         \E t : AboutAsHigh(t, call'.at) /\ Around(call'.path, tree', t)
  BY DEF Changing
<1>1. CASE UNCHANGED vars
  BY <1>1 DEF vars, Changing
<1>2. CASE Finish
  BY <1>2 DEF Finish
<1>3. CASE Step /\ ~Finish
  <2>1. call # NoCall
    BY <1>3 DEF Step, SearchLeft, SearchRight, NotFound, Found, EraseHere, MinValue, Replace,
                Rebuild, Searching, NoCall
  <2>2. IsCall(call)
    BY <2>1 DEF Inv
  <2>3. call'.op = call.op
    BY <1>3, <2>2 DEF IsCall, Step, SearchLeft, SearchRight, NotFound, Found, EraseHere,
                      MinValue, Replace, Rebuild, GoDown, Yield
  <2> QED
    BY <1>3, <2>1, <2>3, ChangingInside
<1>4. ASSUME NEW op \in Operation, NEW v \in Key, Start(op, v)
      PROVE  call'.phase = "down" /\ Around(call'.path, tree', call'.at)
  <2>1. tree' = tree /\ call'.phase = "down" /\ call'.at = tree /\ call'.path = <<>>
    BY <1>4 DEF Start
  <2> QED
    BY <2>1, AroundEmpty
<1> QED
  BY <1>1, <1>2, <1>3, <1>4 DEF Next, Operation

LEMMA HeightStep ==
  ASSUME Inv, Changing, [Next]_vars
  PROVE  UNCHANGED tree \/ AboutAsHigh(tree, tree')
<1>1. CASE Finish /\ call.op # "contains"
  <2>1. call # NoCall /\ call.phase = "up" /\ call.path = <<>> /\ tree' = call.at
    BY <1>1 DEF Finish, NoCall
  <2>2. PICK t : AboutAsHigh(t, call.at) /\ Around(<<>>, tree, t)
    BY <1>1, <2>1 DEF Changing
  <2>3. t = tree
    BY <2>2, AroundEmpty
  <2> QED
    BY <2>1, <2>2, <2>3
<1>2. CASE ~(Finish /\ call.op # "contains")
  BY <1>2 DEF Next, Step, Start, SearchLeft, SearchRight, NotFound, Found, EraseHere, MinValue,
              Replace, Rebuild, Finish, Searching, vars
<1> QED
  BY <1>1, <1>2

\* No operation changes the height of the tree by more than one
\* (search_tree_on_fix.cpp:66-125).
THEOREM SearchTreeHeights == Spec => HeightsAreLocal
<1>1. Init => Changing /\ IsFiniteSet(keys)
  BY FS_EmptySet DEF Init, Changing
<1>2. Inv /\ Changing /\ IsFiniteSet(keys) /\ [Next]_vars =>
        [\A n \in 0..Cardinality(keys) :
           NotMuchDeeper(tree, tree', n) /\ NotMuchDeeper(tree', tree, n)]_tree
  <2> SUFFICES ASSUME Inv, Changing, IsFiniteSet(keys), [Next]_vars, tree' # tree,
                      NEW n \in 0..Cardinality(keys)
               PROVE  NotMuchDeeper(tree, tree', n) /\ NotMuchDeeper(tree', tree, n)
    OBVIOUS
  <2>1. n \in Nat
    BY FS_CardinalityType
  <2>2. AboutAsHigh(tree, tree')
    BY HeightStep
  <2> QED
    BY <2>1, <2>2 DEF AboutAsHigh
<1> QED
  BY <1>1, <1>2, Invariance, ChangingStep, FiniteStep, PTL DEF Spec, HeightsAreLocal
=============================================================================
