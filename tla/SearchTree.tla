----------------------------- MODULE SearchTree -----------------------------
(***************************************************************************)
(* examples/search_tree_on_fix.cpp: insert, contains and erase on a binary *)
(* search tree of the Fix form, as the recursions they are.  A call goes   *)
(* down one path of the tree, erase from a node with two children once     *)
(* more for the successor, and insert and erase rebuild the path on the    *)
(* way up; every frame of `path` is a call of node() that waits for one    *)
(* child.  Trees are values: the copies that Box makes share nothing.      *)
(***************************************************************************)
EXTENDS Integers, Sequences, FiniteSets

CONSTANT Key

ASSUME KeyAssumption == Key \subseteq Int

VARIABLES tree,     \* the client's tree
          call,     \* the running operation, or NoCall
          answer,   \* what the last completed operation answered
          keys      \* history: the keys the client's operations leave

vars == <<tree, call, answer, keys>>

\* The empty tree, a disengaged Box.
NoTree == [empty |-> TRUE]

Node(v, l, r) == [value |-> v, left |-> l, right |-> r]

NoCall == [phase |-> "none"]

\* A frame builds its node around the tree it waits for.
LeftOf(v, r) == [side |-> "left", value |-> v, other |-> r]
RightOf(v, l) == [side |-> "right", value |-> v, other |-> l]

\* (a mutant) The rebuilt child always goes to the left.
PlugLeft(f, t) == Node(f.value, t, f.other)

Plug(f, t) == IF f.side = "left" THEN Node(f.value, t, f.other) ELSE Node(f.value, f.other, t)

\* The running call goes on with subtree t; contains has nothing left to do
\* when the inner call returns, the others build a node.
GoDown(frame, t) ==
  call' = [call EXCEPT !.path = IF call.op = "contains" THEN @ ELSE Append(@, frame), !.at = t]

\* The innermost call returns t.
Yield(t) == call' = [call EXCEPT !.phase = "up", !.at = t]

-----------------------------------------------------------------------------
Init == tree = NoTree /\ call = NoCall /\ answer = <<>> /\ keys = {}

\* The client assigns the result of insert(tree, v) or erase(tree, v) to its
\* tree, or asks contains(tree, v).
Start(op, v) ==
  /\ call = NoCall
  /\ call' = [phase |-> "down", op |-> op, arg |-> v, key |-> v, at |-> tree,
              cursor |-> NoTree, path |-> <<>>]
  /\ UNCHANGED <<tree, answer, keys>>

Searching == call.phase = "down" /\ UNCHANGED <<tree, answer, keys>>

\* v < layer.value
SearchLeft ==
  /\ Searching
  /\ call.at # NoTree
  /\ call.key < call.at.value
  /\ GoDown(LeftOf(call.at.value, call.at.right), call.at.left)

\* (a mutant) insert goes on to the right of its own key.
SearchRightDuplicates ==
  /\ Searching
  /\ call.at # NoTree
  /\ \/ call.at.value < call.key
     \/ call.op = "insert" /\ call.at.value = call.key
  /\ GoDown(RightOf(call.at.value, call.at.left), call.at.right)

\* layer.value < v
SearchRight ==
  /\ Searching
  /\ call.at # NoTree
  /\ call.at.value < call.key
  /\ GoDown(RightOf(call.at.value, call.at.left), call.at.right)

\* !tree
NotFound ==
  /\ Searching
  /\ call.at = NoTree
  /\ Yield(IF call.op = "insert" THEN Node(call.key, NoTree, NoTree) ELSE NoTree)

Here == call.at # NoTree /\ call.at.value = call.key

\* insert drops the duplicate.
Found == Searching /\ call.op \in {"insert", "contains"} /\ Here /\ Yield(call.at)

\* (a mutant) A node without a right child loses its left one as well.
EraseHereDropping ==
  /\ Searching /\ call.op = "erase" /\ Here
  /\ IF call.at.left = NoTree \/ call.at.right = NoTree THEN Yield(call.at.right)
     ELSE call' = [call EXCEPT !.phase = "min", !.cursor = call.at.right]

EraseHere ==
  /\ Searching /\ call.op = "erase" /\ Here
  /\ IF call.at.left = NoTree THEN Yield(call.at.right)
     ELSE IF call.at.right = NoTree THEN Yield(call.at.left)
     ELSE call' = [call EXCEPT !.phase = "min", !.cursor = call.at.right]

\* (a mutant) The loop does not get anywhere.
MinValueStuck ==
  /\ call.phase = "min"
  /\ call.cursor.left # NoTree
  /\ UNCHANGED vars

\* min_value follows the left children; the precondition of every call of it
\* is a tree that is not empty.
MinValue ==
  /\ call.phase = "min"
  /\ call.cursor.left # NoTree
  /\ call' = [call EXCEPT !.cursor = @.left]
  /\ UNCHANGED <<tree, answer, keys>>

\* (a mutant) The successor takes the node's place and stays where it was.
ReplaceKeeping ==
  /\ call.phase = "min"
  /\ call.cursor.left = NoTree
  /\ call' = [call EXCEPT !.phase = "up",
                          !.at = Node(call.cursor.value, call.at.left, call.at.right)]
  /\ UNCHANGED <<tree, answer, keys>>

\* The successor takes the node's place and is erased from the right subtree.
Replace ==
  /\ call.phase = "min"
  /\ call.cursor.left = NoTree
  /\ LET successor == call.cursor.value
     IN  call' = [call EXCEPT !.phase = "down", !.key = successor, !.at = call.at.right,
                              !.path = Append(@, RightOf(successor, call.at.left))]
  /\ UNCHANGED <<tree, answer, keys>>

\* The next call outwards builds its node and returns.
Rebuild ==
  /\ call.phase = "up"
  /\ call.path # <<>>
  /\ call' = [call EXCEPT !.path = SubSeq(@, 1, Len(@) - 1),
                          !.at = Plug(call.path[Len(call.path)], call.at)]
  /\ UNCHANGED <<tree, answer, keys>>

\* The keys op(tree, v) leaves of keys K.
Outcome(op, v, K) ==
  CASE op = "insert" -> K \cup {v} [] op = "erase" -> K \ {v} [] op = "contains" -> K

\* The outermost call returns.
Finish ==
  /\ call.phase = "up"
  /\ call.path = <<>>
  /\ IF call.op = "contains"
     THEN answer' = <<call.at # NoTree>> /\ UNCHANGED tree
     ELSE tree' = call.at /\ answer' = <<>>
  /\ keys' = Outcome(call.op, call.arg, keys)
  /\ call' = NoCall

Step == \/ SearchLeft \/ SearchRight \/ NotFound \/ Found
        \/ EraseHere \/ MinValue \/ Replace \/ Rebuild \/ Finish

Next == Step \/ \E op \in {"insert", "contains", "erase"}, v \in Key : Start(op, v)

\* A running operation is synchronous code and keeps running.
Spec == Init /\ [][Next]_vars /\ WF_vars(Step)

-----------------------------------------------------------------------------
\* The nodes below those in S.
Kids(S) == ({u.left : u \in S} \cup {u.right : u \in S}) \ {NoTree}

\* The nodes n links below the root of t.
Level(t, n) ==
  LET level[k \in 0..n] == IF k = 0 THEN {t} \ {NoTree} ELSE Kids(level[k - 1])
  IN  level[n]

\* All nodes of t: no path in a search tree has more nodes than it has keys,
\* of which there is one more while an insert returns.
Nodes(t) == UNION {Level(t, n) : n \in 0..Cardinality(keys)}

IsOrdered(t) ==
  /\ Level(t, Cardinality(keys) + 1) = {}
  /\ \A u \in Nodes(t) : /\ \A w \in Nodes(u.left) : w.value < u.value
                         /\ \A w \in Nodes(u.right) : u.value < w.value

\* What the calls of a returning insert or erase will make of their path.
TreeAssembled ==
  LET up[n \in 0..Len(call.path)] ==
        IF n = 0 THEN call.at ELSE Plug(call.path[Len(call.path) - n + 1], up[n - 1])
  IN  up[Len(call.path)]

\* The tree is a search tree without duplicates for the keys its client has
\* put there, and so is, while a path is being rebuilt, the tree that its
\* frames will make (search_tree_on_fix.cpp:66-80, 104-125).
Ordered ==
  /\ IsOrdered(tree) /\ {u.value : u \in Nodes(tree)} = keys
  /\ call # NoCall /\ call.phase = "up" => IsOrdered(TreeAssembled)

\* Each operation does to the set of keys what was asked for, with the key
\* that was asked for, when it returns and not before; and contains, which
\* looks at one path only, answers for all of it
\* (search_tree_on_fix.cpp:66-125).
Promise == INSTANCE KeySet WITH
             set     <- keys,
             pending <- IF call = NoCall THEN [op |-> "none"] ELSE [op |-> call.op, key |-> call.arg]
ImplementsKeySet == Promise!Spec

\* An operation that does not change the set leaves the tree as it is, shape
\* included, although insert and erase rebuild the path they took
\* ("Duplicates are dropped", search_tree_on_fix.cpp:66-80, 104-125).
SameSetSameTree == [][keys' = keys => tree' = tree]_vars

\* One tree has no nodes n + 1 links down if the other has none n links down.
NotMuchDeeper(t, u, n) == Level(t, n) = {} => Level(u, n + 1) = {}

\* No operation changes the height by more than one
\* (search_tree_on_fix.cpp:66-125).
HeightsAreLocal ==
  [][\A n \in 0..Cardinality(keys) :
       NotMuchDeeper(tree, tree', n) /\ NotMuchDeeper(tree', tree, n)]_tree

\* Every operation returns (search_tree_on_fix.cpp:66-125).
Terminates == (call # NoCall) ~> (call = NoCall)
=============================================================================
