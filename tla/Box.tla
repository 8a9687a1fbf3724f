-------------------------------- MODULE Box --------------------------------
(***************************************************************************)
(* box.hpp: Box<A>, the owning pointer at the knot of Fix, on an explicit  *)
(* heap.  A is the node of a binary tree here, a value and two boxes, as   *)
(* in BinaryTreeFix.                                                       *)
(*                                                                         *)
(* A place is where a box is stored: a variable of a client or a child     *)
(* slot of a node, which operator* and operator-> give access to.  The     *)
(* operations are those of the class, each up to its return or its throw;  *)
(* `new` throws when no address is free, and a copy that throws half way   *)
(* destroys what it has made.  Using a destroyed object sets `fault`,      *)
(* after which the states mean nothing.  AliasedAssign says whether clients*)
(* assign between a tree and a part of it, in either direction.            *)
(***************************************************************************)
EXTENDS Ownership

CONSTANTS Addr,             \* the memory: the addresses `new` can return
          ThrowingAssign    \* clients assign copies memory may not suffice for

\* A variable is not a member of a node.
ASSUME AddrAssumption ==
  /\ IsFiniteSet(Addr) /\ Null \notin Addr
  /\ (Register \cup {Null}) \cap (Addr \X Side) = {}

VARIABLES heap,      \* the live nodes: a function on the addresses in use
          var,       \* what the variables hold
          fault,     \* a destroyed object has been used
          term       \* history: Register -> the tree the client gave it

vars == <<heap, var, fault, term>>

Init == /\ heap = << >>
        /\ var = [x \in Register |-> Null]
        /\ fault = FALSE
        /\ term = [x \in Register |-> Null]

-----------------------------------------------------------------------------
Place == Register \cup ((DOMAIN heap) \X Side)

Ptr(p) == IF p \in Register THEN var[p] ELSE heap[p[1]][p[2]]

\* The addresses a destructor or a copy constructor visits in heap h when it
\* starts at pointer q, freed ones it runs into included.
Visited(h, q) ==
  LET within[n \in 0..Cardinality(Addr)] ==
        IF n = 0 THEN {q} \ {Null}
        ELSE LET nearer == within[n - 1]
             IN  nearer \cup ({h[a][s] : a \in nearer \cap DOMAIN h, s \in Side} \ {Null})
  IN  within[Cardinality(Addr)]

Live(h, q) == Visited(h, q) \subseteq DOMAIN h

\* delete q, and with it every node below.
Deleted(h, q) == Restrict(h, DOMAIN h \ Visited(h, q))

Free(h) == Addr \ DOMAIN h

\* Whether new A(*q) finds the memory it needs.
Fits(h, q) == Cardinality(Visited(h, q)) <= Cardinality(Free(h))

\* The addresses of the copies of the nodes below q; a null child is copied
\* as null.
Placement(h, q) ==
  LET f == CHOOSE f \in Injection(Visited(h, q), Free(h)) : TRUE
  IN  [r \in Visited(h, q) \cup {Null} |-> IF r = Null THEN Null ELSE f[r]]

\* (a mutant) The copied nodes keep the children of the originals.
CopiedShallow(h, q) ==
  LET f == Placement(h, q)
      old == AntiFunction(f)
  IN  [a \in DOMAIN h \cup (Range(f) \ {Null}) |-> IF a \in DOMAIN h THEN h[a] ELSE h[old[a]]]

\* The heap after new A(*q), whose result is Placement(h, q)[q].
Copied(h, q) ==
  LET f == Placement(h, q)
      old == AntiFunction(f)
  IN  [a \in DOMAIN h \cup (Range(f) \ {Null}) |->
         IF a \in DOMAIN h THEN h[a]
         ELSE [h[old[a]] EXCEPT !.left = f[@], !.right = f[@]]]

\* Place p holds pointer q afterwards; h is the heap it is stored in.
Stored(h, p, q) == IF p \in Register THEN h ELSE [h EXCEPT ![p[1]][p[2]] = q]
Named(p, q) == IF p \in Register THEN [var EXCEPT ![p] = q] ELSE var

\* s is in the tree at d or d in the tree at s.
Nested(d, s) ==
  \/ s \notin Register /\ s[1] \in Visited(heap, Ptr(d))
  \/ d \notin Register /\ d[1] \in Visited(heap, Ptr(s))

Crash == fault' = TRUE /\ UNCHANGED <<heap, var, term>>

\* The tree below pointer q of heap h, where the places in the domain of
\* `given` are read as holding the trees they are mapped to and a freed node
\* as no tree.  The depth bound is never reached without a cycle.
Tree(h, q, given) ==
  LET below[n \in 0..Cardinality(Addr)] ==
        [r \in Addr \cup {Null} |->
           LET child(s) == IF <<r, s>> \in DOMAIN given THEN given[<<r, s>>]
                           ELSE below[n - 1][h[r][s]]
           IN  IF n = 0 \/ r \notin DOMAIN h THEN Null
               ELSE [value |-> h[r].value, left |-> child("left"), right |-> child("right")]]
  IN  below[Cardinality(Addr)][q]

TreeAt(p) == Tree(heap, Ptr(p), << >>)

\* What the places in an operation are given: d the tree t, s nothing.
Gets(d, t) == [p \in {d} |-> t]
Takes(d, s, t) == [p \in {d, s} |-> IF p = d THEN t ELSE Null]

\* The trees the clients have once the places in the domain of `given` have
\* received the trees they are mapped to.
Given(given) ==
  term' = [x \in Register |-> IF x \in DOMAIN given THEN given[x] ELSE Tree(heap, var[x], given)]

-----------------------------------------------------------------------------
\* x = make_box<A>(A{v, std::move(y), std::move(z)}), Null for a child that is
\* a null box: the layer is built first and takes the children out of their
\* variables; if `new` throws, the layer is destroyed and they with it.  The
\* result is then moved into x.
MakeBox(x, v, y, z) ==
  LET kid(c) == IF c = Null THEN Null ELSE var[c]
      sub(c) == IF c = Null THEN Null ELSE term[c]
      moved  == [r \in Register |-> IF r \in {y, z} THEN Null ELSE var[r]]
      taken  == [r \in Register |-> IF r \in {y, z} THEN Null ELSE term[r]]
      a      == CHOOSE a \in Free(heap) : TRUE
      node   == [value |-> v, left |-> kid(y), right |-> kid(z)]
  IN  /\ y = z => y = Null
      /\ IF Free(heap) = {}
         THEN /\ var' = moved
              /\ heap' = Deleted(Deleted(heap, kid(y)), kid(z))
              /\ term' = taken
         ELSE /\ var' = [moved EXCEPT ![x] = a]
              /\ heap' = Deleted([b \in DOMAIN heap \cup {a} |-> IF b = a THEN node ELSE heap[b]],
                                 moved[x])
              /\ term' = [taken EXCEPT ![x] = [value |-> v, left |-> sub(y), right |-> sub(z)]]
      /\ UNCHANGED fault

\* Box x(p), x not yet in use; nothing happens if the copy throws.
CopyConstruct(x, p) ==
  /\ var[x] = Null
  /\ Fits(heap, Ptr(p))
  /\ IF Live(heap, Ptr(p))
     THEN /\ heap' = Copied(heap, Ptr(p))
          /\ var' = [var EXCEPT ![x] = Placement(heap, Ptr(p))[Ptr(p)]]
          /\ Given(Gets(x, TreeAt(p)))
          /\ UNCHANGED fault
     ELSE Crash

\* Box x(std::move(p)), x not yet in use.
MoveConstruct(x, p) ==
  /\ var[x] = Null /\ x # p
  /\ heap' = Stored(heap, p, Null)
  /\ var' = [Named(p, Null) EXCEPT ![x] = Ptr(p)]
  /\ Given(Takes(x, p, TreeAt(p)))
  /\ UNCHANGED fault

\* (a mutant) The old pointee is not deleted.
CopyAssignLeaking(d, s) ==
  /\ d # s /\ ~Nested(d, s)
  /\ Fits(heap, Ptr(s))
  /\ heap' = Stored(Copied(heap, Ptr(s)), d, Placement(heap, Ptr(s))[Ptr(s)])
  /\ var' = Named(d, Placement(heap, Ptr(s))[Ptr(s)])
  /\ Given(Gets(d, TreeAt(s)))
  /\ UNCHANGED fault

\* d = s: the old pointee is deleted first, the new one made afterwards, so a
\* throw leaves d with a pointer to what is no more.
CopyAssign(d, s) ==
  LET h == Deleted(heap, Ptr(d))
      q == Ptr(s)
  IN  /\ d # s
      /\ AliasedAssign \/ ~Nested(d, s)
      /\ ThrowingAssign \/ Fits(h, q)
      /\ IF ~Live(heap, Ptr(d)) \/ ~Live(h, q) \/ (s \notin Register /\ s[1] \notin DOMAIN h)
         THEN Crash
         ELSE IF ~Fits(h, q)
         THEN heap' = h /\ UNCHANGED <<var, fault, term>>
         ELSE /\ heap' = Stored(Copied(h, q), d, Placement(h, q)[q])
              /\ var' = Named(d, Placement(h, q)[q])
              /\ Given(Gets(d, TreeAt(s)))
              /\ UNCHANGED fault

\* d = std::move(s)
MoveAssign(d, s) ==
  LET h == Deleted(heap, Ptr(d))
      q == Ptr(s)
  IN  /\ d # s
      /\ AliasedAssign \/ ~Nested(d, s)
      /\ IF ~Live(heap, Ptr(d)) \/ (s \notin Register /\ s[1] \notin DOMAIN h)
         THEN Crash
         ELSE /\ heap' = Stored(Stored(h, s, Null), d, q)
              /\ var' = [x \in Register |-> IF x = d THEN q ELSE Named(s, Null)[x]]
              /\ Given(Takes(d, s, TreeAt(s)))
              /\ UNCHANGED fault

\* x goes out of scope; a later variable may take its name.
Destroy(x) ==
  /\ var[x] # Null
  /\ IF Live(heap, var[x])
     THEN /\ heap' = Deleted(heap, var[x])
          /\ var' = [var EXCEPT ![x] = Null]
          /\ term' = [term EXCEPT ![x] = Null]
          /\ UNCHANGED fault
     ELSE Crash

\* A client that reaches node a through x writes its value.
SetValue(x, a, v) ==
  /\ a \in Visited(heap, var[x]) \cap DOMAIN heap
  /\ heap' = [heap EXCEPT ![a].value = v]
  /\ term' = [term EXCEPT ![x] = Tree(heap', var[x], << >>)]
  /\ UNCHANGED <<var, fault>>

\* Everything but assignment.
Common ==
  \/ \E x \in Register, v \in Value : \E y, z \in Register \cup {Null} : MakeBox(x, v, y, z)
  \/ \E x \in Register, p \in Place : CopyConstruct(x, p) \/ MoveConstruct(x, p)
  \/ \E x \in Register : Destroy(x)
  \/ \E x \in Register, a \in DOMAIN heap, v \in Value : SetValue(x, a, v)

Next ==
  \/ Common
  \/ \E d, s \in Place : CopyAssign(d, s) \/ MoveAssign(d, s)

Spec == Init /\ [][Next]_vars

-----------------------------------------------------------------------------
\* No destroyed object is used, every box is null or holds a live node, and
\* every live node is held by exactly one box: nothing leaks, nothing is
\* deleted twice, whatever is copied, moved, rebuilt or thrown
\* (box.hpp:40-60).
Owned ==
  /\ ~fault
  /\ \A p \in Place : Ptr(p) \in DOMAIN heap \cup {Null}
  /\ \A a \in DOMAIN heap : Cardinality({p \in Place : Ptr(p) = a}) = 1
  /\ DOMAIN heap = UNION {Visited(heap, var[x]) : x \in Register}

\* "owning pointer with deep-copy value semantics" (box.hpp:20): every
\* variable holds the tree its client gave it.  An assignment gives its target
\* the tree of its source, a copy shares nothing with its source, and nothing
\* else changes a tree.
ValueSemantics == ~fault /\ \A x \in Register : TreeAt(x) = term[x]
=============================================================================
