---------------------- MODULE SequenceAlgorithmsProof ----------------------
(***************************************************************************)
(* sequence_equal decides equality of sequences, and the view walk reads   *)
(* them, for any values and for trees of every size and shape that hold    *)
(* sequences: those that FringeTreeProof says clients have.                *)
(***************************************************************************)
EXTENDS SequenceAlgorithms, SequenceTheorems, TLAPS

Trees == INSTANCE FringeTreeProof WITH
           Register <- Local, Fits <- LAMBDA t : TRUE

-----------------------------------------------------------------------------
(* Sequences.                                                               *)

LEMMA ConcatFacts ==
  ASSUME NEW s \in Seq(Value), NEW q \in Seq(Value)
  PROVE  /\ s \o q \in Seq(Value) /\ Len(s \o q) = Len(s) + Len(q)
         /\ \A i \in 1..Len(s) : (s \o q)[i] = s[i]
         /\ \A i \in 1..Len(q) : (s \o q)[Len(s) + i] = q[i]
         /\ <<>> \o s = s /\ s \o <<>> = s
OBVIOUS

\* What a sequence was made of can be cut out of it.
LEMMA Cut ==
  ASSUME NEW u \in Seq(Value), NEW w \in Seq(Value), NEW s, s = u \o w, NEW n, n = Len(u)
  PROVE  /\ n \in 0..Len(s) /\ SubSeq(s, 1, n) = u /\ SubSeq(s, n + 1, Len(s)) = w
<1>1. /\ s \in Seq(Value) /\ Len(s) = n + Len(w) /\ n \in Nat /\ Len(w) \in Nat
      /\ \A i \in 1..n : s[i] = u[i]
      /\ \A i \in 1..Len(w) : s[n + i] = w[i]
  BY ConcatFacts
<1>2. SubSeq(s, 1, n) = u
  <2>1. \A i \in 1..n : s[i] \in Value
    BY <1>1
  <2>2. /\ SubSeq(s, 1, n) \in Seq(Value) /\ Len(SubSeq(s, 1, n)) = n
        /\ \A i \in 1..n : SubSeq(s, 1, n)[i] = s[i]
    BY <1>1
  <2> QED
    BY <1>1, <2>2, SeqEqual
<1>3. SubSeq(s, n + 1, Len(s)) = w
  <2>1. /\ SubSeq(s, n + 1, Len(s)) \in Seq(Value) /\ Len(SubSeq(s, n + 1, Len(s))) = Len(w)
        /\ \A i \in 1..Len(w) : SubSeq(s, n + 1, Len(s))[i] = s[n + i]
    BY <1>1
  <2> QED
    BY <1>1, <2>1, SeqEqual
<1> QED
  BY <1>1, <1>2, <1>3

\* Sequences that go on differently are different.
LEMMA NextElement ==
  ASSUME NEW u \in Seq(Value), NEW v \in Value, NEW s \in Seq(Value)
  PROVE  (u \o (<<v>> \o s))[Len(u) + 1] = v
<1> DEFINE t == <<v>> \o s
<1>1. t \in Seq(Value) /\ 1 \in 1..Len(t) /\ t[1] = v
  OBVIOUS
<1> HIDE DEF t
<1>2. (u \o t)[Len(u) + 1] = t[1]
  BY <1>1, ConcatFacts
<1> QED
  BY <1>1, <1>2 DEF t

LEMMA DifferentNext ==
  ASSUME NEW u \in Seq(Value), NEW v \in Value, NEW s \in Seq(Value),
         NEW w \in Value, NEW q \in Seq(Value), v # w
  PROVE  u \o (<<v>> \o s) # u \o (<<w>> \o q)
<1>1. (u \o (<<v>> \o s))[Len(u) + 1] = v
  BY NextElement
<1>2. (u \o (<<w>> \o q))[Len(u) + 1] = w
  BY NextElement
<1> QED
  BY <1>1, <1>2

LEMMA DifferentEnd ==
  ASSUME NEW u \in Seq(Value), NEW v \in Value, NEW s \in Seq(Value)
  PROVE  u \o (<<v>> \o s) # u \o <<>>
<1>1. <<v>> \o s \in Seq(Value) /\ Len(<<v>> \o s) = 1 + Len(s)
  OBVIOUS
<1> QED
  BY <1>1, ConcatFacts

\* A prefix and a suffix that grow by one element.
LEMMA NoneAndAll ==
  ASSUME NEW s \in Seq(Value)
  PROVE  /\ SubSeq(s, 1, 0) = <<>> /\ SubSeq(s, Len(s) - 0 + 1, Len(s)) = <<>>
         /\ SubSeq(s, 1, Len(s)) = s
OBVIOUS

LEMMA PrefixGrows ==
  ASSUME NEW s \in Seq(Value), NEW n \in 0..Len(s), n < Len(s)
  PROVE  s[n + 1] \in Value /\ SubSeq(s, 1, n) \o <<s[n + 1]>> = SubSeq(s, 1, n + 1)
<1>1. SubSeq(s, 1, n) \o <<s[n + 1]>> = SubSeq(s, 1, n + 1)
  BY SMTT(20)
<1> QED
  BY <1>1

LEMMA SuffixGrows ==
  ASSUME NEW s \in Seq(Value), NEW n \in 0..Len(s), n < Len(s)
  PROVE  /\ s[Len(s) - n] \in Value
         /\ <<s[Len(s) - n]>> \o SubSeq(s, Len(s) - n + 1, Len(s)) = SubSeq(s, Len(s) - n, Len(s))
<1>1. <<s[Len(s) - n]>> \o SubSeq(s, Len(s) - n + 1, Len(s)) = SubSeq(s, Len(s) - n, Len(s))
  BY SMTT(20)
<1> QED
  BY <1>1

-----------------------------------------------------------------------------
(* The operations of FringeTree that the program uses are those that         *)
(* FringeTreeProof reasons about.                                            *)

LEMMA SameTrees ==
  /\ Fringe!NoCall = Trees!NoCall /\ Fringe!Empty = Trees!Empty
  /\ \A l, r : Fringe!Join(l, r) = Trees!Join(l, r)
  /\ \A v : Fringe!Leaf(v) = Trees!Leaf(v)
BY DEF Fringe!NoCall, Trees!NoCall, Fringe!Empty, Trees!Empty, Fringe!Join, Trees!Join,
       Fringe!Leaf, Trees!Leaf, Fringe!Branch, Trees!Branch, Fringe!Measure, Trees!Measure,
       Fringe!IsEmpty, Trees!IsEmpty, Fringe!IsLeaf, Trees!IsLeaf

LEMMA SameView == Fringe!View <=> Trees!View
<1>1. \A t : (Fringe!IsEmpty(t) <=> Trees!IsEmpty(t)) /\ (Fringe!IsLeaf(t) <=> Trees!IsLeaf(t))
  BY DEF Fringe!IsEmpty, Trees!IsEmpty, Fringe!IsLeaf, Trees!IsLeaf
<1>2. \A side, t : /\ Fringe!Near(side, t) = Trees!Near(side, t)
                   /\ Fringe!Far(side, t) = Trees!Far(side, t)
  BY DEF Fringe!Near, Trees!Near, Fringe!Far, Trees!Far
<1>3. \A side, l, r : Fringe!Rejoin(side, l, r) = Trees!Rejoin(side, l, r)
  BY SameTrees DEF Fringe!Rejoin, Trees!Rejoin
<1>4. Fringe!ViewCall <=> Trees!ViewCall
  BY SameTrees, <1>1, <1>2
  DEF Fringe!ViewCall, Trees!ViewCall, Fringe!Returning, Trees!Returning,
      Fringe!Calling, Trees!Calling
<1>5. Fringe!ViewReturn <=> Trees!ViewReturn
  BY <1>2, <1>3
  DEF Fringe!ViewReturn, Trees!ViewReturn, Fringe!Returning, Trees!Returning,
      Fringe!Calling, Trees!Calling, Fringe!Innermost, Trees!Innermost,
      Fringe!Popped, Trees!Popped
<1>6. Fringe!ViewDone <=> Trees!ViewDone
  BY SameTrees DEF Fringe!ViewDone, Trees!ViewDone, Fringe!Shortened, Trees!Shortened
<1> QED
  BY <1>4, <1>5, <1>6 DEF Fringe!View, Trees!View

LEMMA SameOperations ==
  /\ \A side, x, y : Fringe!StartView(side, x, y) <=> Trees!StartView(side, x, y)
  /\ \A x : Fringe!MakeEmpty(x) <=> Trees!MakeEmpty(x)
  /\ \A x, y, v : /\ Fringe!Snoc(x, y, v) <=> Trees!Snoc(x, y, v)
                  /\ Fringe!Cons(x, v, y) <=> Trees!Cons(x, v, y)
<1>1. \A side, x, y : Fringe!StartView(side, x, y) <=> Trees!StartView(side, x, y)
  BY SameTrees DEF Fringe!StartView, Trees!StartView, Fringe!Calling, Trees!Calling
<1>2. \A x, t, s : Fringe!Build(x, t, s) <=> Trees!Build(x, t, s)
  BY SameTrees DEF Fringe!Build, Trees!Build
<1>3. \A x : Fringe!MakeEmpty(x) <=> Trees!MakeEmpty(x)
  BY SameTrees, <1>2 DEF Fringe!MakeEmpty, Trees!MakeEmpty
<1>4. \A x, y, v : /\ Fringe!Snoc(x, y, v) <=> Trees!Snoc(x, y, v)
                   /\ Fringe!Cons(x, v, y) <=> Trees!Cons(x, v, y)
  BY SameTrees, <1>2 DEF Fringe!Snoc, Trees!Snoc, Fringe!Cons, Trees!Cons
<1> QED
  BY <1>1, <1>3, <1>4

-----------------------------------------------------------------------------
(* The inductive invariant.                                                  *)

Side == {"a", "b"}

\* Clients start from trees that hold sequences.
InputsDenote == \A p \in Inputs \cup WalkInputs : Trees!Denotes(p.tree, p.seq)

GivenHold == \A r \in Side : Trees!Denotes(given[r].tree, given[r].seq)

\* What a view of `whole` answers: its first element, with `rest` left.
Viewed(end, whole, rest) ==
  \/ end = <<>> /\ whole = <<>>
  \/ \E v \in Value : end = <<v>> /\ whole = <<v>> \o rest

\* A running view is va = view_l(a), or vb = view_l(b).
CallOf(x, y) == call # Trees!NoCall => call.side = "left" /\ call.dst = x /\ call.src = y

ViewOfA == pc \in {"walked", "view_b"} =>
  CallOf("va", "a") /\ (call = Trees!NoCall => Viewed(answer, seq["a"], seq["va"]))

ViewOfB == pc = "compare" =>
  /\ CallOf("vb", "b")
  /\ Viewed(first, seq["a"], seq["va"])
  /\ call = Trees!NoCall => Viewed(answer, seq["b"], seq["vb"])

Quiet == pc \notin {"walked", "view_b", "compare"} => call = Trees!NoCall

\* What has been read, followed by what is left, is what there was.
Reading == pc \in {"walk", "walked"} =>
  acc \in Seq(Value) /\ built = 0 /\ given["a"].seq = acc \o seq["a"]

Building == pc \in {"from_range", "by_cons"} =>
  /\ acc = given["a"].seq /\ built \in 0..Len(acc)
  /\ pc = "from_range" => seq["b"] = SubSeq(acc, 1, built)
  /\ pc = "by_cons" => seq["b"] = SubSeq(acc, Len(acc) - built + 1, Len(acc))

OneTree == pc \in {"walk", "walked", "from_range", "by_cons"} => given["a"] = given["b"]

\* The rounds of the loop have taken the same elements off both sequences.
SamePrefix == \E u \in Seq(Value) : \A r \in Side : given[r].seq = u \o seq[r]

Comparing == pc \in {"view_a", "view_b", "compare", "done"} => SamePrefix

NotYet == result = "none" \/ pc = "done"

ProgramInv == /\ ViewOfA /\ ViewOfB /\ Quiet
              /\ Reading /\ Building /\ OneTree /\ Comparing
              /\ NotYet /\ Quotient

SInv == Trees!Inv /\ GivenHold /\ ProgramInv

LEMMA GivenFacts ==
  ASSUME GivenHold
  PROVE  given["a"].seq \in Seq(Value) /\ given["b"].seq \in Seq(Value)
BY Trees!DenotesFacts DEF GivenHold, Side

LEMMA SeqFacts ==
  ASSUME Trees!Inv
  PROVE  /\ DOMAIN seq = Local /\ DOMAIN tree = Local
         /\ \A x \in Local : seq[x] \in Seq(Value) /\ Trees!Denotes(tree[x], seq[x])
BY DEF Trees!Inv, Trees!Functions, Trees!RegistersHold

LEMMA InitSInv == InputsDenote /\ Init => SInv
<1> SUFFICES ASSUME InputsDenote, Init
             PROVE  SInv
  OBVIOUS
<1>1. given["a"] \in Inputs \cup WalkInputs /\ given["b"] \in Inputs \cup WalkInputs
  BY DEF Init
<1>2. GivenHold
  BY <1>1 DEF InputsDenote, GivenHold, Side
<1>3. given["a"].seq \in Seq(Value) /\ given["b"].seq \in Seq(Value)
  BY <1>2, GivenFacts
<1>4. /\ tree = [r \in Local |-> IF r = "a" THEN given["a"].tree
                                 ELSE IF r = "b" THEN given["b"].tree ELSE Trees!Empty]
      /\ seq = [r \in Local |-> IF r = "a" THEN given["a"].seq
                                ELSE IF r = "b" THEN given["b"].seq ELSE <<>>]
  BY SameTrees DEF Init, Given, Local
<1>5. call = Trees!NoCall
  BY SameTrees DEF Init
<1>6. Trees!Inv
  <2>1. Trees!Functions
    <3>1. <<>> \in Seq(Value)
      OBVIOUS
    <3> QED
      BY <1>3, <1>4, <3>1 DEF Trees!Functions
  <2>2. Trees!RegistersHold
    BY <1>2, <1>4, Trees!EmptyDenotes DEF Trees!RegistersHold, GivenHold, Side
  <2> QED
    BY <1>5, <2>1, <2>2 DEF Trees!Inv, Trees!CallHolds
<1>7. \A r \in Side : seq[r] = given[r].seq
  BY <1>4 DEF Side, Local
<1>8. /\ <<>> \in Seq(Value)
      /\ \A r \in Side : given[r].seq = <<>> \o seq[r]
  BY <1>3, <1>7, ConcatFacts DEF Side
<1>9. SamePrefix
  BY <1>8 DEF SamePrefix
<1>10. Reading /\ OneTree
  BY <1>8 DEF Init, Reading, OneTree, Side
<1>11. ProgramInv
  BY <1>5, <1>9, <1>10
  DEF Init, ProgramInv, ViewOfA, ViewOfB, Quiet, Building, Comparing, NotYet, Quotient
<1> QED
  BY <1>2, <1>6, <1>11 DEF SInv

-----------------------------------------------------------------------------
(* Views.                                                                    *)

LEMMA ViewStarts ==
  ASSUME Trees!Inv, NEW x \in Local, NEW y \in Local, Fringe!StartView("left", x, y)
  PROVE  /\ Trees!Inv' /\ UNCHANGED <<tree, answer, seq>>
         /\ call = Trees!NoCall /\ call' # Trees!NoCall /\ CallOf(x, y)'
<1>1. Trees!StartView("left", x, y)
  BY SameOperations
<1>2. /\ call = Trees!NoCall /\ call' = Trees!Calling("left", x, y, <<>>, tree[y])
      /\ UNCHANGED <<tree, answer, seq>>
  BY <1>1 DEF Trees!StartView
<1>3. call' # Trees!NoCall /\ CallOf(x, y)'
  BY <1>2 DEF Trees!Calling, Trees!NoCall, CallOf
<1> QED
  BY <1>1, <1>2, <1>3, Trees!StartViewInv

\* A step inside a view shows nothing, and its end answers.
LEMMA ViewRuns ==
  ASSUME Trees!Inv, NEW x \in Local, NEW y \in Local, x # y, CallOf(x, y), Fringe!View
  PROVE  /\ Trees!Inv' /\ call # Trees!NoCall /\ CallOf(x, y)'
         /\ \A r \in Local : r # x => seq'[r] = seq[r]
         /\ call' = Trees!NoCall => Viewed(answer', seq'[y], seq'[x])
<1>1. CASE Trees!ViewCall
  <2>1. /\ call # Trees!NoCall /\ call'.side = call.side /\ call'.dst = call.dst
        /\ call'.src = call.src /\ call'.phase \in {"call", "return"} /\ seq' = seq
    BY <1>1 DEF Trees!ViewCall, Trees!Calling, Trees!Returning, Trees!NoCall
  <2>2. call' # Trees!NoCall
    BY <2>1 DEF Trees!NoCall
  <2> QED
    BY <1>1, <2>1, <2>2, Trees!ViewCallInv DEF CallOf
<1>2. CASE Trees!ViewReturn
  <2>1. /\ call # Trees!NoCall /\ call'.side = call.side /\ call'.dst = call.dst
        /\ call'.src = call.src /\ call'.phase \in {"call", "return"} /\ seq' = seq
    BY <1>2 DEF Trees!ViewReturn, Trees!Calling, Trees!Returning, Trees!NoCall
  <2>2. call' # Trees!NoCall
    BY <2>1 DEF Trees!NoCall
  <2> QED
    BY <1>2, <2>1, <2>2, Trees!ViewReturnInv DEF CallOf
<1>3. CASE Trees!ViewDone
  <2>1. Trees!Inv'
    BY <1>3, Trees!ViewDoneInv
  <2>2. call # Trees!NoCall /\ call' = Trees!NoCall /\ answer' = call.end
    BY <1>3, Trees!ViewFound
  <2>3. call.side = "left" /\ call.dst = x /\ call.src = y
    BY <2>2 DEF CallOf
  <2>4. CASE call.end = <<>> /\ seq[y] = <<>> /\ UNCHANGED <<tree, seq>>
    BY <2>1, <2>2, <2>4 DEF CallOf, Viewed
  <2>5. ASSUME NEW v \in Value, NEW s \in Seq(Value), call.end = <<v>>,
               seq[y] = Trees!Glue("left", <<v>>, s), seq' = [seq EXCEPT ![x] = s]
        PROVE  /\ \A r \in Local : r # x => seq'[r] = seq[r]
               /\ Viewed(answer', seq'[y], seq'[x])
    <3>1. seq'[x] = s /\ seq'[y] = <<v>> \o s
      BY <2>5, SeqFacts DEF Trees!Glue
    <3> QED
      BY <2>2, <2>5, <3>1 DEF Viewed
  <2>6. \/ call.end = <<>> /\ seq[y] = <<>> /\ UNCHANGED <<tree, seq>>
        \/ \E v \in Value : \E s \in Seq(Value) :
             /\ call.end = <<v>>
             /\ seq[y] = Trees!Glue("left", <<v>>, s)
             /\ seq' = [seq EXCEPT ![x] = s]
    BY <1>3, <2>3, Trees!ViewFound
  <2>7. CallOf(x, y)'
    BY <2>2 DEF CallOf
  <2> QED
    BY <2>1, <2>2, <2>4, <2>5, <2>6, <2>7
<1> QED
  BY <1>1, <1>2, <1>3, SameView DEF Trees!View

LEMMA RunViewInv ==
  ASSUME SInv, RunView
  PROVE  SInv'
<1>1. /\ Trees!Inv /\ GivenHold /\ ProgramInv /\ Fringe!View
      /\ UNCHANGED <<pc, acc, built, first, given, result>>
  BY DEF SInv, RunView
<1>2. call # Trees!NoCall
  BY <1>1, SameView DEF Trees!View, Trees!ViewCall, Trees!ViewReturn, Trees!ViewDone, Trees!NoCall
<1>3. pc \in {"walked", "view_b", "compare"}
  BY <1>1, <1>2 DEF ProgramInv, Quiet
<1>4. "a" \in Local /\ "b" \in Local /\ "va" \in Local /\ "vb" \in Local
  BY DEF Local
<1>5. ASSUME seq'["a"] = seq["a"], seq'["b"] = seq["b"], Trees!Inv', ViewOfA', ViewOfB'
      PROVE  SInv'
  <2>1. GivenHold' /\ OneTree' /\ NotYet' /\ Quotient' /\ Quiet' /\ Building' /\ Reading'
    BY <1>1, <1>3, <1>5
    DEF ProgramInv, GivenHold, OneTree, NotYet, Quotient, Quiet, Building, Reading
  <2>2. Comparing'
    BY <1>1, <1>5 DEF ProgramInv, Comparing, SamePrefix, Side
  <2> QED
    BY <1>5, <2>1, <2>2 DEF SInv, ProgramInv
<1>6. CASE pc \in {"walked", "view_b"}
  <2>1. CallOf("va", "a")
    BY <1>1, <1>6 DEF ProgramInv, ViewOfA
  <2>2. /\ Trees!Inv' /\ CallOf("va", "a")'
        /\ \A r \in Local : r # "va" => seq'[r] = seq[r]
        /\ call' = Trees!NoCall => Viewed(answer', seq'["a"], seq'["va"])
    BY <1>1, <1>4, <2>1, ViewRuns
  <2>3. ViewOfA' /\ ViewOfB'
    BY <1>1, <1>6, <2>2 DEF ViewOfA, ViewOfB
  <2> QED
    BY <1>4, <1>5, <2>2, <2>3
<1>7. CASE pc = "compare"
  <2>1. CallOf("vb", "b") /\ Viewed(first, seq["a"], seq["va"])
    BY <1>1, <1>7 DEF ProgramInv, ViewOfB
  <2>2. /\ Trees!Inv' /\ CallOf("vb", "b")'
        /\ \A r \in Local : r # "vb" => seq'[r] = seq[r]
        /\ call' = Trees!NoCall => Viewed(answer', seq'["b"], seq'["vb"])
    BY <1>1, <1>4, <2>1, ViewRuns
  <2>3. ViewOfA' /\ ViewOfB'
    BY <1>1, <1>4, <1>7, <2>1, <2>2 DEF ViewOfA, ViewOfB
  <2> QED
    BY <1>4, <1>5, <2>2, <2>3
<1> QED
  BY <1>3, <1>6, <1>7

-----------------------------------------------------------------------------
(* The statements between the views.                                         *)

LEMMA WalkViewInv ==
  ASSUME SInv, WalkView
  PROVE  SInv'
<1>1. /\ Trees!Inv' /\ UNCHANGED <<tree, answer, seq>> /\ call' # Trees!NoCall
      /\ CallOf("va", "a")'
  BY ViewStarts DEF SInv, WalkView, Local
<1>2. /\ pc = "walk" /\ pc' = "walked" /\ UNCHANGED <<acc, built, first, given, result>>
      /\ GivenHold /\ ProgramInv
  BY DEF WalkView, SInv
<1>3. ProgramInv'
  BY <1>1, <1>2
  DEF ProgramInv, ViewOfA, ViewOfB, Quiet, Reading, Building, OneTree, Comparing, NotYet, Quotient
<1> QED
  BY <1>1, <1>2, <1>3 DEF SInv, GivenHold

\* Registers take each other's trees, or those the program started from.
Moved(x, t, s) == /\ tree' = [tree EXCEPT ![x] = t] /\ seq' = [seq EXCEPT ![x] = s]
                  /\ UNCHANGED <<call, answer>>

LEMMA MoveInv ==
  ASSUME Trees!Inv, call = Trees!NoCall, NEW x \in Local, NEW t, NEW s, Trees!Denotes(t, s),
         Moved(x, t, s)
  PROVE  Trees!Inv' /\ call' = Trees!NoCall
<1>1. s \in Seq(Value)
  BY Trees!DenotesFacts
<1>2. Trees!Functions' /\ Trees!RegistersHold' /\ Trees!CallHolds'
  BY <1>1 DEF Moved, Trees!Inv, Trees!Functions, Trees!RegistersHold, Trees!CallHolds
<1> QED
  BY <1>2 DEF Moved, Trees!Inv

LEMMA WalkOnInv ==
  ASSUME SInv, WalkOn
  PROVE  SInv'
<1>1. /\ Trees!Inv /\ GivenHold /\ ProgramInv
      /\ pc = "walked" /\ call = Trees!NoCall /\ answer # <<>> /\ pc' = "walk"
      /\ acc' = acc \o answer
      /\ tree' = [tree EXCEPT !["a"] = tree["va"]]
      /\ seq' = [seq EXCEPT !["a"] = seq["va"]]
      /\ UNCHANGED <<call, answer, built, first, given, result>>
  BY SameTrees DEF SInv, WalkOn
<1>2. PICK v \in Value : answer = <<v>> /\ seq["a"] = <<v>> \o seq["va"]
  BY <1>1 DEF ProgramInv, ViewOfA, Viewed
<1>3. /\ "a" \in Local /\ "va" \in Local /\ DOMAIN seq = Local
      /\ seq["va"] \in Seq(Value) /\ Trees!Denotes(tree["va"], seq["va"])
  BY <1>1, SeqFacts DEF Local
<1>4. Trees!Inv' /\ call' = Trees!NoCall
  BY <1>1, <1>3, MoveInv DEF Moved
<1>5. acc \in Seq(Value) /\ built = 0 /\ given["a"].seq = acc \o seq["a"]
  BY <1>1 DEF ProgramInv, Reading
<1>6. <<v>> \in Seq(Value)
  BY <1>2
<1>7. Reading'
  <2>1. acc' \in Seq(Value)
    BY <1>1, <1>2, <1>5, <1>6, ConcatFacts
  <2>2. acc \o (<<v>> \o seq["va"]) = (acc \o <<v>>) \o seq["va"]
    BY <1>3, <1>5, <1>6, ConcatAssociative
  <2>3. seq'["a"] = seq["va"]
    BY <1>1, <1>3
  <2> QED
    BY <1>1, <1>2, <1>5, <2>1, <2>2, <2>3 DEF Reading
<1>8. ProgramInv'
  BY <1>1, <1>4, <1>7
  DEF ProgramInv, ViewOfA, ViewOfB, Quiet, Building, OneTree, Comparing, NotYet, Quotient
<1> QED
  BY <1>1, <1>4, <1>8 DEF SInv, GivenHold

LEMMA WalkEndInv ==
  ASSUME SInv, WalkEnd
  PROVE  SInv'
<1>1. /\ Trees!Inv /\ GivenHold /\ ProgramInv
      /\ pc = "walked" /\ call = Trees!NoCall /\ answer = <<>>
      /\ pc' \in {"from_range", "by_cons"}
      /\ Trees!MakeEmpty("b")
      /\ UNCHANGED <<acc, built, first, given, result>>
  BY SameTrees, SameOperations DEF SInv, WalkEnd
<1>2. "b" \in Local /\ DOMAIN seq = Local
  BY <1>1, SeqFacts DEF Local
<1>3. Trees!Inv'
  BY <1>1, <1>2, Trees!ConstructorsInv
<1>4. call' = Trees!NoCall /\ seq'["b"] = <<>>
  BY <1>1, <1>2 DEF Trees!MakeEmpty, Trees!Build
<1>5. seq["a"] = <<>>
  BY <1>1 DEF ProgramInv, ViewOfA, Viewed
<1>6. acc \in Seq(Value) /\ built = 0 /\ acc = given["a"].seq
  BY <1>1, <1>5, ConcatFacts DEF ProgramInv, Reading
<1>7. Building'
  <2>1. SubSeq(acc, 1, 0) = <<>> /\ SubSeq(acc, Len(acc) - 0 + 1, Len(acc)) = <<>>
    BY <1>6, NoneAndAll
  <2>2. 0 \in 0..Len(acc)
    BY <1>6
  <2> QED
    BY <1>1, <1>4, <1>6, <2>1, <2>2 DEF Building
<1>8. ProgramInv'
  BY <1>1, <1>4, <1>7
  DEF ProgramInv, ViewOfA, ViewOfB, Quiet, Reading, OneTree, Comparing, NotYet, Quotient
<1> QED
  BY <1>1, <1>3, <1>8 DEF SInv, GivenHold

LEMMA BuildSnocInv ==
  ASSUME SInv, BuildSnoc
  PROVE  SInv'
<1>1. /\ Trees!Inv /\ GivenHold /\ ProgramInv
      /\ pc = "from_range" /\ built < Len(acc) /\ built' = built + 1
      /\ Trees!Snoc("b", "b", acc[built + 1])
      /\ UNCHANGED <<pc, acc, first, given, result>>
  BY SameOperations DEF SInv, BuildSnoc
<1>2. /\ acc \in Seq(Value) /\ acc = given["a"].seq /\ built \in 0..Len(acc)
      /\ seq["b"] = SubSeq(acc, 1, built)
  BY <1>1, GivenFacts DEF ProgramInv, Building
<1>3. acc[built + 1] \in Value /\ seq["b"] \o <<acc[built + 1]>> = SubSeq(acc, 1, built + 1)
  BY <1>1, <1>2, PrefixGrows
<1>4. "b" \in Local /\ DOMAIN seq = Local
  BY <1>1, SeqFacts DEF Local
<1>5. Trees!Inv'
  BY <1>1, <1>3, <1>4, Trees!ConstructorsInv
<1>6. call' = Trees!NoCall /\ seq'["b"] = SubSeq(acc, 1, built + 1)
  BY <1>1, <1>3, <1>4 DEF Trees!Snoc, Trees!Build
<1>7. Building'
  BY <1>1, <1>2, <1>6 DEF Building
<1>8. ProgramInv'
  BY <1>1, <1>6, <1>7
  DEF ProgramInv, ViewOfA, ViewOfB, Quiet, Reading, OneTree, Comparing, NotYet, Quotient
<1> QED
  BY <1>1, <1>5, <1>8 DEF SInv, GivenHold

LEMMA BuildConsInv ==
  ASSUME SInv, BuildCons
  PROVE  SInv'
<1>1. /\ Trees!Inv /\ GivenHold /\ ProgramInv
      /\ pc = "by_cons" /\ built < Len(acc) /\ built' = built + 1
      /\ Trees!Cons("b", acc[Len(acc) - built], "b")
      /\ UNCHANGED <<pc, acc, first, given, result>>
  BY SameOperations DEF SInv, BuildCons
<1>2. /\ acc \in Seq(Value) /\ acc = given["a"].seq /\ built \in 0..Len(acc)
      /\ seq["b"] = SubSeq(acc, Len(acc) - built + 1, Len(acc))
  BY <1>1, GivenFacts DEF ProgramInv, Building
<1>3. /\ acc[Len(acc) - built] \in Value
      /\ <<acc[Len(acc) - built]>> \o seq["b"] = SubSeq(acc, Len(acc) - built, Len(acc))
  <2>1. <<acc[Len(acc) - built]>> \o SubSeq(acc, Len(acc) - built + 1, Len(acc)) =
          SubSeq(acc, Len(acc) - built, Len(acc))
    BY <1>1, <1>2, SuffixGrows
  <2>2. acc[Len(acc) - built] \in Value
    BY <1>1, <1>2, SuffixGrows
  <2> QED
    BY <1>2, <2>1, <2>2
<1>4. "b" \in Local /\ DOMAIN seq = Local
  BY <1>1, SeqFacts DEF Local
<1>5. Trees!Inv'
  BY <1>1, <1>3, <1>4, Trees!ConstructorsInv
<1>6. call' = Trees!NoCall /\ seq'["b"] = SubSeq(acc, Len(acc) - built, Len(acc))
  BY <1>1, <1>3, <1>4 DEF Trees!Cons, Trees!Build
<1>7. Len(acc) \in Nat /\ Len(acc) - built = Len(acc) - (built + 1) + 1
  BY <1>2
<1>8. Building'
  BY <1>1, <1>2, <1>6, <1>7 DEF Building
<1>9. ProgramInv'
  BY <1>1, <1>6, <1>8
  DEF ProgramInv, ViewOfA, ViewOfB, Quiet, Reading, OneTree, Comparing, NotYet, Quotient
<1> QED
  BY <1>1, <1>5, <1>9 DEF SInv, GivenHold

LEMMA CompareBuiltInv ==
  ASSUME SInv, CompareBuilt
  PROVE  SInv'
<1>1. /\ Trees!Inv /\ GivenHold /\ ProgramInv
      /\ pc \in {"from_range", "by_cons"} /\ built = Len(acc) /\ pc' = "view_a"
      /\ tree' = [tree EXCEPT !["a"] = given["a"].tree]
      /\ seq' = [seq EXCEPT !["a"] = given["a"].seq]
      /\ UNCHANGED <<call, answer, acc, built, first, given, result>>
  BY DEF SInv, CompareBuilt
<1>2. "a" \in Local /\ "b" \in Local /\ DOMAIN seq = Local
  BY <1>1, SeqFacts DEF Local
<1>3. call = Trees!NoCall /\ Trees!Denotes(given["a"].tree, given["a"].seq)
  BY <1>1 DEF ProgramInv, Quiet, GivenHold, Side
<1>4. Trees!Inv' /\ call' = Trees!NoCall
  BY <1>1, <1>2, <1>3, MoveInv DEF Moved
<1>5. acc \in Seq(Value) /\ acc = given["a"].seq /\ given["a"] = given["b"]
  BY <1>1, GivenFacts DEF ProgramInv, Building, OneTree
<1>6. seq["b"] = acc
  <2>1. SubSeq(acc, 1, Len(acc)) = acc /\ Len(acc) - Len(acc) + 1 = 1
    BY <1>5, NoneAndAll
  <2> QED
    BY <1>1, <2>1 DEF ProgramInv, Building
<1>7. seq'["a"] = acc /\ seq'["b"] = acc
  BY <1>1, <1>2, <1>5, <1>6
<1>8. SamePrefix'
  <2>1. <<>> \in Seq(Value) /\ acc = <<>> \o acc
    BY <1>5, ConcatFacts
  <2> QED
    BY <1>1, <1>5, <1>7, <2>1 DEF SamePrefix, Side
<1>9. ProgramInv'
  BY <1>1, <1>4, <1>8
  DEF ProgramInv, ViewOfA, ViewOfB, Quiet, Reading, Building, OneTree, Comparing, NotYet, Quotient
<1> QED
  BY <1>1, <1>4, <1>9 DEF SInv, GivenHold

LEMMA ViewAInv ==
  ASSUME SInv, ViewA
  PROVE  SInv'
<1>1. /\ Trees!Inv' /\ UNCHANGED <<tree, answer, seq>> /\ call' # Trees!NoCall
      /\ CallOf("va", "a")'
  BY ViewStarts DEF SInv, ViewA, Local
<1>2. /\ pc = "view_a" /\ pc' = "view_b" /\ UNCHANGED <<acc, built, first, given, result>>
      /\ GivenHold /\ ProgramInv
  BY DEF ViewA, SInv
<1>3. SamePrefix'
  BY <1>1, <1>2 DEF ProgramInv, Comparing, SamePrefix
<1>4. ProgramInv'
  BY <1>1, <1>2, <1>3
  DEF ProgramInv, ViewOfA, ViewOfB, Quiet, Reading, Building, OneTree, Comparing, NotYet, Quotient
<1> QED
  BY <1>1, <1>2, <1>4 DEF SInv, GivenHold

LEMMA ViewBInv ==
  ASSUME SInv, ViewB
  PROVE  SInv'
<1>1. /\ Trees!Inv' /\ UNCHANGED <<tree, answer, seq>> /\ call' # Trees!NoCall
      /\ call = Trees!NoCall /\ CallOf("vb", "b")'
  BY ViewStarts DEF SInv, ViewB, Local
<1>2. /\ pc = "view_b" /\ pc' = "compare" /\ UNCHANGED <<acc, built, given, result>>
      /\ first' = answer /\ GivenHold /\ ProgramInv
  BY DEF ViewB, SInv
<1>3. SamePrefix'
  BY <1>1, <1>2 DEF ProgramInv, Comparing, SamePrefix
<1>4. Viewed(first', seq'["a"], seq'["va"])
  BY <1>1, <1>2 DEF ProgramInv, ViewOfA
<1>5. ProgramInv'
  BY <1>1, <1>2, <1>3, <1>4
  DEF ProgramInv, ViewOfA, ViewOfB, Quiet, Reading, Building, OneTree, Comparing, NotYet, Quotient
<1> QED
  BY <1>1, <1>2, <1>5 DEF SInv, GivenHold

\* The verdict is right, and without one both sequences go on alike.
Right(verdict, u, x, y, p, q) ==
  /\ verdict \in {"equal", "different", "none"}
  /\ verdict = "equal" => u \o x = u \o y
  /\ verdict = "different" => u \o x # u \o y
  /\ verdict = "none" => \E v \in Value : x = <<v>> \o p /\ y = <<v>> \o q

LEMMA VerdictRight ==
  ASSUME NEW u \in Seq(Value), NEW x \in Seq(Value), NEW y \in Seq(Value),
         NEW va, NEW vb, NEW p \in Seq(Value), NEW q \in Seq(Value),
         Viewed(va, x, p), Viewed(vb, y, q)
  PROVE  Right(Verdict(va, vb), u, x, y, p, q)
<1>1. CASE va = <<>> /\ vb = <<>>
  BY <1>1 DEF Viewed, Verdict, Right
<1>2. ASSUME va = <<>>, NEW v \in Value, vb = <<v>>, y = <<v>> \o q
      PROVE  Verdict(va, vb) = "different" /\ u \o x # u \o y
  <2>1. x = <<>>
    BY <1>2 DEF Viewed
  <2>2. u \o y # u \o <<>>
    BY <1>2, DifferentEnd
  <2> QED
    BY <1>2, <2>1, <2>2 DEF Verdict
<1>3. ASSUME vb = <<>>, NEW v \in Value, va = <<v>>, x = <<v>> \o p
      PROVE  Verdict(va, vb) = "different" /\ u \o x # u \o y
  <2>1. y = <<>>
    BY <1>3 DEF Viewed
  <2>2. u \o x # u \o <<>>
    BY <1>3, DifferentEnd
  <2> QED
    BY <1>3, <2>1, <2>2 DEF Verdict
<1>4. ASSUME NEW v \in Value, va = <<v>>, x = <<v>> \o p,
             NEW w \in Value, vb = <<w>>, y = <<w>> \o q
      PROVE  IF v = w THEN Verdict(va, vb) = "none"
             ELSE Verdict(va, vb) = "different" /\ u \o x # u \o y
  <2>1. va # <<>> /\ vb # <<>> /\ (va = vb <=> v = w)
    BY <1>4
  <2>2. ASSUME v # w
        PROVE  u \o x # u \o y
    <3>1. u \o (<<v>> \o p) # u \o (<<w>> \o q)
      BY <2>2, DifferentNext
    <3> QED
      BY <1>4, <3>1
  <2> QED
    BY <2>1, <2>2 DEF Verdict
<1> QED
  BY <1>1, <1>2, <1>3, <1>4 DEF Viewed, Right

LEMMA CompareInv ==
  ASSUME SInv, Compare
  PROVE  SInv'
<1>1. /\ Trees!Inv /\ GivenHold /\ ProgramInv
      /\ pc = "compare" /\ call = Trees!NoCall
      /\ result' = Verdict(first, answer)
      /\ UNCHANGED <<call, answer, acc, built, first, given>>
  BY SameTrees DEF SInv, Compare
<1>2. /\ Viewed(first, seq["a"], seq["va"]) /\ Viewed(answer, seq["b"], seq["vb"])
      /\ result = "none" /\ SamePrefix
  BY <1>1 DEF ProgramInv, ViewOfB, NotYet, Comparing
<1>3. /\ "a" \in Local /\ "b" \in Local /\ "va" \in Local /\ "vb" \in Local
      /\ "a" \in Side /\ "b" \in Side /\ \A r \in Side : r = "a" \/ r = "b"
  BY DEF Local, Side
<1>4. /\ DOMAIN tree = Local /\ DOMAIN seq = Local
      /\ \A x \in Local : seq[x] \in Seq(Value) /\ Trees!Denotes(tree[x], seq[x])
  BY <1>1, SeqFacts
<1>5. PICK u \in Seq(Value) : given["a"].seq = u \o seq["a"] /\ given["b"].seq = u \o seq["b"]
  BY <1>2, <1>3 DEF SamePrefix
<1>6. /\ result' \in {"equal", "different", "none"} /\ Quotient'
      /\ result' = "none" => \E v \in Value : /\ seq["a"] = <<v>> \o seq["va"]
                                              /\ seq["b"] = <<v>> \o seq["vb"]
  <2>1. /\ seq["a"] \in Seq(Value) /\ seq["b"] \in Seq(Value)
        /\ seq["va"] \in Seq(Value) /\ seq["vb"] \in Seq(Value)
    BY <1>3, <1>4
  <2>2. Right(Verdict(first, answer), u, seq["a"], seq["b"], seq["va"], seq["vb"])
    BY <1>2, <2>1, VerdictRight
  <2> QED
    BY <1>1, <1>5, <2>2 DEF Quotient, Right
<1>7. CASE result' # "none"
  <2>1. pc' = "done" /\ UNCHANGED <<tree, seq>>
    BY <1>7 DEF Compare
  <2>2. Trees!Inv'
    BY <1>1, <2>1
    DEF Trees!Inv, Trees!Functions, Trees!RegistersHold, Trees!CallHolds
  <2>3. SamePrefix'
    BY <1>1, <1>2, <2>1 DEF SamePrefix
  <2>4. ProgramInv'
    BY <1>1, <1>6, <2>1, <2>3
    DEF ProgramInv, ViewOfA, ViewOfB, Quiet, Reading, Building, OneTree, Comparing, NotYet
  <2> QED
    BY <1>1, <2>2, <2>4 DEF SInv, GivenHold
<1>8. CASE result' = "none"
  <2>1. pc' = "view_a" /\ tree' = Advance(tree) /\ seq' = Advance(seq)
    BY <1>8 DEF Compare
  <2>2. PICK v \in Value : seq["a"] = <<v>> \o seq["va"] /\ seq["b"] = <<v>> \o seq["vb"]
    BY <1>6, <1>8
  <2>3. /\ tree' = [x \in Local |-> IF x = "a" THEN tree["va"]
                                    ELSE IF x = "b" THEN tree["vb"] ELSE tree[x]]
        /\ seq' = [x \in Local |-> IF x = "a" THEN seq["va"]
                                   ELSE IF x = "b" THEN seq["vb"] ELSE seq[x]]
    BY <1>4, <2>1 DEF Advance, Local
  <2>4. Trees!Functions' /\ Trees!RegistersHold'
    BY <1>3, <1>4, <2>3 DEF Trees!Functions, Trees!RegistersHold
  <2>5. Trees!Inv'
    BY <1>1, <2>4 DEF Trees!Inv, Trees!CallHolds
  <2>6. <<v>> \in Seq(Value) /\ u \o <<v>> \in Seq(Value)
    BY ConcatFacts
  <2>7. \A r \in Side : given[r].seq = (u \o <<v>>) \o seq'[r]
    <3>1. /\ u \o (<<v>> \o seq["va"]) = (u \o <<v>>) \o seq["va"]
          /\ u \o (<<v>> \o seq["vb"]) = (u \o <<v>>) \o seq["vb"]
      <4>1. seq["va"] \in Seq(Value) /\ seq["vb"] \in Seq(Value)
        BY <1>3, <1>4
      <4>2. ASSUME NEW w \in Seq(Value)
            PROVE  u \o (<<v>> \o w) = (u \o <<v>>) \o w
        BY <2>6, ConcatAssociative
      <4> QED
        BY <4>1, <4>2
    <3>2. seq'["a"] = seq["va"] /\ seq'["b"] = seq["vb"]
      BY <1>3, <2>3
    <3>3. /\ given["a"].seq = (u \o <<v>>) \o seq'["a"]
          /\ given["b"].seq = (u \o <<v>>) \o seq'["b"]
      BY <1>5, <2>2, <3>1, <3>2
    <3> QED
      BY <1>3, <3>3
  <2>8. SamePrefix'
    BY <1>1, <2>6, <2>7 DEF SamePrefix
  <2>9. ProgramInv'
    BY <1>1, <1>2, <1>6, <1>8, <2>1, <2>8
    DEF ProgramInv, ViewOfA, ViewOfB, Quiet, Reading, Building, OneTree, Comparing, NotYet
  <2> QED
    BY <1>1, <2>5, <2>9 DEF SInv, GivenHold
<1> QED
  BY <1>7, <1>8

-----------------------------------------------------------------------------

LEMMA StepSInv == SInv /\ [Next]_vars => SInv'
<1> SUFFICES ASSUME SInv, [Next]_vars
             PROVE  SInv'
  OBVIOUS
<1>1. CASE UNCHANGED vars
  <2>1. Trees!Inv' /\ GivenHold'
    BY <1>1
    DEF vars, SInv, GivenHold, Trees!Inv, Trees!Functions, Trees!RegistersHold, Trees!CallHolds
  <2>2. ViewOfA' /\ ViewOfB' /\ Quiet'
    BY <1>1 DEF vars, SInv, ProgramInv, ViewOfA, ViewOfB, Quiet, CallOf
  <2>3. Reading' /\ Building' /\ OneTree' /\ Comparing' /\ NotYet' /\ Quotient'
    BY <1>1
    DEF vars, SInv, ProgramInv, Reading, Building, OneTree, Comparing, SamePrefix, NotYet,
        Quotient
  <2> QED
    BY <2>1, <2>2, <2>3 DEF SInv, ProgramInv
<1> QED
  BY <1>1, WalkViewInv, WalkOnInv, WalkEndInv, BuildSnocInv, BuildConsInv, CompareBuiltInv,
     ViewAInv, ViewBInv, CompareInv, RunViewInv
  DEF Next

LEMMA SInvariance ==
  ASSUME InputsDenote
  PROVE  Spec => []SInv
<1>1. Init => SInv
  BY InitSInv
<1> QED
  BY <1>1, StepSInv, PTL DEF Spec

\* sequence_equal decides equality of the sequences, on trees of any shapes,
\* and whatever is built again from the elements of a tree is equal to it
\* (sequence_algorithms.cpp:133-149, 180).
THEOREM SequenceEqualDecides ==
  ASSUME InputsDenote
  PROVE  Spec => []Quotient
<1>1. SInv => Quotient
  BY DEF SInv, ProgramInv
<1> QED
  BY <1>1, SInvariance, PTL

\* The loop takes the same elements off both sides, one per round
\* (sequence_algorithms.cpp:134-148).
THEOREM ComparedInStep ==
  ASSUME InputsDenote
  PROVE  Spec => []InStep
<1>1. SInv => InStep
  <2> SUFFICES ASSUME SInv, pc \in {"view_a", "view_b", "compare", "done"}
               PROVE  InStep
    BY DEF InStep
  <2>1. PICK u \in Seq(Value) : given["a"].seq = u \o seq["a"] /\ given["b"].seq = u \o seq["b"]
    BY DEF SInv, ProgramInv, Comparing, SamePrefix, Side
  <2>2. seq["a"] \in Seq(Value) /\ seq["b"] \in Seq(Value)
    BY SeqFacts DEF SInv, Local
  <2> DEFINE n == Len(u)
  <2>3. /\ n \in 0..Len(given["a"].seq) /\ SubSeq(given["a"].seq, 1, n) = u
        /\ seq["a"] = SubSeq(given["a"].seq, n + 1, Len(given["a"].seq))
    BY <2>1, <2>2, Cut
  <2>4. /\ n \in 0..Len(given["b"].seq) /\ SubSeq(given["b"].seq, 1, n) = u
        /\ seq["b"] = SubSeq(given["b"].seq, n + 1, Len(given["b"].seq))
    BY <2>1, <2>2, Cut
  <2>5. n <= Len(given["b"].seq)
    BY <2>4
  <2> QED
    BY <2>3, <2>4, <2>5 DEF InStep
<1> QED
  BY <1>1, SInvariance, PTL

\* The view walk reads the whole sequence, in order
\* (sequence_algorithms.cpp:193-216).
THEOREM WalkReadsAll ==
  ASSUME InputsDenote
  PROVE  Spec => []WalkReads
<1>1. SInv => WalkReads
  BY DEF SInv, ProgramInv, Building, WalkReads
<1> QED
  BY <1>1, SInvariance, PTL
=============================================================================
