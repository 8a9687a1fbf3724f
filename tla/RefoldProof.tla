---------------------------- MODULE RefoldProof ----------------------------
(***************************************************************************)
(* The verbs compute the solution of their defining equation, for every    *)
(* coalgebra, algebra and carrier.  No induction over trees is needed: the *)
(* execution itself goes from the leaves up, and the invariant says that   *)
(* what it has stored so far agrees with the solution.                     *)
(***************************************************************************)
EXTENDS Refold, ProofLemmas

\* An exhausted frame's layer combines to the meaning of its seed.
LEMMA FrameAnswer ==
  ASSUME NEW f \in Frame,
         f.layer = Coalgebra(f.seed), FrameResults(f), Exhausted(f)
  PROVE  /\ Algebra(f.layer.value, f.done) = Meaning[f.seed]
         /\ Meaning[f.seed] \in Result
<1> DEFINE n == Len(f.layer.slots)
           e == [i \in 1..n |-> SlotMeaning(f.layer.slots[i])]
<1>1. f.seed \in Seed /\ f.layer \in Layer /\ f.done \in Seq(Result \cup {Absent})
  BY DEF Frame
<1>2. Len(f.done) = n
  BY DEF Exhausted
<1>3. f.done = [i \in 1..n |-> f.done[i]]
  BY <1>1, <1>2
<1>4. f.done = e
  BY <1>2, <1>3 DEF FrameResults
<1>5. Meaning[f.seed] = Algebra(f.layer.value, e)
  BY <1>1, MeaningAssumption
<1> QED
  BY <1>1, <1>4, <1>5, MeaningAssumption

\* Storing a result changes the innermost frame only, at its next slot.
LEMMA StoreProperties ==
  ASSUME NEW fs \in Seq(Frame), fs # <<>>, NEW r \in Result \cup {Absent}
  PROVE  /\ Store(fs, r) \in Seq(Frame)
         /\ Len(Store(fs, r)) = Len(fs)
         /\ \A n \in 1..Len(fs) - 1 : Store(fs, r)[n] = fs[n]
         /\ LET f == fs[Len(fs)]
                g == Store(fs, r)[Len(fs)]
            IN  /\ g.seed = f.seed
                /\ g.layer = f.layer
                /\ g.done = Append(f.done, r)
<1> DEFINE k == Len(fs)
           g == [fs[k] EXCEPT !.done = Append(@, r)]
<1>1. k \in 1..Len(fs) /\ k \in Nat
  OBVIOUS
<1>2. Store(fs, r) = [fs EXCEPT ![k] = g]
  BY DEF Store
<1>3. fs[k] \in Frame
  BY <1>1
<1>4. g \in Frame
  <2>1. fs[k].done \in Seq(Result \cup {Absent})
    BY <1>3 DEF Frame
  <2>2. Append(fs[k].done, r) \in Seq(Result \cup {Absent})
    BY <2>1
  <2> QED
    BY <1>3, <2>2 DEF Frame
<1> HIDE DEF g
<1>5. Store(fs, r) \in Seq(Frame) /\ Len(Store(fs, r)) = k
  BY <1>1, <1>2, <1>4
<1>6. \A n \in 1..k - 1 : Store(fs, r)[n] = fs[n]
  BY <1>1, <1>2
<1>7. Store(fs, r)[k] = g
  BY <1>1, <1>2
<1>8. g.seed = fs[k].seed /\ g.layer = fs[k].layer /\ g.done = Append(fs[k].done, r)
  BY <1>3 DEF g, Frame
<1> QED
  BY <1>5, <1>6, <1>7, <1>8

\* A result that is the meaning of the frame's next slot keeps the frame right.
LEMMA FrameStores ==
  ASSUME NEW f \in Frame, NEW g \in Frame, NEW r \in Result \cup {Absent},
         FrameResults(f), ~Exhausted(f), r = SlotMeaning(NextSlot(f)),
         g.layer = f.layer, g.done = Append(f.done, r)
  PROVE  FrameResults(g)
<1>1. /\ f.done \in Seq(Result \cup {Absent}) /\ f.layer.slots \in Seq(Seed \cup {Absent})
      /\ Len(f.done) \in Nat /\ Len(f.layer.slots) \in Nat
  BY DEF Frame, Layer
<1>2. Len(f.done) < Len(f.layer.slots)
  BY <1>1 DEF FrameResults, Exhausted
<1>3. Len(g.done) = Len(f.done) + 1
  BY <1>1
<1>4. ASSUME NEW i \in 1..Len(g.done)
      PROVE  g.done[i] = SlotMeaning(g.layer.slots[i])
  <2>1. CASE i = Len(f.done) + 1
    BY <1>1, <2>1 DEF NextSlot
  <2>2. CASE i # Len(f.done) + 1
    <3>1. i \in 1..Len(f.done)
      BY <1>1, <1>3, <2>2
    <3>2. g.done[i] = f.done[i]
      BY <1>1, <3>1
    <3> QED
      BY <3>1, <3>2 DEF FrameResults
  <2> QED
    BY <2>1, <2>2
<1> QED
  BY <1>1, <1>2, <1>3, <1>4 DEF FrameResults

-----------------------------------------------------------------------------
(* The inductive invariant: the stack is consistent, and a call that has     *)
(* answered has emptied it.                                                  *)
Answered == outcome # Absent => stack = <<>> /\ root # Absent
Idle == root = Absent => stack = <<>> /\ outcome = Absent
Inv == TypeOK /\ StackConsistent /\ Answered /\ Idle

LEMMA FrameOfSeed ==
  ASSUME NEW s \in Seed
  PROVE  /\ NewFrame(s) \in Frame
         /\ NewFrame(s).seed = s
         /\ NewFrame(s).layer = Coalgebra(s)
         /\ FrameResults(NewFrame(s))
<1>1. Coalgebra(s) \in Layer
  BY CoalgebraAssumption
<1>2. <<>> \in Seq(Result \cup {Absent})
  OBVIOUS
<1>3. NewFrame(s) \in Frame
  BY <1>1, <1>2 DEF NewFrame, Frame
<1>4. NewFrame(s).seed = s /\ NewFrame(s).layer = Coalgebra(s) /\ NewFrame(s).done = <<>>
  BY DEF NewFrame
<1>5. Len(NewFrame(s).layer.slots) \in Nat
  BY <1>1, <1>4 DEF Layer
<1>6. FrameResults(NewFrame(s))
  BY <1>4, <1>5 DEF FrameResults
<1> QED
  BY <1>3, <1>4, <1>6

LEMMA InvInit == Init => Inv
<1> SUFFICES ASSUME Init PROVE Inv
  OBVIOUS
<1> USE DEF Init
<1>1. TypeOK
  BY DEF TypeOK
<1>2. StackConsistent
  BY DEF StackConsistent
<1> QED
  BY <1>1, <1>2 DEF Inv, Answered, Idle

\* The next slot of a frame that is not exhausted.
LEMMA NextSlotType ==
  ASSUME NEW f \in Frame, FrameResults(f), ~Exhausted(f)
  PROVE  NextSlot(f) \in Seed \cup {Absent}
<1>1. f.done \in Seq(Result \cup {Absent}) /\ f.layer.slots \in Seq(Seed \cup {Absent})
  BY DEF Frame, Layer
<1>2. Len(f.done) + 1 \in 1..Len(f.layer.slots)
  BY <1>1 DEF FrameResults, Exhausted
<1> QED
  BY <1>1, <1>2 DEF NextSlot

\* A call is made: by the client on an empty stack, or by the fmap of the
\* innermost frame for the slot it has reached.
LEMMA PushInv ==
  ASSUME Inv, NEW s \in Seed,
         stack' = Append(stack, NewFrame(s)),
         stack = <<>> => root' = s,
         stack # <<>> => root' = root /\ ~Exhausted(Top) /\ NextSlot(Top) = s,
         outcome = Absent, outcome' = outcome
  PROVE  stack' \in Seq(Frame) /\ StackConsistent'
<1> DEFINE k == Len(stack)
           f == NewFrame(s)
<1>1. stack \in Seq(Frame) /\ k \in Nat
  BY DEF Inv, TypeOK
<1>2. f \in Frame /\ f.seed = s /\ f.layer = Coalgebra(s) /\ FrameResults(f)
  BY FrameOfSeed
<1> HIDE DEF f
<1>3. /\ stack' \in Seq(Frame) /\ Len(stack') = k + 1
      /\ stack'[k + 1] = f /\ \A n \in 1..k : stack'[n] = stack[n]
  BY <1>1, <1>2 DEF f
<1>4. ASSUME NEW n \in 1..Len(stack')
      PROVE  stack'[n].layer = Coalgebra(stack'[n].seed) /\ FrameResults(stack'[n])
  <2>1. CASE n = k + 1
    BY <1>2, <1>3, <2>1
  <2>2. CASE n # k + 1
    BY <1>1, <1>3, <2>2 DEF Inv, StackConsistent
  <2> QED
    BY <2>1, <2>2
<1>5. ASSUME NEW n \in 1..Len(stack') - 1
      PROVE  ~Exhausted(stack'[n]) /\ NextSlot(stack'[n]) = stack'[n + 1].seed
  <2>0. n \in 1..k /\ stack'[n] = stack[n]
    BY <1>1, <1>3
  <2>1. CASE n = k
    BY <1>1, <1>2, <1>3, <2>0, <2>1 DEF Top
  <2>2. CASE n # k
    <3>1. n \in 1..k - 1 /\ n + 1 \in 1..k
      BY <1>1, <2>0, <2>2
    <3> QED
      BY <1>3, <2>0, <3>1 DEF Inv, StackConsistent
  <2> QED
    BY <2>1, <2>2
<1>6. stack'[1].seed = root' /\ outcome' = Absent
  <2>1. CASE stack = <<>>
    BY <1>2, <1>3, <2>1
  <2>2. CASE stack # <<>>
    <3>1. 1 \in 1..k
      BY <1>1, <2>2
    <3> QED
      BY <1>3, <2>2, <3>1 DEF Inv, StackConsistent
  <2> QED
    BY <2>1, <2>2
<1>7. StackConsistent'
  BY <1>4, <1>5, <1>6 DEF StackConsistent
<1> QED
  BY <1>3, <1>7

\* A slot is filled with its meaning in the innermost of the frames fs, a
\* prefix of the stack.
LEMMA StoreInv ==
  ASSUME Inv, NEW fs \in Seq(Frame), fs # <<>>, NEW r \in Result \cup {Absent},
         Len(fs) <= Len(stack), \A n \in 1..Len(fs) : fs[n] = stack[n],
         ~Exhausted(fs[Len(fs)]), r = SlotMeaning(NextSlot(fs[Len(fs)])),
         stack' = Store(fs, r), root' = root, outcome' = outcome
  PROVE  stack' \in Seq(Frame) /\ StackConsistent'
<1> DEFINE k == Len(fs)
           g == stack'[k]
<1>1. stack \in Seq(Frame) /\ k \in Nat /\ k \in 1..Len(stack) /\ fs[k] = stack[k] /\ Len(stack) \in Nat
  BY DEF Inv, TypeOK
<1>2. /\ stack' \in Seq(Frame) /\ Len(stack') = k
      /\ \A n \in 1..k - 1 : stack'[n] = stack[n]
      /\ g.seed = stack[k].seed /\ g.layer = stack[k].layer
      /\ g.done = Append(stack[k].done, r)
  BY <1>1, StoreProperties
<1>3. g \in Frame /\ stack[k] \in Frame
  BY <1>1, <1>2
<1>4. g.layer = Coalgebra(g.seed) /\ FrameResults(g)
  <2>1. stack[k].layer = Coalgebra(stack[k].seed) /\ FrameResults(stack[k])
    BY <1>1 DEF Inv, StackConsistent
  <2> QED
    BY <1>1, <1>2, <1>3, <2>1, FrameStores
<1> HIDE DEF g
<1>5. ASSUME NEW n \in 1..Len(stack')
      PROVE  stack'[n].layer = Coalgebra(stack'[n].seed) /\ FrameResults(stack'[n])
  <2>1. CASE n = k
    BY <1>4, <2>1 DEF g
  <2>2. CASE n # k
    <3>1. n \in 1..k - 1 /\ n \in 1..Len(stack)
      BY <1>1, <1>2, <2>2
    <3>2. stack'[n] = stack[n]
      BY <1>2, <3>1
    <3> QED
      BY <3>1, <3>2 DEF Inv, StackConsistent
  <2> QED
    BY <2>1, <2>2
<1>6. ASSUME NEW n \in 1..Len(stack') - 1
      PROVE  ~Exhausted(stack'[n]) /\ NextSlot(stack'[n]) = stack'[n + 1].seed
  <2>1. stack'[n] = stack[n] /\ n \in 1..Len(stack) - 1
    BY <1>1, <1>2
  <2>2. stack'[n + 1].seed = stack[n + 1].seed
    <3>1. CASE n + 1 = k
      BY <1>2, <3>1 DEF g
    <3>2. CASE n + 1 # k
      BY <1>1, <1>2, <3>2
    <3> QED
      BY <3>1, <3>2
  <2> QED
    BY <2>1, <2>2 DEF Inv, StackConsistent
<1>7. stack'[1].seed = root' /\ outcome' = Absent
  <2>1. stack # <<>> /\ 1 \in 1..k
    BY <1>1
  <2>2. stack[1].seed = root /\ outcome = Absent
    BY <2>1 DEF Inv, StackConsistent
  <2>3. stack'[1].seed = stack[1].seed
    <3>1. CASE k = 1
      BY <1>2, <3>1 DEF g
    <3>2. CASE k # 1
      BY <1>1, <1>2, <3>2
    <3> QED
      BY <3>1, <3>2
  <2> QED
    BY <2>2, <2>3
<1>8. StackConsistent'
  BY <1>5, <1>6, <1>7 DEF StackConsistent
<1> QED
  BY <1>2, <1>8

\* What is known of the innermost frame while a call is running.
LEMMA TopFrame ==
  ASSUME Inv, stack # <<>>
  PROVE  /\ Len(stack) \in 1..Len(stack) /\ Top \in Frame
         /\ Top.seed \in Seed /\ Top.layer = Coalgebra(Top.seed) /\ FrameResults(Top)
         /\ outcome = Absent /\ root # Absent
<1>1. stack \in Seq(Frame) /\ Len(stack) \in 1..Len(stack)
  BY DEF Inv, TypeOK
<1>2. Top \in Frame
  BY <1>1 DEF Top
<1>3. Top.seed \in Seed
  BY <1>2 DEF Frame
<1>4. Top.layer = Coalgebra(Top.seed) /\ FrameResults(Top)
  BY <1>1 DEF Inv, StackConsistent, Top
<1>5. outcome = Absent /\ root # Absent
  BY DEF Inv, StackConsistent, Idle
<1> QED
  BY <1>1, <1>2, <1>3, <1>4, <1>5

LEMMA InvokeStep == ASSUME Inv, NEW s \in Seed, Invoke(s) PROVE Inv'
<1> USE DEF Invoke
<1>1. stack = <<>> /\ outcome = Absent
  BY DEF Inv, Idle
<1>2. stack' = Append(stack, NewFrame(s))
  BY <1>1, FrameOfSeed
<1>3. stack' \in Seq(Frame) /\ StackConsistent'
  BY <1>1, <1>2, PushInv
<1>4. TypeOK'
  BY <1>3 DEF Inv, TypeOK
<1> QED
  BY <1>1, <1>3, <1>4, AbsentAssumption DEF Inv, Answered, Idle

LEMMA DescendStep == ASSUME Inv, Descend PROVE Inv'
<1> USE DEF Descend
<1>1. /\ Top \in Frame /\ FrameResults(Top) /\ outcome = Absent /\ root # Absent
  BY TopFrame
<1>2. NextSlot(Top) \in Seed
  BY <1>1, NextSlotType
<1>3. stack' \in Seq(Frame) /\ StackConsistent'
  BY <1>1, <1>2, PushInv
<1>4. TypeOK'
  BY <1>2, <1>3 DEF Inv, TypeOK
<1> QED
  BY <1>1, <1>3, <1>4 DEF Inv, Answered, Idle

LEMMA PassAbsentStep == ASSUME Inv, PassAbsent PROVE Inv'
<1> USE DEF PassAbsent
<1>1. /\ Top \in Frame /\ FrameResults(Top) /\ outcome = Absent /\ root # Absent
  BY TopFrame
<1>2. Absent = SlotMeaning(NextSlot(Top))
  BY DEF SlotMeaning
<1>3. stack \in Seq(Frame) /\ Len(stack) \in Nat
  BY DEF Inv, TypeOK
<1>4. stack' \in Seq(Frame) /\ StackConsistent'
  BY <1>1, <1>2, <1>3, StoreInv DEF Top
<1>5. TypeOK'
  BY <1>4 DEF Inv, TypeOK
<1> QED
  BY <1>1, <1>4, <1>5 DEF Inv, Answered, Idle

\* The frames below the innermost one.
LEMMA RestProperties ==
  ASSUME Inv, stack # <<>>, Len(stack) # 1
  PROVE  /\ Rest \in Seq(Frame) /\ Rest # <<>> /\ Len(Rest) = Len(stack) - 1
         /\ \A n \in 1..Len(Rest) : Rest[n] = stack[n]
<1> DEFINE k == Len(stack)
<1>1. stack \in Seq(Frame) /\ k \in Nat
  BY DEF Inv, TypeOK
<1>2. k # 0 /\ k # 1
  BY <1>1
<1> HIDE DEF k
<1>3. k > 1
  BY <1>1, <1>2
<1> USE DEF k
<1>4. /\ Rest \in Seq(Frame) /\ Len(Rest) = k - 1
      /\ \A n \in 1..k - 1 : Rest[n] = stack[n]
  <2>1. 1 \in Int /\ k - 1 \in Int /\ \A i \in 1..(k - 1) : stack[i] \in Frame
    BY <1>1, <1>3
  <2>2. /\ SubSeq(stack, 1, k - 1) \in Seq(Frame)
        /\ Len(SubSeq(stack, 1, k - 1)) = IF 1 <= k - 1 THEN (k - 1) - 1 + 1 ELSE 0
        /\ \A i \in 1..((k - 1) - 1 + 1) : SubSeq(stack, 1, k - 1)[i] = stack[1 + i - 1]
    BY <2>1, SubSeqProperties
  <2> QED
    BY <1>1, <1>3, <2>2 DEF Rest
<1>5. Rest # <<>>
  BY <1>3, <1>4
<1> QED
  BY <1>4, <1>5

LEMMA ReturnStep == ASSUME Inv, Return PROVE Inv'
<1> USE DEF Return
<1> DEFINE r == Algebra(Top.layer.value, Top.done)
<1>1. /\ Len(stack) \in 1..Len(stack) /\ Top \in Frame /\ Top.seed \in Seed
      /\ Top.layer = Coalgebra(Top.seed) /\ FrameResults(Top)
      /\ outcome = Absent /\ root # Absent
  BY TopFrame
<1>2. r = Meaning[Top.seed] /\ r \in Result
  BY <1>1, FrameAnswer
<1> HIDE DEF r
<1>3. trace' \in Seq({"coalgebra", "algebra"} \X Seed) /\ root' \in Seed \cup {Absent}
  BY <1>1 DEF Inv, TypeOK
<1>4. CASE Len(stack) = 1
  <2>1. stack' = <<>> /\ outcome' = r
    BY <1>4 DEF r
  <2>2. StackConsistent'
    BY <2>1 DEF StackConsistent
  <2>3. TypeOK'
    BY <1>2, <1>3, <2>1 DEF TypeOK
  <2> QED
    BY <1>1, <2>1, <2>2, <2>3 DEF Inv, Answered, Idle
<1>5. CASE Len(stack) # 1
  <2>1. stack' = Store(Rest, r) /\ outcome' = outcome
    BY <1>5 DEF r
  <2>2. /\ Rest \in Seq(Frame) /\ Rest # <<>> /\ Len(Rest) = Len(stack) - 1
        /\ \A n \in 1..Len(Rest) : Rest[n] = stack[n]
    BY <1>5, RestProperties
  <2>3. Len(Rest) \in 1..Len(Rest) /\ Len(Rest) <= Len(stack)
    BY <1>1, <2>2
  <2>4. ~Exhausted(Rest[Len(Rest)]) /\ NextSlot(Rest[Len(Rest)]) = Top.seed
    BY <1>1, <2>2, <2>3 DEF Inv, StackConsistent, Top
  <2>5. r = SlotMeaning(NextSlot(Rest[Len(Rest)]))
    BY <1>1, <1>2, <2>4, AbsentAssumption DEF SlotMeaning
  <2>6. stack' \in Seq(Frame) /\ StackConsistent'
    BY <1>2, <2>1, <2>2, <2>3, <2>4, <2>5, StoreInv
  <2>7. TypeOK'
    BY <1>3, <2>1, <2>6 DEF Inv, TypeOK
  <2> QED
    BY <1>1, <2>1, <2>6, <2>7 DEF Inv, Answered, Idle
<1> QED
  BY <1>4, <1>5

LEMMA InvStep == Inv /\ [Next]_vars => Inv'
<1> SUFFICES ASSUME Inv, [Next]_vars PROVE Inv'
  OBVIOUS
<1>1. CASE \E s \in Seed : Invoke(s)
  BY <1>1, InvokeStep
<1>2. CASE Descend
  BY <1>2, DescendStep
<1>3. CASE PassAbsent
  BY <1>3, PassAbsentStep
<1>4. CASE Return
  BY <1>4, ReturnStep
<1>5. CASE UNCHANGED vars
  BY <1>5 DEF vars, Inv, TypeOK, StackConsistent, Answered, Idle
<1> QED
  BY <1>1, <1>2, <1>3, <1>4, <1>5 DEF Next

\* Every reachable state has well-typed frames.
THEOREM TypeCorrect == Spec => []TypeOK
<1>1. Inv => TypeOK
  BY DEF Inv
<1> QED
  BY InvInit, InvStep, <1>1, PTL DEF Spec

\* No result is ever stored in a wrong frame or slot, and a frame below
\* another waits for exactly the slot that one evaluates.
THEOREM StackSafety == Spec => []StackConsistent
<1>1. Inv => StackConsistent
  BY DEF Inv
<1> QED
  BY InvInit, InvStep, <1>1, PTL DEF Spec

\* The call-stack machine implements the promise of the verbs: it answers at
\* most once, with the solution of the defining equation.
THEOREM VerbCorrect == Spec => ImplementsVerb
<1>1. Init => Promise!Init
  BY DEF Init, Promise!Init
<1>2. Inv /\ [Next]_vars => [Promise!Next]_Promise!vars
  <2> SUFFICES ASSUME Inv, [Next]_vars PROVE [Promise!Next]_Promise!vars
    OBVIOUS
  <2> USE DEF Promise!Next, Promise!vars
  <2>1. ASSUME NEW s \in Seed, Invoke(s) PROVE Promise!Invoke(s)
    BY <2>1 DEF Invoke, Promise!Invoke
  <2>2. CASE Descend
    BY <2>2 DEF Descend
  <2>3. CASE PassAbsent
    BY <2>3 DEF PassAbsent
  <2>4. CASE Return
    <3>1. /\ Top \in Frame /\ Top.layer = Coalgebra(Top.seed) /\ FrameResults(Top)
          /\ outcome = Absent /\ root # Absent
      BY <2>4, TopFrame DEF Return
    <3>2. CASE Len(stack) = 1
      <4>1. Top.seed = root
        BY <2>4, <3>2 DEF Return, Top, Inv, StackConsistent
      <4>2. outcome' = Meaning[root] /\ root' = root
        BY <2>4, <3>1, <3>2, <4>1, FrameAnswer DEF Return
      <4> QED
        BY <3>1, <4>2 DEF Promise!Answer
    <3>3. CASE Len(stack) # 1
      BY <2>4, <3>3 DEF Return
    <3> QED
      BY <3>2, <3>3
  <2>5. CASE UNCHANGED vars
    BY <2>5 DEF vars
  <2> QED
    BY <2>1, <2>2, <2>3, <2>4, <2>5 DEF Next
<1> QED
  BY InvInit, InvStep, <1>1, <1>2, PTL DEF Spec, ImplementsVerb, Promise!Spec

-----------------------------------------------------------------------------
(* The order of the calls.  What has been called, and what the frames have   *)
(* left to call, innermost first, are always all the calls of the root.      *)

Call == {"coalgebra", "algebra"} \X Seed

\* What the agenda says is left at a node is never nothing.
LEMMA AgendaFacts ==
  ASSUME AgendaSolves, NEW s \in Seed, NEW n, n = Len(Coalgebra(s).slots)
  PROVE  n \in Nat /\ \A i \in 0..n : Agenda[s][i] \in Seq(Call) /\ Agenda[s][i] # <<>>
<1> DEFINE slots == Coalgebra(s).slots
<1>1. slots \in Seq(Seed \cup {Absent}) /\ n \in Nat /\ n = Len(slots)
  BY CoalgebraAssumption DEF Layer
<1>2. /\ \A i \in 0..n : Agenda[s][i] \in Seq(Call)
      /\ Agenda[s][n] = <<<<"algebra", s>>>>
      /\ \A i \in 1..n : Agenda[s][i - 1] = IF slots[i] = Absent THEN Agenda[s][i]
                                            ELSE AllCalls(slots[i]) \o Agenda[s][i]
  BY <1>1 DEF AgendaSolves, Call
<1>3. \A c \in Seed : AllCalls(c) \in Seq(Call)
  <2> SUFFICES ASSUME NEW c \in Seed
               PROVE  AllCalls(c) \in Seq(Call)
    OBVIOUS
  <2>1. Coalgebra(c).slots \in Seq(Seed \cup {Absent})
    BY CoalgebraAssumption DEF Layer
  <2>2. Len(Coalgebra(c).slots) \in Nat
    BY <2>1
  <2>3. Agenda[c][0] \in Seq(Call)
    BY <2>2 DEF AgendaSolves, Call
  <2>4. <<"coalgebra", c>> \in Call
    BY DEF Call
  <2> QED
    BY <2>3, <2>4 DEF AllCalls
<1> DEFINE P == {j \in 0..n : Agenda[s][n - j] # <<>>}
<1>4. 0 \in P
  <2>1. 0 \in 0..n /\ n - 0 = n
    BY <1>1
  <2>2. <<<<"algebra", s>>>> # <<>>
    OBVIOUS
  <2>3. Agenda[s][n - 0] # <<>>
    BY <1>2, <2>1, <2>2
  <2> QED
    BY <2>1, <2>3
<1>5. ASSUME NEW j \in 0..n, j # n, j \in P
      PROVE  j + 1 \in P
  <2>1. /\ n - j \in 1..n /\ n - j - 1 \in 0..n /\ n - (j + 1) = n - j - 1 /\ j + 1 \in 0..n
        /\ n - j \in 0..n
    BY <1>1, <1>5
  <2> DEFINE i == n - j
  <2>2. Agenda[s][i] # <<>> /\ Agenda[s][i] \in Seq(Call)
    BY <1>2, <1>5, <2>1
  <2>3. slots[i] \in Seed \cup {Absent}
    BY <1>1, <2>1
  <2>4. Agenda[s][i - 1] # <<>>
    <3>1. CASE slots[i] = Absent
      BY <1>2, <2>1, <2>2, <3>1
    <3>2. CASE slots[i] # Absent
      <4>1. AllCalls(slots[i]) \in Seq(Call)
        BY <1>3, <2>3, <3>2
      <4>2. Agenda[s][i - 1] = AllCalls(slots[i]) \o Agenda[s][i]
        BY <1>2, <2>1, <3>2
      <4> QED
        BY <2>2, <4>1, <4>2
    <3> QED
      BY <3>1, <3>2
  <2> QED
    BY <2>1, <2>4
<1>6. \A j \in 0..n : j \in P
  <2> HIDE DEF P
  <2> QED
    BY <1>1, <1>4, <1>5, CountingInduction
<1>7. \A i \in 0..n : Agenda[s][i] # <<>>
  <2> SUFFICES ASSUME NEW i \in 0..n
               PROVE  Agenda[s][i] # <<>>
    OBVIOUS
  <2>1. n - i \in 0..n /\ n - (n - i) = i
    BY <1>1
  <2> QED
    BY <1>6, <2>1
<1> QED
  BY <1>1, <1>2, <1>7

LEMMA AllCallsType ==
  ASSUME AgendaSolves, NEW s \in Seed
  PROVE  AllCalls(s) \in Seq(Call) /\ Agenda[s][0] \in Seq(Call)
<1> DEFINE n == Len(Coalgebra(s).slots)
<1>1. n \in Nat /\ Agenda[s][0] \in Seq(Call)
  <2>1. n \in Nat /\ \A i \in 0..n : Agenda[s][i] \in Seq(Call)
    BY AgendaFacts
  <2> QED
    BY <2>1
<1>2. <<"coalgebra", s>> \in Call
  BY DEF Call
<1> QED
  BY <1>1, <1>2 DEF AllCalls

\* What a frame has left to call, and what it has after the slot it has reached.
Left(f) == Agenda[f.seed][Len(f.done)]
NextLeft(f) == Agenda[f.seed][Len(f.done) + 1]

Good(f) == f \in Frame /\ f.layer = Coalgebra(f.seed) /\ FrameResults(f)

LEMMA LeftFacts ==
  ASSUME AgendaSolves, NEW f, Good(f)
  PROVE  /\ Left(f) \in Seq(Call) /\ Left(f) # <<>>
         /\ Exhausted(f) => Left(f) = <<<<"algebra", f.seed>>>>
         /\ ~Exhausted(f) =>
              /\ NextLeft(f) \in Seq(Call)
              /\ NextSlot(f) \in Seed \cup {Absent}
              /\ Left(f) = IF NextSlot(f) = Absent THEN NextLeft(f)
                           ELSE AllCalls(NextSlot(f)) \o NextLeft(f)
<1> DEFINE slots == Coalgebra(f.seed).slots
           n == Len(slots)
           k == Len(f.done)
<1>1. f.seed \in Seed /\ f.layer.slots = slots /\ f.done \in Seq(Result \cup {Absent})
  BY DEF Good, Frame
<1>2. n \in Nat /\ \A i \in 0..n : Agenda[f.seed][i] \in Seq(Call) /\ Agenda[f.seed][i] # <<>>
  BY <1>1, AgendaFacts
<1>3. k \in 0..n /\ (Exhausted(f) <=> k = n)
  BY <1>1, <1>2 DEF Good, FrameResults, Exhausted
<1>4. /\ Agenda[f.seed][n] = <<<<"algebra", f.seed>>>>
      /\ \A i \in 1..n : Agenda[f.seed][i - 1] = IF slots[i] = Absent THEN Agenda[f.seed][i]
                                                 ELSE AllCalls(slots[i]) \o Agenda[f.seed][i]
  BY <1>1 DEF AgendaSolves
<1>5. Left(f) \in Seq(Call) /\ Left(f) # <<>>
  BY <1>2, <1>3 DEF Left
<1>6. Exhausted(f) => Left(f) = <<<<"algebra", f.seed>>>>
  BY <1>3, <1>4 DEF Left
<1>7. ASSUME ~Exhausted(f)
      PROVE  /\ NextLeft(f) \in Seq(Call)
             /\ NextSlot(f) \in Seed \cup {Absent}
             /\ Left(f) = IF NextSlot(f) = Absent THEN NextLeft(f)
                          ELSE AllCalls(NextSlot(f)) \o NextLeft(f)
  <2>1. k + 1 \in 1..n /\ k + 1 \in 0..n /\ (k + 1) - 1 = k
    BY <1>2, <1>3, <1>7
  <2>2. NextLeft(f) \in Seq(Call)
    BY <1>2, <2>1 DEF NextLeft
  <2>3. NextSlot(f) \in Seed \cup {Absent}
    BY <1>7, NextSlotType DEF Good
  <2>4. NextSlot(f) = slots[k + 1]
    BY <1>1 DEF NextSlot
  <2>5. Agenda[f.seed][(k + 1) - 1] = IF slots[k + 1] = Absent THEN Agenda[f.seed][k + 1]
                                      ELSE AllCalls(slots[k + 1]) \o Agenda[f.seed][k + 1]
    BY <1>4, <2>1
  <2>6. Left(f) = Agenda[f.seed][(k + 1) - 1] /\ NextLeft(f) = Agenda[f.seed][k + 1]
    BY <2>1 DEF Left, NextLeft
  <2> QED
    BY <2>2, <2>3, <2>4, <2>5, <2>6
<1> QED
  BY <1>5, <1>6, <1>7

\* Links of a waiting frame, what is left when it returns, and what is left
\* when the call in its slot returns.
Waiting(L) == \A p \in L : p[2] \in Seq(Call) /\ p[3] = NextLeft(p[1]) \o p[2]

\* On frames fs with innermost frame f, calls have been made up to here.
UpTo(calls, fs, f) ==
  \E after \in Seq(Call) : \E L :
    /\ Waiting(L) /\ Chain(fs, L, <<>>, after)
    /\ calls \o (Left(f) \o after) = AllCalls(root)

InTurn ==
  /\ root = Absent => trace = <<>>
  /\ root # Absent => /\ outcome = Absent => stack # <<>>
                      /\ outcome # Absent => trace = AllCalls(root)
  /\ stack # <<>> => UpTo(trace, Rest, Top)

LEMMA GoodTop ==
  ASSUME Inv, stack # <<>>
  PROVE  Good(Top)
BY TopFrame DEF Good

LEMMA PushedStack ==
  ASSUME NEW fs \in Seq(Frame), NEW f \in Frame, stack' = Append(fs, f)
  PROVE  Top' = f /\ Rest' = fs
<1>1. Top' = f
  BY AppendFacts DEF Top
<1>2. Rest' = fs
  BY DEF Rest
<1> QED
  BY <1>1, <1>2

LEMMA StackParts ==
  ASSUME Inv, stack # <<>>
  PROVE  Rest \in Seq(Frame) /\ Top \in Frame /\ stack = Append(Rest, Top)
<1>1. stack \in Seq(Frame)
  BY DEF Inv, TypeOK
<1>2. Rest \in Seq(Frame) /\ Top \in Frame
  BY <1>1, PopFacts DEF Rest, Top
<1>3. stack = Append(Rest, Top)
  BY <1>1 DEF Rest, Top
<1> QED
  BY <1>2, <1>3

\* A call on s, made with `after` left to call when it returns.
LEMMA CallMade ==
  ASSUME AgendaSolves, NEW s \in Seed, NEW calls \in Seq(Call), NEW after \in Seq(Call)
  PROVE  calls \o (AllCalls(s) \o after) =
           Append(calls, <<"coalgebra", s>>) \o (Left(NewFrame(s)) \o after)
<1> DEFINE c == <<"coalgebra", s>>
           a == Agenda[s][0]
<1>1. c \in Call /\ a \in Seq(Call)
  BY AllCallsType DEF Call
<1>2. Left(NewFrame(s)) = a /\ AllCalls(s) = <<c>> \o a
  BY DEF Left, NewFrame, AllCalls
<1> HIDE DEF c, a
<1>3. <<c>> \in Seq(Call) /\ a \o after \in Seq(Call)
  BY <1>1
<1>4. (<<c>> \o a) \o after = <<c>> \o (a \o after)
  BY <1>1, <1>3, ConcatAssociative
<1>5. (calls \o <<c>>) \o (a \o after) = calls \o (<<c>> \o (a \o after))
  BY <1>3, ConcatAssociative
<1>6. Append(calls, c) = calls \o <<c>>
  BY <1>1
<1> QED
  BY <1>2, <1>4, <1>5, <1>6 DEF c

LEMMA InvokeInTurn ==
  ASSUME AgendaSolves, Inv, InTurn, NEW s \in Seed, Invoke(s)
  PROVE  InTurn'
<1>1. /\ root = Absent /\ root' = s /\ stack' = <<NewFrame(s)>> /\ outcome' = outcome
      /\ trace' = Append(trace, <<"coalgebra", s>>)
  BY DEF Invoke
<1>2. trace = <<>> /\ outcome = Absent /\ s # Absent
  BY <1>1, AbsentAssumption DEF InTurn, Inv, Idle
<1>3. Top' = NewFrame(s) /\ Rest' = <<>>
  <2>1. <<>> \in Seq(Frame) /\ stack' = Append(<<>>, NewFrame(s))
    BY <1>1
  <2> QED
    BY <2>1, FrameOfSeed, PushedStack
<1>4. <<>> \in Seq(Call) /\ AllCalls(s) \in Seq(Call)
  BY AllCallsType
<1>5. <<>> \o (AllCalls(s) \o <<>>) = AllCalls(s)
  BY <1>4
<1>6. trace' \o (Left(NewFrame(s)) \o <<>>) = AllCalls(s)
  BY <1>1, <1>2, <1>4, <1>5, CallMade
<1>7. Waiting({}) /\ Chain(<<>>, {}, <<>>, <<>>)
  BY ChainEmpty DEF Waiting
<1>8. UpTo(trace, Rest, Top)'
  BY <1>1, <1>3, <1>4, <1>6, <1>7 DEF UpTo
<1> QED
  BY <1>1, <1>2, <1>8 DEF InTurn

LEMMA TraceType ==
  ASSUME Inv
  PROVE  trace \in Seq(Call)
BY DEF Inv, TypeOK, Call

LEMMA DescendInTurn ==
  ASSUME AgendaSolves, Inv, InTurn, Descend
  PROVE  InTurn'
<1> DEFINE s == NextSlot(Top)
<1>1. /\ stack # <<>> /\ ~Exhausted(Top) /\ s # Absent
      /\ stack' = Append(stack, NewFrame(s)) /\ trace' = Append(trace, <<"coalgebra", s>>)
      /\ root' = root /\ outcome' = outcome
  BY DEF Descend
<1>2. Good(Top) /\ root # Absent /\ outcome = Absent
  BY <1>1, GoodTop, TopFrame
<1>3. NextLeft(Top) \in Seq(Call) /\ s \in Seed /\ Left(Top) = AllCalls(s) \o NextLeft(Top)
  BY <1>1, <1>2, LeftFacts
<1>4. Rest \in Seq(Frame) /\ stack = Append(Rest, Top) /\ stack \in Seq(Frame)
  BY <1>1, StackParts DEF Inv, TypeOK
<1>5. Top' = NewFrame(s) /\ Rest' = stack
  BY <1>1, <1>3, <1>4, FrameOfSeed, PushedStack
<1> HIDE DEF s
<1>6. PICK after, L :
        /\ after \in Seq(Call)
        /\ Waiting(L) /\ Chain(Rest, L, <<>>, after)
        /\ trace \o (Left(Top) \o after) = AllCalls(root)
  BY <1>1 DEF InTurn, UpTo
<1> DEFINE next == NextLeft(Top) \o after
           M == L \cup {<<Top, after, next>>}
<1>7. next \in Seq(Call)
  BY <1>3, <1>6
<1>8. Waiting(M)
  <2> SUFFICES ASSUME NEW p \in M
               PROVE  p[2] \in Seq(Call) /\ p[3] = NextLeft(p[1]) \o p[2]
    BY DEF Waiting
  <2>1. CASE p \in L
    BY <1>6, <2>1 DEF Waiting
  <2>2. CASE p = <<Top, after, next>>
    BY <1>6, <2>2
  <2> QED
    BY <2>1, <2>2
<1>9. Chain(stack, M, <<>>, next)
  BY <1>4, <1>6, ChainPush
<1>10. Append(trace, <<"coalgebra", s>>) \o (Left(NewFrame(s)) \o next) = AllCalls(root)
  <2>1. AllCalls(s) \in Seq(Call) /\ trace \in Seq(Call)
    BY <1>3, AllCallsType, TraceType
  <2>2. (AllCalls(s) \o NextLeft(Top)) \o after = AllCalls(s) \o next
    BY <1>3, <2>1, ConcatAssociative
  <2>3. trace \o (AllCalls(s) \o next) = AllCalls(root)
    BY <1>3, <1>6, <2>2
  <2> HIDE DEF next
  <2> QED
    BY <1>3, <1>7, <2>1, <2>3, CallMade
<1> HIDE DEF next, M
<1>11. UpTo(trace, Rest, Top)'
  <2>1. UpTo(trace', stack, NewFrame(s))
    BY <1>1, <1>7, <1>8, <1>9, <1>10 DEF UpTo
  <2> QED
    BY <1>1, <1>5, <2>1 DEF UpTo
<1> QED
  BY <1>1, <1>2, <1>4, <1>11 DEF InTurn

\* A frame that has stored one more result has what was left after it.
LEMMA StoredLeft ==
  ASSUME NEW f, Good(f), NEW g, NEW r, g.seed = f.seed, g.done = Append(f.done, r)
  PROVE  Left(g) = NextLeft(f)
<1>1. f.done \in Seq(Result \cup {Absent})
  BY DEF Good, Frame
<1>2. Len(g.done) = Len(f.done) + 1
  BY <1>1
<1> QED
  BY <1>2 DEF Left, NextLeft

\* The innermost of frames fs stores a result.
LEMMA StoredStack ==
  ASSUME NEW fs \in Seq(Frame), fs # <<>>, Good(fs[Len(fs)]), NEW r \in Result \cup {Absent},
         stack' = Store(fs, r)
  PROVE  /\ stack' # <<>> /\ Rest' = SubSeq(fs, 1, Len(fs) - 1)
         /\ Left(Top') = NextLeft(fs[Len(fs)])
<1> DEFINE k == Len(fs)
<1>1. /\ stack' \in Seq(Frame) /\ Len(stack') = k
      /\ \A n \in 1..k - 1 : stack'[n] = fs[n]
      /\ stack'[k].seed = fs[k].seed /\ stack'[k].done = Append(fs[k].done, r)
  BY StoreProperties
<1>2. k \in Nat /\ k >= 1
  BY PopFacts
<1>3. stack' # <<>>
  BY <1>1, <1>2
<1>4. Rest' = SubSeq(fs, 1, k - 1)
  <2>1. /\ SubSeq(stack', 1, k - 1) \in Seq(Frame) /\ Len(SubSeq(stack', 1, k - 1)) = k - 1
        /\ \A i \in 1..k - 1 : SubSeq(stack', 1, k - 1)[i] = stack'[i]
    BY <1>1, <1>3, PopFacts
  <2>2. /\ SubSeq(fs, 1, k - 1) \in Seq(Frame) /\ Len(SubSeq(fs, 1, k - 1)) = k - 1
        /\ \A i \in 1..k - 1 : SubSeq(fs, 1, k - 1)[i] = fs[i]
    BY PopFacts
  <2>3. \A i \in 1..k - 1 : SubSeq(stack', 1, k - 1)[i] = SubSeq(fs, 1, k - 1)[i]
    BY <1>1, <2>1, <2>2
  <2>4. SubSeq(stack', 1, k - 1) = SubSeq(fs, 1, k - 1)
    BY <2>1, <2>2, <2>3, SeqEqual
  <2> QED
    BY <1>1, <2>4 DEF Rest
<1>5. Left(Top') = NextLeft(fs[k])
  BY <1>1, StoredLeft DEF Top
<1> QED
  BY <1>3, <1>4, <1>5

LEMMA PassAbsentInTurn ==
  ASSUME AgendaSolves, Inv, InTurn, PassAbsent
  PROVE  InTurn'
<1>1. /\ stack # <<>> /\ ~Exhausted(Top) /\ NextSlot(Top) = Absent
      /\ stack' = Store(stack, Absent) /\ UNCHANGED <<root, outcome, trace>>
  BY DEF PassAbsent
<1>2. Good(Top) /\ root # Absent /\ outcome = Absent
  BY <1>1, GoodTop, TopFrame
<1>3. Left(Top) = NextLeft(Top)
  BY <1>1, <1>2, LeftFacts
<1>4. stack \in Seq(Frame)
  BY DEF Inv, TypeOK
<1>5. stack' # <<>> /\ Rest' = Rest /\ Left(Top') = Left(Top)
  BY <1>1, <1>2, <1>3, <1>4, StoredStack DEF Top, Rest
<1>6. UpTo(trace, Rest, Top)'
  <2>1. UpTo(trace, Rest, Top)
    BY <1>1 DEF InTurn
  <2> QED
    BY <1>1, <1>5, <2>1 DEF UpTo
<1> QED
  BY <1>1, <1>2, <1>5, <1>6 DEF InTurn

LEMMA ReturnInTurn ==
  ASSUME AgendaSolves, Inv, InTurn, Return
  PROVE  InTurn'
<1> DEFINE r == Algebra(Top.layer.value, Top.done)
           a == <<"algebra", Top.seed>>
<1>1. /\ stack # <<>> /\ Exhausted(Top) /\ trace' = Append(trace, a) /\ root' = root
  BY DEF Return
<1>2. /\ Good(Top) /\ Top.seed \in Seed /\ root # Absent /\ outcome = Absent
      /\ Top \in Frame /\ Top.layer = Coalgebra(Top.seed) /\ FrameResults(Top)
  BY <1>1, GoodTop, TopFrame
<1>3. r \in Result
  BY <1>1, <1>2, FrameAnswer
<1>4. Left(Top) = <<a>> /\ a \in Call /\ trace \in Seq(Call)
  BY <1>1, <1>2, LeftFacts, TraceType DEF Call
<1>5. PICK after, L :
        /\ after \in Seq(Call)
        /\ Waiting(L) /\ Chain(Rest, L, <<>>, after)
        /\ trace \o (Left(Top) \o after) = AllCalls(root)
  BY <1>1 DEF InTurn, UpTo
<1>6. trace' \o after = AllCalls(root) /\ trace' \in Seq(Call)
  <2> HIDE DEF a
  <2>1. <<a>> \in Seq(Call)
    BY <1>4
  <2>2. trace \o (<<a>> \o after) = (trace \o <<a>>) \o after
    BY <1>4, <1>5, <2>1, ConcatAssociative
  <2>3. trace' = trace \o <<a>>
    BY <1>1, <1>4
  <2>4. trace' \in Seq(Call)
    BY <1>4, <2>1, <2>3
  <2>5. trace' \o after = trace \o (<<a>> \o after)
    BY <2>2, <2>3
  <2> QED
    BY <1>4, <1>5, <2>4, <2>5
<1>7. stack \in Seq(Frame) /\ Len(stack) \in Nat
  BY DEF Inv, TypeOK
<1>8. CASE Len(stack) = 1
  <2>1. stack' = <<>> /\ outcome' = r
    BY <1>8 DEF Return
  <2>2. Rest = <<>>
    BY <1>7, <1>8 DEF Rest
  <2>3. after = <<>>
    BY <1>5, <2>2, ChainEmpty
  <2>4. trace' = AllCalls(root)
    BY <1>6, <2>3
  <2>5. outcome' # Absent
    BY <1>3, <2>1, AbsentAssumption
  <2> QED
    BY <1>1, <1>2, <2>1, <2>4, <2>5 DEF InTurn, AllCalls
<1>9. CASE Len(stack) # 1
  <2> DEFINE f == Rest[Len(Rest)]
             below == SubSeq(Rest, 1, Len(Rest) - 1)
  <2>1. stack' = Store(Rest, r) /\ outcome' = outcome
    BY <1>9 DEF Return
  <2>2. /\ Rest \in Seq(Frame) /\ Rest # <<>> /\ Len(Rest) = Len(stack) - 1
        /\ \A n \in 1..Len(Rest) : Rest[n] = stack[n]
    BY <1>1, <1>9, RestProperties
  <2>3. Len(Rest) \in 1..Len(Rest) /\ Len(Rest) \in 1..Len(stack)
    BY <1>7, <2>2
  <2>4. Good(f)
    BY <1>7, <2>2, <2>3 DEF Good, Inv, StackConsistent
  <2>5. stack' # <<>> /\ Rest' = below /\ Left(Top') = NextLeft(f)
    BY <1>3, <2>1, <2>2, <2>4, StoredStack
  <2>6. PICK outer : <<f, outer, after>> \in L /\ Chain(below, L, <<>>, outer)
    BY <1>5, <2>2, ChainPop
  <2>7. outer \in Seq(Call) /\ after = NextLeft(f) \o outer
    BY <1>5, <2>6 DEF Waiting
  <2> HIDE DEF f, below
  <2>8. UpTo(trace, Rest, Top)'
    <3>1. trace' \o (Left(Top') \o outer) = AllCalls(root)
      BY <1>6, <2>5, <2>7
    <3>2. Waiting(L) /\ Chain(Rest', L, <<>>, outer)
      BY <1>5, <2>5, <2>6
    <3> QED
      BY <1>1, <2>7, <3>1, <3>2 DEF UpTo, AllCalls
  <2> QED
    BY <1>1, <1>2, <2>1, <2>5, <2>8 DEF InTurn
<1> QED
  BY <1>8, <1>9

LEMMA StepInTurn == AgendaSolves /\ Inv /\ InTurn /\ [Next]_vars => InTurn'
<1> SUFFICES ASSUME AgendaSolves, Inv, InTurn, [Next]_vars
             PROVE  InTurn'
  OBVIOUS
<1>1. CASE UNCHANGED vars
  BY <1>1 DEF vars, InTurn, UpTo, Rest, Top, AllCalls
<1> QED
  BY <1>1, InvokeInTurn, DescendInTurn, PassAbsentInTurn, ReturnInTurn DEF Next

\* A proper part of the calls has been made while something is left to call.
LEMMA CallsLeft ==
  ASSUME NEW t \in Seq(Call), NEW w \in Seq(Call), NEW s, s = t \o w
  PROVE  /\ Len(t) <= Len(s) /\ t = SubSeq(s, 1, Len(t))
         /\ s # t <=> w # <<>>
<1>1. /\ s \in Seq(Call) /\ Len(s) = Len(t) + Len(w) /\ Len(t) \in Nat /\ Len(w) \in Nat
      /\ \A i \in 1..Len(t) : s[i] = t[i]
  OBVIOUS
<1>2. t = SubSeq(s, 1, Len(t))
  <2>1. \A i \in 1..Len(t) : s[i] \in Call
    BY <1>1
  <2>2. /\ SubSeq(s, 1, Len(t)) \in Seq(Call) /\ Len(SubSeq(s, 1, Len(t))) = Len(t)
        /\ \A i \in 1..Len(t) : SubSeq(s, 1, Len(t))[i] = s[i]
    BY <1>1
  <2> QED
    BY <1>1, <2>2, SeqEqual
<1>3. s # t <=> w # <<>>
  <2>1. CASE w = <<>>
    BY <2>1
  <2>2. CASE w # <<>>
    <3>1. Len(w) # 0
      BY <2>2
    <3> QED
      BY <1>1, <2>2, <3>1
  <2> QED
    BY <2>1, <2>2
<1>4. Len(t) <= Len(s)
  BY <1>1
<1> QED
  BY <1>2, <1>3, <1>4, Zenon

LEMMA InTurnOrder ==
  ASSUME AgendaSolves, Inv, InTurn
  PROVE  EvaluationOrder
<1> SUFFICES ASSUME root # Absent
             PROVE  /\ Len(trace) <= Len(AllCalls(root))
                    /\ trace = SubSeq(AllCalls(root), 1, Len(trace))
                    /\ outcome # Absent <=> trace = AllCalls(root)
  BY DEF EvaluationOrder
<1>1. trace \in Seq(Call)
  BY TraceType
<1>2. CASE outcome # Absent
  <2>1. trace = AllCalls(root)
    BY <1>2 DEF InTurn
  <2>2. <<>> \in Seq(Call) /\ trace = trace \o <<>>
    BY <1>1
  <2> QED
    BY <1>1, <1>2, <2>1, <2>2, CallsLeft
<1>3. CASE outcome = Absent
  <2>1. stack # <<>>
    BY <1>3 DEF InTurn
  <2>2. PICK after, L : after \in Seq(Call) /\ trace \o (Left(Top) \o after) = AllCalls(root)
    BY <2>1 DEF InTurn, UpTo
  <2>3. Left(Top) \in Seq(Call) /\ Left(Top) # <<>>
    BY <2>1, GoodTop, LeftFacts
  <2> DEFINE w == Left(Top) \o after
  <2>4. w \in Seq(Call) /\ w # <<>>
    BY <2>2, <2>3
  <2>5. AllCalls(root) = trace \o w
    BY <2>2
  <2> HIDE DEF w
  <2> QED
    BY <1>1, <1>3, <2>4, <2>5, CallsLeft
<1> QED
  BY <1>2, <1>3

\* The callables run in the order of the slots, every position once, children
\* before their parent, wherever the recursion has an order at all: the agenda
\* has a solution exactly where a coalgebra is well founded
\* (recursion_schemes.hpp:83-86).
THEOREM CallsInOrder ==
  ASSUME AgendaSolves
  PROVE  Spec => []EvaluationOrder
<1>1. Init => InTurn
  BY DEF Init, InTurn
<1>2. Inv /\ InTurn => EvaluationOrder
  BY InTurnOrder
<1>3. Inv /\ InTurn /\ [Next]_vars => InTurn'
  BY StepInTurn
<1> QED
  BY InvInit, InvStep, <1>1, <1>2, <1>3, PTL DEF Spec
=============================================================================
