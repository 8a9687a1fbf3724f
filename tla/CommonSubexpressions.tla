------------------------ MODULE CommonSubexpressions ------------------------
(***************************************************************************)
(* examples/cofree_annotations.cpp: every node of an expression is         *)
(* annotated with a 64-bit hash of its subtree; a second pass gathers the  *)
(* hashes in a table with the text of each subtree, and entries of equal   *)
(* hash are counted as one subexpression.                                  *)
(*                                                                         *)
(* TLC's integers have 32 bits, so a word is four limbs of 16, the lowest  *)
(* first.  A rendering is fully parenthesised, so the term stands for it.  *)
(***************************************************************************)
EXTENDS Representations, Bitwise

Limb == 65536

\* static_cast<Hash>(n), for n of 32 bits.
Word(n) ==
  LET sign == (n \div Limb) \div Limb
  IN  <<n % Limb, (n \div Limb) % Limb, sign % Limb, sign % Limb>>

\* 0x9e3779b97f4a7c15
Golden == <<31765, 32586, 31161, 40503>>

ShiftLeft6(w) ==
  [i \in 1..4 |-> ((w[i] * 64) % Limb) + (IF i = 1 THEN 0 ELSE w[i - 1] \div 1024)]

ShiftRight2(w) ==
  [i \in 1..4 |-> (w[i] \div 4) + (IF i = 4 THEN 0 ELSE (w[i + 1] % 4) * 16384)]

\* Modulo 2^64.
Plus(w, x) ==
  LET sum[i \in 0..4] == IF i = 0 THEN 0 ELSE w[i] + x[i] + (sum[i - 1] \div Limb)
  IN  [i \in 1..4 |-> sum[i] % Limb]

Xor64(w, x) == [i \in 1..4 |-> w[i] ^^ x[i]]

Mix(seed, value) ==
  Xor64(seed, Plus(Plus(value, Golden), Plus(ShiftLeft6(seed), ShiftRight2(seed))))

\* (a mutant) Sums and products start from the same word.
HashUntagged(v, e) ==
  IF v.alt = "const" THEN Mix(Word(1), Word(v.element)) ELSE Mix(Mix(Word(2), e[1]), e[2])

\* hash_algebra: each alternative has a word of its own to start from.
HashAlgebra(v, e) ==
  CASE v.alt = "const" -> Mix(Word(1), Word(v.element))
    [] v.alt = "add"   -> Mix(Mix(Word(2), e[1]), e[2])
    [] v.alt = "mul"   -> Mix(Mix(Word(3), e[1]), e[2])

\* annotate, with hash_algebra.
AnnotateHash(v, e) ==
  [annotation |-> HashAlgebra(v, ChildAnnotations(e)), children |-> [value |-> v, slots |-> e]]

\* render: what the node reads as, from the text of its children.
Render(v, e) == [alt |-> v.alt, element |-> v.element, children |-> e]

\* gather: the tables of the children, then the node's own entry, whose text
\* is made of the texts of the last entries of theirs.
GatherEntries(v, e) ==
  LET texts == [i \in DOMAIN e |-> Last(e[i]).text]
  IN  FlattenSeq(e) \o <<[hash |-> v.annotation, text |-> Render(v.layer, texts)]>>

\* The map of hashes to the number of their entries and the text of the last.
Counts(entries) ==
  [h \in {entries[i].hash : i \in DOMAIN entries} |->
     LET same == {i \in DOMAIN entries : entries[i].hash = h}
     IN  [seen |-> Cardinality(same), text |-> entries[Max(same)].text]]
=============================================================================
