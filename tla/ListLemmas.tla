------------------------------ MODULE ListLemmas -------------------------------
(***************************************************************************)
(* Lemmas about sequences that the proofs of several components need: what *)
(* a search finds, and what it is to flatten a sequence of sequences.      *)
(*                                                                         *)
(* SelectInSeq takes its test as an operator, so the lemmas about a search *)
(* speak of the set of the indices that pass.  FlattenSeq is a recursive   *)
(* function: that there is one, and only one, follows by considering the   *)
(* least number for which that would be false.                             *)
(***************************************************************************)
EXTENDS Integers, SequencesExt, WellFoundedInduction, TLAPS

IsList(list) == \E S : list \in Seq(S)

\* The result of a search among the indices I.
First(I) == IF I # {} THEN Min(I) ELSE 0

\* A set of natural numbers has a least element, which Min chooses.
LEMMA MinIsLeast ==
  ASSUME NEW S \in SUBSET Nat, S # {}
  PROVE  Min(S) \in S /\ \A y \in S : Min(S) <= y
<1>1. PICK x \in S : \A y \in S : ~(<<y, x>> \in OpToRel(<, Nat))
  BY NatLessThanWellFounded, WFMin, Zenon
<1>2. \A y \in S : ~(y < x)
  BY <1>1, Zenon DEF OpToRel
<1>3. \A y \in S : x <= y
  BY <1>2
<1>4. QED
  BY <1>3 DEF Min

\* A search finds the first index that passes, or none.
LEMMA FirstIndex ==
  ASSUME NEW n \in Nat, NEW I \in SUBSET (1 .. n)
  PROVE  /\ I = {} => First(I) = 0
         /\ I # {} => First(I) \in I /\ First(I) \in 1 .. n /\ \A j \in I : First(I) <= j
<1>1. I \in SUBSET Nat
  OBVIOUS
<1>2. QED
  BY <1>1, MinIsLeast DEF First

\* Induction over the places of a list.
LEMMA Upwards ==
  ASSUME NEW n \in Nat, NEW I \in SUBSET (0 .. n), 0 \in I,
         \A i \in 1 .. n : i - 1 \in I => i \in I
  PROVE  I = 0 .. n
<1> DEFINE bad == {i \in 0 .. n : i \notin I}
<1>1. ASSUME bad # {} PROVE FALSE
  <2>1. bad \in SUBSET Nat
    OBVIOUS
  <2>2. PICK k \in bad : \A j \in bad : k <= j
    BY <1>1, <2>1, MinIsLeast
  <2>3. k \in 0 .. n /\ k # 0 /\ k \notin I
    BY <2>2
  <2>4. k \in 1 .. n /\ k - 1 \in 0 .. n /\ ~(k <= k - 1)
    BY <2>3
  <2>5. k - 1 \in I
    BY <2>2, <2>4
  <2>6. QED
    BY <2>3, <2>4, <2>5
<1>2. QED
  BY <1>1

--------------------------------------------------------------------------------
(* Flattening *)

\* f is what the recursion of FlattenSeq asks of a function on 1 .. n.
Flattening(s, n, f) ==
  f = [i \in 1 .. n |-> IF i = 1 THEN s[i] ELSE f[i - 1] \o s[i]]

\* There is such a function for every n.
LEMMA FlatteningExists ==
  ASSUME NEW T, NEW s \in Seq(Seq(T)), NEW n \in 0 .. Len(s)
  PROVE  \E f \in [1 .. n -> Seq(T)] : Flattening(s, n, f)
<1> DEFINE Done(k) == \E f \in [1 .. k -> Seq(T)] : Flattening(s, k, f)
           bad == {k \in 0 .. Len(s) : ~Done(k)}
<1> SUFFICES ASSUME bad # {} PROVE FALSE
  OBVIOUS
<1>1. Len(s) \in Nat /\ \A i \in 1 .. Len(s) : s[i] \in Seq(T)
  OBVIOUS
<1>2. bad \in SUBSET Nat
  BY <1>1
<1>3. PICK k \in bad : \A j \in bad : k <= j
  BY <1>2, MinIsLeast
<1>4. k \in 0 .. Len(s) /\ ~Done(k)
  BY <1>3
<1>5. CASE k = 0
  <2> DEFINE f == [i \in 1 .. 0 |-> <<>>]
  <2>1. f \in [1 .. k -> Seq(T)]
    BY <1>5
  <2>2. Flattening(s, k, f)
    BY <1>5 DEF Flattening
  <2>3. QED
    BY <1>4, <2>1, <2>2
<1>6. CASE k # 0
  <2>1. k - 1 \in 0 .. Len(s) /\ k \in 1 .. Len(s) /\ ~(k <= k - 1)
    BY <1>1, <1>4, <1>6
  <2>2. Done(k - 1)
    BY <1>3, <2>1
  <2>3. PICK f \in [1 .. k - 1 -> Seq(T)] : Flattening(s, k - 1, f)
    BY <2>2
  <2> DEFINE g == [i \in 1 .. k |-> IF i = 1 THEN s[i] ELSE f[i - 1] \o s[i]]
  <2>4. \A i \in 1 .. k - 1 : g[i] = f[i]
    <3>1. f = [i \in 1 .. k - 1 |-> IF i = 1 THEN s[i] ELSE f[i - 1] \o s[i]]
      BY <2>3 DEF Flattening
    <3>2. \A i \in 1 .. k - 1 : f[i] = IF i = 1 THEN s[i] ELSE f[i - 1] \o s[i]
      BY <3>1, Zenon
    <3>3. \A i \in 1 .. k - 1 : i \in 1 .. k
      BY <2>1
    <3>4. QED
      BY <3>2, <3>3
  <2>5. g \in [1 .. k -> Seq(T)]
    <3>1. \A i \in 1 .. k : i # 1 => i - 1 \in 1 .. k - 1
      BY <2>1
    <3>2. \A i \in 1 .. k : i \in 1 .. Len(s)
      BY <1>1, <2>1
    <3>3. ASSUME NEW i \in 1 .. k
          PROVE  (IF i = 1 THEN s[i] ELSE f[i - 1] \o s[i]) \in Seq(T)
      <4>1. s[i] \in Seq(T)
        BY <1>1, <3>2
      <4>2. i # 1 => f[i - 1] \in Seq(T)
        BY <3>1, <2>3
      <4>3. QED
        BY <4>1, <4>2
    <3>4. QED
      BY <3>3
  <2>6. Flattening(s, k, g)
    <3>0. k \in Nat
      BY <1>1, <1>4
    <3>1. \A i \in 1 .. k : i # 1 => i - 1 \in 1 .. k - 1
      BY <3>0
    <3> HIDE DEF g
    <3>a. \A i \in 1 .. k : i # 1 => g[i - 1] = f[i - 1]
      BY <3>1, <2>4
    <3> USE DEF g
    <3>2. \A i \in 1 .. k :
            g[i] = IF i = 1 THEN s[i] ELSE g[i - 1] \o s[i]
      BY <3>a
    <3>3. g = [i \in 1 .. k |-> IF i = 1 THEN s[i] ELSE g[i - 1] \o s[i]]
      BY <3>2, Zenon
    <3>4. QED
      BY <3>3 DEF Flattening
  <2>7. QED
    BY <1>4, <2>5, <2>6
<1>7. QED
  BY <1>5, <1>6

\* Two such functions, for a sequence and one that it begins, agree.
LEMMA FlatteningUnique ==
  ASSUME NEW s, NEW t, NEW n \in Nat, NEW m \in Nat, n <= m,
         \A i \in 1 .. n : s[i] = t[i],
         NEW f, Flattening(s, n, f), NEW g, Flattening(t, m, g)
  PROVE  \A i \in 1 .. n : f[i] = g[i]
<1> DEFINE bad == {i \in 1 .. n : f[i] # g[i]}
<1> SUFFICES ASSUME bad # {} PROVE FALSE
  OBVIOUS
<1>1. bad \in SUBSET Nat
  OBVIOUS
<1>2. PICK k \in bad : \A j \in bad : k <= j
  BY <1>1, MinIsLeast
<1>3. k \in 1 .. n /\ k \in 1 .. m /\ f[k] # g[k] /\ s[k] = t[k]
  BY <1>2
<1>4. /\ f[k] = IF k = 1 THEN s[k] ELSE f[k - 1] \o s[k]
      /\ g[k] = IF k = 1 THEN t[k] ELSE g[k - 1] \o t[k]
  BY <1>3 DEF Flattening
<1>5. CASE k = 1
  BY <1>3, <1>4, <1>5
<1>6. CASE k # 1
  <2>1. k - 1 \in 1 .. n /\ ~(k <= k - 1)
    BY <1>3, <1>6
  <2>2. f[k - 1] = g[k - 1]
    BY <1>2, <2>1
  <2>3. QED
    BY <1>3, <1>4, <1>6, <2>2
<1>7. QED
  BY <1>5, <1>6

\* What FlattenSeq computes.
LEMMA FlattenIs ==
  ASSUME NEW T, NEW s \in Seq(Seq(T)), Len(s) # 0
  PROVE  \E f \in [1 .. Len(s) -> Seq(T)] :
           Flattening(s, Len(s), f) /\ FlattenSeq(s) = f[Len(s)]
<1> DEFINE n == Len(s)
           flatten == CHOOSE f : f = [i \in 1 .. n |-> IF i = 1 THEN s[i] ELSE f[i - 1] \o s[i]]
<1>1. n \in Nat /\ n \in 0 .. Len(s)
  OBVIOUS
<1>2. PICK f \in [1 .. n -> Seq(T)] : Flattening(s, n, f)
  BY <1>1, FlatteningExists
<1>3. f = [i \in 1 .. n |-> IF i = 1 THEN s[i] ELSE f[i - 1] \o s[i]]
  BY <1>2 DEF Flattening
<1>4. flatten = [i \in 1 .. n |-> IF i = 1 THEN s[i] ELSE flatten[i - 1] \o s[i]]
  BY <1>3, Zenon
<1>5. Flattening(s, n, flatten)
  BY <1>4 DEF Flattening
<1>6. FlattenSeq(s) = flatten[n]
  BY Zenon DEF FlattenSeq
<1> HIDE DEF flatten
<1>7. \A i \in 1 .. n : s[i] = s[i]
  OBVIOUS
<1>8. \A i \in 1 .. n : flatten[i] = f[i]
  BY <1>1, <1>2, <1>5, <1>7, FlatteningUnique
<1>9. flatten \in [1 .. n -> Seq(T)]
  BY <1>2, <1>4, <1>8
<1>10. QED
  BY <1>5, <1>6, <1>9

\* To flatten is to append, sequence after sequence.
LEMMA FlattenAppend ==
  ASSUME NEW T, NEW s \in Seq(Seq(T)), NEW x \in Seq(T)
  PROVE  /\ FlattenSeq(s) \in Seq(T)
         /\ FlattenSeq(Append(s, x)) = FlattenSeq(s) \o x
<1> DEFINE n == Len(s)
           t == Append(s, x)
<1>1. /\ n \in Nat /\ t \in Seq(Seq(T)) /\ Len(t) = n + 1 /\ t[n + 1] = x
      /\ \A i \in 1 .. n : s[i] = t[i]
  OBVIOUS
<1>2. PICK g : g \in [1 .. n + 1 -> Seq(T)] /\ Flattening(t, n + 1, g) /\ FlattenSeq(t) = g[n + 1]
  <2>1. Len(t) # 0
    BY <1>1
  <2>2. QED
    BY <1>1, <2>1, FlattenIs
<1>3. n + 1 \in 1 .. n + 1 /\ n + 1 \in Nat /\ n <= n + 1
  BY <1>1
<1>4. g[n + 1] = IF n + 1 = 1 THEN t[n + 1] ELSE g[(n + 1) - 1] \o t[n + 1]
  BY <1>2, <1>3 DEF Flattening
<1>5. CASE n = 0
  <2>1. s = <<>> /\ FlattenSeq(s) = <<>>
    BY <1>5 DEF FlattenSeq
  <2>2. <<>> \o x = x /\ <<>> \in Seq(T)
    OBVIOUS
  <2>3. n + 1 = 1 /\ FlattenSeq(t) = x
    BY <1>1, <1>2, <1>4, <1>5
  <2>4. QED
    BY <2>1, <2>2, <2>3
<1>6. CASE n # 0
  <2>1. PICK f : f \in [1 .. n -> Seq(T)] /\ Flattening(s, n, f) /\ FlattenSeq(s) = f[n]
    BY <1>6, FlattenIs
  <2>2. \A i \in 1 .. n : f[i] = g[i]
    <3> DEFINE m == n + 1
    <3>1. Flattening(s, n, f) /\ Flattening(t, m, g)
      BY <1>2, <2>1
    <3>2. n \in Nat /\ m \in Nat /\ n <= m /\ \A i \in 1 .. n : s[i] = t[i]
      BY <1>1, <1>3
    <3> HIDE DEF n, t, m
    <3>3. QED
      BY <3>1, <3>2, FlatteningUnique
  <2>3. n \in 1 .. n /\ n + 1 # 1 /\ (n + 1) - 1 = n
    BY <1>1, <1>6
  <2>4. QED
    BY <1>1, <1>2, <1>4, <2>1, <2>2, <2>3
<1>7. QED
  BY <1>5, <1>6

================================================================================
