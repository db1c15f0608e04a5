---------------------------- MODULE RootCauseProofs ----------------------------
(***************************************************************************)
(* Which signature the filter blames, for every list of signatures that    *)
(* the isolator may find, in whatever order it finds them: the first of    *)
(* the best kind there is, or one that is known to cause that one.  And    *)
(* what a walk over the actions of a data file yields, for every file,     *)
(* cyclic ones too, and every stack that earlier walks have left.          *)
(***************************************************************************)
EXTENDS Analyzer, ListLemmas, FiniteSetTheorems, TLAPS

--------------------------------------------------------------------------------
(* The rules *)

\* Every signature is of a chip that has RAS data: no rule throws.
AllData(list) == \A i \in DOMAIN list : HasData(list[i])

\* The signatures of a list that a rule accepts.
Accepted(list, k) == {i \in DOMAIN list : Qualifies(list[i], k, list)}

\* What is known of the indices of a list.
LEMMA Indices ==
  ASSUME NEW list, IsList(list)
  PROVE  Len(list) \in Nat /\ DOMAIN list = 1 .. Len(list)
BY DEF IsList

\* A rule finds the first of those it accepts, if there is any.
LEMMA Finds ==
  ASSUME NEW list, IsList(list), NEW k
  PROVE  LET I == Accepted(list, k)
         IN /\ I = {} => First(I) = NotFound
            /\ I # {} => First(I) \in I /\ First(I) # NotFound /\ \A j \in I : First(I) <= j
<1> DEFINE I == Accepted(list, k)
<1>1. Len(list) \in Nat /\ I \in SUBSET (1 .. Len(list))
  BY Indices DEF Accepted
<1>2. /\ I = {} => First(I) = 0
      /\ I # {} => First(I) \in I /\ First(I) \in 1 .. Len(list) /\ \A j \in I : First(I) <= j
  <2> HIDE DEF I
  <2>1. QED
    BY <1>1, FirstIndex
<1>3. \A i \in 1 .. Len(list) : i # 0
  BY <1>1
<1>4. QED
  BY <1>2, <1>3 DEF NotFound

\* The simple rules, one for each kind of signature.
LEMMA SimpleRules ==
  ASSUME NEW list, IsList(list)
  PROVE  /\ LookForBits(list, {"P10_10", "P10_20"}, "TP_LOCAL_FIR", {42, 43})
               = First(Accepted(list, 1))
         /\ Find(list, LAMBDA s : s.id = "PLL_UNLOCK" /\ IsProc(s)) = First(Accepted(list, 2))
         /\ Find(list, LAMBDA s : s.id = "PLL_UNLOCK" /\ IsOcmb(s)) = First(Accepted(list, 3))
         /\ FindTodError(list) = First(Accepted(list, 4))
         /\ Find(list, LAMBDA s : IsOcmb(s) /\ s.attn \in {"CHIP_CS", "UNIT_CS"})
               = First(Accepted(list, 5))
         /\ FindNonExternalCs(list) = First(Accepted(list, 10))
<1> DEFINE D == DOMAIN list
<1>1. D = 1 .. Len(list)
  BY Indices
<1>2. /\ Accepted(list, 1) = {i \in 1 .. Len(list) :
            Model[list[i].chip] \in {"P10_10", "P10_20"}
              /\ list[i].id = "TP_LOCAL_FIR" /\ list[i].bit \in {42, 43}}
      /\ Accepted(list, 2) = {i \in 1 .. Len(list) : list[i].id = "PLL_UNLOCK" /\ IsProc(list[i])}
      /\ Accepted(list, 3) = {i \in 1 .. Len(list) : list[i].id = "PLL_UNLOCK" /\ IsOcmb(list[i])}
      /\ Accepted(list, 4) = {i \in 1 .. Len(list) : list[i].id = "TOD_ERROR" /\ IsProc(list[i])}
      /\ Accepted(list, 5) = {i \in 1 .. Len(list) :
            IsOcmb(list[i]) /\ list[i].attn \in {"CHIP_CS", "UNIT_CS"}}
      /\ Accepted(list, 10) = {i \in 1 .. Len(list) :
            IsProc(list[i]) /\ list[i].attn = "CHIP_CS" /\ list[i].id # "PB_EXT_FIR"}
  BY <1>1 DEF Accepted, Qualifies, OfKind, IsP10
<1>3. QED
  BY <1>2 DEF LookForBits, FindTodError, FindNonExternalCs, Find, Scan, SelectInSeq, First

\* The rules that need the flags of a signature.
LEMMA FlagRules ==
  ASSUME NEW list, IsList(list), AllData(list)
  PROVE  /\ Scan(list, ChannelFailure, OnChannel) = First(Accepted(list, 6))
         /\ FindCsRootCause_RE(list) = First(Accepted(list, 7))
         /\ FindCsRootCause_UCS(list) = First(Accepted(list, 8))
         /\ FindOcmbAttnBits(list) = First(Accepted(list, 9))
         /\ FindTiRootCause(list) = First(Accepted(list, 11))
<1>1. DOMAIN list = 1 .. Len(list) /\ \A i \in 1 .. Len(list) : HasData(list[i])
  BY Indices DEF AllData
<1>2. ASSUME NEW k, First(Accepted(list, k)) # 0
      PROVE  HasData(list[First(Accepted(list, k))])
  <2>1. Accepted(list, k) # {}
    BY <1>2, Finds DEF NotFound
  <2>2. First(Accepted(list, k)) \in Accepted(list, k)
    BY <2>1, Finds
  <2>3. QED
    BY <1>1, <2>2 DEF Accepted
<1>3. Scan(list, ChannelFailure, OnChannel) = First(Accepted(list, 6))
  <2>1. Accepted(list, 6) = {i \in 1 .. Len(list) :
          (OnChannel(list[i]) /\ ~HasData(list[i])) \/ ChannelFailure(list[i])}
    BY <1>1 DEF Accepted, Qualifies, OfKind
  <2>2. QED
    BY <1>2, <2>1 DEF Scan, SelectInSeq, First, NotFound
<1>4. ASSUME NEW attn, NEW k, k \in {7, 8}, attn = IF k = 7 THEN "RECOVERABLE" ELSE "UNIT_CS"
      PROVE  FindCsRootCause(list, attn) = First(Accepted(list, k))
  <2>1. Accepted(list, k) = {i \in 1 .. Len(list) :
          (list[i].attn = attn /\ ~HasData(list[i])) \/ (list[i].attn = attn /\ IsCsRootCause(list[i]))}
    BY <1>1, <1>4 DEF Accepted, Qualifies, OfKind
  <2>2. QED
    BY <1>2, <2>1 DEF FindCsRootCause, Scan, SelectInSeq, First, NotFound
<1>5. FindOcmbAttnBits(list) = First(Accepted(list, 9))
  <2>1. Find(list, IsOcmb) = First({i \in 1 .. Len(list) : IsOcmb(list[i])})
    BY DEF Find, Scan, SelectInSeq, First
  <2> DEFINE I == {i \in 1 .. Len(list) : IsOcmb(list[i])}
  <2>2. CASE I # {}
    <3>1. First(I) \in I /\ First(I) # NotFound
      <4>1. Len(list) \in Nat /\ I \in SUBSET (1 .. Len(list))
        BY Indices
      <4>2. \A i \in 1 .. Len(list) : i # NotFound
        BY <4>1 DEF NotFound
      <4> HIDE DEF I
      <4>3. QED
        BY <2>2, <4>1, <4>2, FirstIndex
    <3>2. Accepted(list, 9) = {}
      BY <1>1, <2>2 DEF Accepted, Qualifies
    <3>3. First(Accepted(list, 9)) = NotFound
      BY <3>2, Finds
    <3>4. QED
      BY <2>1, <3>1, <3>3 DEF FindOcmbAttnBits
  <2>3. CASE I = {}
    <3>1. First(I) = NotFound
      BY <2>3 DEF First, NotFound
    <3>2. Accepted(list, 9) = {i \in 1 .. Len(list) :
            (TRUE /\ ~HasData(list[i])) \/ IsFlagSet(list[i], "attn_from_ocmb")}
      BY <1>1, <2>3 DEF Accepted, Qualifies, OfKind
    <3>3. Scan(list, LAMBDA s : IsFlagSet(s, "attn_from_ocmb"), LAMBDA s : TRUE)
            = First(Accepted(list, 9))
      BY <1>2, <3>2 DEF Scan, SelectInSeq, First, NotFound
    <3>4. QED
      BY <2>1, <3>1, <3>3 DEF FindOcmbAttnBits
  <2>4. QED
    BY <2>2, <2>3
<1>6. FindTiRootCause(list) = First(Accepted(list, 11))
  <2>1. Accepted(list, 11) = {i \in 1 .. Len(list) :
          \/ list[i].attn \in {"RECOVERABLE", "UNIT_CS"} /\ ~HasData(list[i])
          \/ /\ list[i].attn \in {"RECOVERABLE", "UNIT_CS"}
             /\ \A flag \in SkippedForTi : ~IsFlagSet(list[i], flag)}
    BY <1>1 DEF Accepted, Qualifies, OfKind
  <2>2. QED
    BY <1>2, <2>1 DEF FindTiRootCause, Scan, SelectInSeq, First, NotFound
<1>7. QED
  BY <1>3, <1>4, <1>5, <1>6 DEF FindCsRootCause_RE, FindCsRootCause_UCS

--------------------------------------------------------------------------------
(* The order of the rules *)

\* The first result that is one, if there is any.
LEMMA FirstOfIs ==
  ASSUME NEW results, IsList(results)
  PROVE  \/ /\ \A i \in DOMAIN results : results[i] = NotFound
            /\ FirstOf(results) = NotFound
         \/ \E m \in DOMAIN results :
              /\ results[m] # NotFound
              /\ FirstOf(results) = results[m]
              /\ \A i \in DOMAIN results : i < m => results[i] = NotFound
<1> DEFINE I == {i \in 1 .. Len(results) : results[i] # NotFound}
           At(i) == IF i = 0 THEN NotFound ELSE results[i]
<1>1. Len(results) \in Nat /\ DOMAIN results = 1 .. Len(results) /\ I \in SUBSET (1 .. Len(results))
  BY Indices
<1>2. FirstOf(results) = At(First(I))
  BY DEF FirstOf, SelectInSeq, First
<1>3. CASE I = {}
  BY <1>1, <1>2, <1>3 DEF First
<1>4. CASE I # {}
  <2> DEFINE m == First(I)
  <2>1. m \in I /\ m \in 1 .. Len(results) /\ \A j \in I : m <= j
    <3> HIDE DEF I
    <3>1. QED
      BY <1>1, <1>4, FirstIndex
  <2> HIDE DEF m
  <2>2. results[m] # NotFound /\ m # 0 /\ m \in DOMAIN results
    BY <1>1, <2>1
  <2>3. FirstOf(results) = results[m]
    BY <1>2, <2>2 DEF m
  <2>4. \A i \in DOMAIN results : i < m => results[i] = NotFound
    BY <1>1, <2>1
  <2>5. QED
    BY <2>2, <2>3, <2>4
<1>5. QED
  BY <1>3, <1>4

\* Of two results the second one counts only without the first.
LEMMA FirstOfTwo ==
  ASSUME NEW a, NEW b
  PROVE  FirstOf(<<a, b>>) = IF a # NotFound THEN a ELSE b
<1> DEFINE results == <<a, b>>
<1>1. results \in Seq({a, b}) /\ DOMAIN results = {1, 2} /\ results[1] = a /\ results[2] = b
  OBVIOUS
<1>2. IsList(results)
  BY <1>1 DEF IsList
<1> HIDE DEF results
<1>3. \/ /\ \A i \in DOMAIN results : results[i] = NotFound
         /\ FirstOf(results) = NotFound
      \/ \E m \in DOMAIN results :
           /\ results[m] # NotFound
           /\ FirstOf(results) = results[m]
           /\ \A i \in DOMAIN results : i < m => results[i] = NotFound
  BY <1>2, FirstOfIs
<1>4. FirstOf(results) = IF a # NotFound THEN a ELSE b
  BY <1>1, <1>3
<1>5. QED
  BY <1>4 DEF results

\* Kind k is the best one of which the list has a signature.
BestKind(list, k) ==
  /\ k \in 1 .. Unblamed - 1
  /\ Accepted(list, k) # {}
  /\ \A j \in 1 .. Unblamed - 1 : j < k => Accepted(list, j) = {}

\* The filter takes the first signature of the best kind; without any that the
\* type of analysis blames, it takes the first of the list or none.
LEMMA RulesInOrder ==
  ASSUME NEW t, NEW list, IsList(list), AllData(list), list # <<>>
  PROVE  LET r == FindRootCause(t, list)
         IN \/ \E k : /\ BestKind(list, k) /\ r = First(Accepted(list, k))
                      /\ (k = 11 => t # "SYSTEM_CHECKSTOP")
            \/ /\ \A k \in 1 .. 10 : Accepted(list, k) = {}
               /\ t # "SYSTEM_CHECKSTOP" => Accepted(list, 11) = {}
               /\ r = IF t = "MANUAL" THEN 1 ELSE NotFound
<1> DEFINE F(k) == First(Accepted(list, k))
           results == <<F(1), IF F(2) # NotFound THEN F(2) ELSE F(3), F(4),
                        IF F(5) # NotFound THEN F(5) ELSE F(6), F(7), F(8), F(9), F(10),
                        IF t # "SYSTEM_CHECKSTOP" THEN F(11) ELSE NotFound,
                        IF t = "MANUAL" THEN 1 ELSE NotFound>>
           r == FindRootCause(t, list)
           goal == \/ \E k : /\ BestKind(list, k) /\ r = F(k)
                             /\ (k = 11 => t # "SYSTEM_CHECKSTOP")
                   \/ /\ \A k \in 1 .. 10 : Accepted(list, k) = {}
                      /\ t # "SYSTEM_CHECKSTOP" => Accepted(list, 11) = {}
                      /\ r = IF t = "MANUAL" THEN 1 ELSE NotFound
<1>1. FindPllUnlock(list) = IF F(2) # NotFound THEN F(2) ELSE F(3)
  BY SimpleRules, FirstOfTwo DEF FindPllUnlock
<1>2. FindMemoryChannelFailure(list) = IF F(5) # NotFound THEN F(5) ELSE F(6)
  BY SimpleRules, FlagRules, FirstOfTwo DEF FindMemoryChannelFailure
<1>3. r = FirstOf(results)
  BY <1>1, <1>2, SimpleRules, FlagRules DEF FindRootCause
<1>4. \A k : F(k) = NotFound <=> Accepted(list, k) = {}
  BY Finds
<1> HIDE DEF F, r
<1>5. IsList(results) /\ DOMAIN results = 1 .. 10
  <2> DEFINE S == {F(k) : k \in 1 .. 11} \cup {NotFound, 1}
  <2>1. \A k \in 1 .. 11 : F(k) \in S
    OBVIOUS
  <2>2. NotFound \in S /\ 1 \in S
    OBVIOUS
  <2> HIDE DEF S
  <2>3. results \in Seq(S)
    BY <2>1, <2>2
  <2>4. QED
    BY <2>3 DEF IsList
<1>6. /\ results[1] = F(1)
      /\ results[2] = IF F(2) # NotFound THEN F(2) ELSE F(3)
      /\ results[3] = F(4)
      /\ results[4] = IF F(5) # NotFound THEN F(5) ELSE F(6)
      /\ results[5] = F(7) /\ results[6] = F(8) /\ results[7] = F(9) /\ results[8] = F(10)
      /\ results[9] = IF t # "SYSTEM_CHECKSTOP" THEN F(11) ELSE NotFound
      /\ results[10] = IF t = "MANUAL" THEN 1 ELSE NotFound
  OBVIOUS
<1> HIDE DEF results
<1>7. CASE \A i \in DOMAIN results : results[i] = NotFound
  <2>1. r = NotFound
    BY <1>3, <1>5, <1>7, FirstOfIs
  <2>2. \A i \in 1 .. 10 : results[i] = NotFound
    BY <1>5, <1>7
  <2>3. /\ \A k \in 1 .. 10 : Accepted(list, k) = {}
        /\ t # "SYSTEM_CHECKSTOP" => Accepted(list, 11) = {}
    BY <1>4, <1>6, <2>2
  <2>4. t # "MANUAL"
    BY <1>6, <2>2 DEF NotFound
  <2>5. goal
    BY <2>1, <2>3, <2>4
  <2>6. QED
    BY <2>5 DEF r, F
<1>8. ASSUME NEW m \in DOMAIN results, results[m] # NotFound, r = results[m],
             \A i \in DOMAIN results : i < m => results[i] = NotFound
      PROVE  goal
  <2>1. m \in 1 .. 10 /\ \A i \in 1 .. 10 : i < m => results[i] = NotFound
    BY <1>5, <1>8
  <2> DEFINE None(k) == Accepted(list, k) = {}
  <2>2. ASSUME NEW k \in 1 .. 11, r = F(k), r # NotFound, \A j \in 1 .. 11 : j < k => None(j),
               k = 11 => t # "SYSTEM_CHECKSTOP"
        PROVE  goal
    <3>1. BestKind(list, k)
      BY <1>4, <2>2 DEF BestKind, Unblamed
    <3>2. QED
      BY <2>2, <3>1
  <2>3. /\ m > 1 => None(1)
        /\ m > 2 => None(2) /\ None(3)
        /\ m > 3 => None(4)
        /\ m > 4 => None(5) /\ None(6)
        /\ m > 5 => None(7)
        /\ m > 6 => None(8)
        /\ m > 7 => None(9)
        /\ m > 8 => None(10)
        /\ m > 9 => (t # "SYSTEM_CHECKSTOP" => None(11))
    BY <1>4, <1>6, <2>1
  <2>4. m = 2 => None(2) \/ r = F(2)
    BY <1>4, <1>6, <1>8
  <2>5. m = 4 => None(5) \/ r = F(5)
    BY <1>4, <1>6, <1>8
  <2> HIDE DEF goal, None
  <2>6. CASE m = 1
    BY <1>6, <1>8, <2>2, <2>6
  <2>7. CASE m = 2
    <3>1. CASE r = F(2)
      BY <1>8, <2>2, <2>3, <2>7, <3>1
    <3>2. CASE r # F(2)
      <4>1. None(2) /\ r = F(3)
        BY <1>6, <1>8, <2>4, <2>7, <3>2
      <4>2. QED
        BY <1>8, <2>2, <2>3, <2>7, <4>1
    <3>3. QED
      BY <3>1, <3>2
  <2>8. CASE m = 3
    BY <1>6, <1>8, <2>2, <2>3, <2>8
  <2>9. CASE m = 4
    <3>1. CASE r = F(5)
      BY <1>8, <2>2, <2>3, <2>9, <3>1
    <3>2. CASE r # F(5)
      <4>1. None(5) /\ r = F(6)
        BY <1>6, <1>8, <2>5, <2>9, <3>2
      <4>2. QED
        BY <1>8, <2>2, <2>3, <2>9, <4>1
    <3>3. QED
      BY <3>1, <3>2
  <2>10. CASE m = 5
    BY <1>6, <1>8, <2>2, <2>3, <2>10
  <2>11. CASE m = 6
    BY <1>6, <1>8, <2>2, <2>3, <2>11
  <2>12. CASE m = 7
    BY <1>6, <1>8, <2>2, <2>3, <2>12
  <2>13. CASE m = 8
    BY <1>6, <1>8, <2>2, <2>3, <2>13
  <2>14. CASE m = 9
    BY <1>6, <1>8, <2>2, <2>3, <2>14
  <2>15. CASE m = 10
    <3>1. t = "MANUAL" /\ r = 1
      BY <1>6, <1>8, <2>15
    <3>2. \A k \in 1 .. 10 : None(k)
      BY <2>3, <2>15
    <3>3. None(11)
      BY <2>3, <2>15, <3>1
    <3>4. QED
      BY <3>1, <3>2, <3>3 DEF goal, None
  <2>16. QED
    BY <2>1, <2>6, <2>7, <2>8, <2>9, <2>10, <2>11, <2>12, <2>13, <2>14, <2>15
<1>9. goal
  BY <1>3, <1>5, <1>7, <1>8, FirstOfIs DEF r, F
<1>10. QED
  BY <1>9 DEF r, F

--------------------------------------------------------------------------------
(* The best of a list *)

\* The rank of a signature is the best of the kinds it is of.
LEMMA RankIsBest ==
  ASSUME NEW s, NEW list
  PROVE  /\ RankIn(s, list) \in 1 .. Unblamed
         /\ Qualifies(s, RankIn(s, list), list)
         /\ \A k \in 1 .. Unblamed : Qualifies(s, k, list) => RankIn(s, list) <= k
<1> DEFINE K == {k \in 1 .. Unblamed : Qualifies(s, k, list)}
<1>1. K \in SUBSET Nat /\ Unblamed \in K
  BY DEF Unblamed, Qualifies, OfKind
<1>2. RankIn(s, list) = Min(K)
  BY DEF RankIn
<1>3. Min(K) \in K /\ \A k \in K : Min(K) <= k
  <2> HIDE DEF K
  <2>1. QED
    BY <1>1, MinIsLeast
<1>4. QED
  BY <1>2, <1>3

\* The first of the signatures of the lowest rank.
LEMMA LowestFirst ==
  ASSUME NEW list, IsList(list), NEW k \in 1 .. Unblamed,
         NEW I, I = {i \in DOMAIN list : RankIn(list[i], list) = k}, I # {},
         \A i \in DOMAIN list : k <= RankIn(list[i], list)
  PROVE  Best(list) = First(I)
<1> DEFINE R == {RankIn(list[i], list) : i \in DOMAIN list}
<1>1. R \in SUBSET Nat /\ k \in R
  BY RankIsBest DEF Unblamed
<1>2. Min(R) \in R /\ \A y \in R : Min(R) <= y
  <2> HIDE DEF R
  <2>1. QED
    BY <1>1, MinIsLeast
<1>3. Min(R) <= k /\ k <= Min(R) /\ Min(R) \in Nat /\ k \in Nat
  BY <1>1, <1>2
<1>4. Min(R) = k
  BY <1>3
<1>5. I = {i \in 1 .. Len(list) : RankIn(list[i], list) = Min(R)}
  BY <1>4, Indices
<1>6. QED
  BY <1>5 DEF Best, SelectInSeq, First

\* The first signature of the best kind is the first of the lowest rank.
LEMMA BestIsRanked ==
  ASSUME NEW list, IsList(list), NEW k, BestKind(list, k)
  PROVE  /\ Best(list) = First(Accepted(list, k))
         /\ Best(list) \in DOMAIN list
         /\ RankIn(list[Best(list)], list) = k
<1> DEFINE I == {i \in DOMAIN list : RankIn(list[i], list) = k}
<1>1. k \in 1 .. Unblamed /\ k < Unblamed /\ Unblamed \in Nat
  BY DEF BestKind, Unblamed
<1>2. ASSUME NEW i \in DOMAIN list PROVE k <= RankIn(list[i], list)
  <2> DEFINE j == RankIn(list[i], list)
  <2>1. j \in 1 .. Unblamed /\ Qualifies(list[i], j, list)
    BY RankIsBest
  <2> HIDE DEF j
  <2>2. i \in Accepted(list, j)
    BY <2>1 DEF Accepted
  <2>3. ~(j < k)
    BY <1>1, <2>1, <2>2 DEF BestKind
  <2>4. QED
    BY <1>1, <2>1, <2>3 DEF j
<1>3. I = Accepted(list, k)
  <2>1. \A i \in DOMAIN list : RankIn(list[i], list) = k => Qualifies(list[i], k, list)
    BY RankIsBest
  <2>2. \A i \in DOMAIN list : Qualifies(list[i], k, list) => RankIn(list[i], list) = k
    <3>1. SUFFICES ASSUME NEW i \in DOMAIN list, Qualifies(list[i], k, list)
                   PROVE  RankIn(list[i], list) = k
      OBVIOUS
    <3>2. RankIn(list[i], list) <= k /\ RankIn(list[i], list) \in 1 .. Unblamed
      BY <1>1, <3>1, RankIsBest
    <3>3. QED
      BY <1>1, <1>2, <3>2
  <2>3. QED
    BY <2>1, <2>2 DEF Accepted
<1>4. First(I) \in I
  BY <1>3, Finds DEF BestKind
<1>5. I # {}
  BY <1>4
<1> HIDE DEF I
<1>6. Best(list) = First(I)
  <2>1. I = {i \in DOMAIN list : RankIn(list[i], list) = k}
    BY DEF I
  <2>2. QED
    BY <1>1, <1>2, <1>5, <2>1, LowestFirst
<1>7. QED
  BY <1>3, <1>4, <1>6 DEF I

\* Where nothing is of a kind that is blamed, all are alike.
LEMMA NoneRanked ==
  ASSUME NEW list, IsList(list), list # <<>>,
         \A k \in 1 .. Unblamed - 1 : Accepted(list, k) = {}
  PROVE  /\ \A i \in DOMAIN list : RankIn(list[i], list) = Unblamed
         /\ Best(list) = 1
<1> DEFINE I == {i \in DOMAIN list : RankIn(list[i], list) = Unblamed}
<1>1. ASSUME NEW i \in DOMAIN list PROVE RankIn(list[i], list) = Unblamed
  <2> DEFINE j == RankIn(list[i], list)
  <2>1. j \in 1 .. Unblamed /\ Qualifies(list[i], j, list)
    BY RankIsBest
  <2> HIDE DEF j
  <2>2. i \in Accepted(list, j)
    BY <2>1 DEF Accepted
  <2>3. j \notin 1 .. Unblamed - 1
    BY <2>2
  <2>4. QED
    BY <2>1, <2>3 DEF Unblamed, j
<1>2. Len(list) \in Nat /\ DOMAIN list = 1 .. Len(list) /\ Len(list) # 0
  BY DEF IsList
<1>3. I = 1 .. Len(list) /\ 1 \in I /\ I \in SUBSET (1 .. Len(list))
  BY <1>1, <1>2
<1>4. First(I) \in I /\ \A j \in I : First(I) <= j
  <2> HIDE DEF I
  <2>1. QED
    BY <1>2, <1>3, FirstIndex
<1>5. First(I) = 1
  <2>1. First(I) \in 1 .. Len(list) /\ First(I) <= 1
    BY <1>3, <1>4
  <2>2. QED
    BY <1>2, <2>1
<1>6. Unblamed \in 1 .. Unblamed /\ \A i \in DOMAIN list : Unblamed <= RankIn(list[i], list)
  BY <1>1 DEF Unblamed
<1>7. Best(list) = First(I)
  <2>1. I = {i \in DOMAIN list : RankIn(list[i], list) = Unblamed} /\ I # {}
    BY <1>3
  <2> HIDE DEF I
  <2>2. QED
    BY <1>6, <2>1, LowestFirst
<1>8. QED
  BY <1>1, <1>5, <1>7

--------------------------------------------------------------------------------
(* Side effects *)

\* A special case leaves the signature blamed as it is or puts its cause in its
\* place.
LEMMA SpecialCases ==
  ASSUME NEW list, IsList(list), AllData(list), NEW i \in DOMAIN list
  PROVE  LET r == RootCauseSpecialCases(list, i)
         IN r \in DOMAIN list /\ r > 0 /\ (r = i \/ Causes(list[r], list[i]))
<1> DEFINE n == Len(list)
           IueTh(c) == \/ c.id = "RDFFIR" /\ c.bit \in {17, 37}
                       \/ c.id = "RDF_FIR" /\ c.bit \in {18, 38}
           Iue == {j \in 1 .. n : IueTh(list[j])}
           Odp == {j \in 1 .. n : IsFlagSet(list[j], "odp_data_corrupt_root_cause")}
           Rdf == {j \in 1 .. n : <<list[j].id, list[j].bit>> = <<"RDF_FIR", 41>>}
<1>1. n \in Nat /\ DOMAIN list = 1 .. n /\ \A j \in 1 .. n : HasData(list[j]) /\ j > 0 /\ j # 0
  BY Indices DEF AllData
<1>2. \A I \in SUBSET (1 .. n) : First(I) # 0 => First(I) \in I
  BY <1>1, FirstIndex
<1>3. FindIueTh(list) = First(Iue)
  <2> DEFINE I == {j \in 1 .. n : (FALSE /\ ~HasData(list[j])) \/ IueTh(list[j])}
  <2>1. I = Iue
    <3> HIDE DEF IueTh
    <3>1. QED
      OBVIOUS
  <2>2. FindIueTh(list) = IF I # {} THEN Min(I) ELSE 0
    BY DEF FindIueTh, Find, Scan, SelectInSeq
  <2>3. QED
    BY <2>1, <2>2 DEF First
<1>4. Scan(list, LAMBDA s : IsFlagSet(s, "odp_data_corrupt_root_cause"), LAMBDA s : TRUE)
        = First(Odp)
  <2>1. Odp = {j \in 1 .. n : (TRUE /\ ~HasData(list[j]))
                                \/ IsFlagSet(list[j], "odp_data_corrupt_root_cause")}
    BY <1>1
  <2>2. First(Odp) # 0 => HasData(list[First(Odp)])
    BY <1>1, <1>2
  <2>3. QED
    BY <2>1, <2>2 DEF Scan, SelectInSeq, First, NotFound
<1>5. Find(list, LAMBDA s : <<s.id, s.bit>> = <<"RDF_FIR", 41>>) = First(Rdf)
  BY DEF Find, Scan, SelectInSeq, First
<1> DEFINE blamed == list[i]
           iue == First(Iue)
           odp == IF IsFlagSet(blamed, "odp_data_corrupt_side_effect") THEN First(Odp) ELSE NotFound
           rdf == IF <<blamed.id, blamed.bit>> = <<"RDF_FIR", 16>> THEN First(Rdf) ELSE NotFound
           r == RootCauseSpecialCases(list, i)
<1>6. r = IF FirmwareChannelFail(blamed) /\ iue # NotFound THEN iue
          ELSE IF ~HasData(blamed) THEN Thrown
          ELSE IF odp # NotFound THEN odp
          ELSE IF rdf # NotFound THEN rdf
          ELSE i
  BY <1>3, <1>4, <1>5 DEF RootCauseSpecialCases
<1>7. HasData(blamed)
  BY <1>1
<1>8. iue # NotFound /\ FirmwareChannelFail(blamed) => iue \in 1 .. n /\ Causes(list[iue], blamed)
  <2>1. SUFFICES ASSUME iue # NotFound, FirmwareChannelFail(blamed)
                 PROVE  iue \in 1 .. n /\ Causes(list[iue], blamed)
    OBVIOUS
  <2>2. iue \in Iue
    BY <1>2, <2>1 DEF NotFound
  <2> HIDE DEF iue, blamed
  <2>3. <<list[iue].id, list[iue].bit>> \in {"RDFFIR"} \X {17, 37} \cup {"RDF_FIR"} \X {18, 38}
    BY <2>2
  <2>4. QED
    BY <2>1, <2>2, <2>3 DEF Causes
<1>9. odp # NotFound => odp \in 1 .. n /\ Causes(list[odp], blamed)
  <2>1. SUFFICES ASSUME odp # NotFound PROVE odp \in 1 .. n /\ Causes(list[odp], blamed)
    OBVIOUS
  <2>2. odp \in Odp /\ IsFlagSet(blamed, "odp_data_corrupt_side_effect")
    BY <1>2, <2>1 DEF NotFound
  <2> HIDE DEF odp, blamed
  <2>3. QED
    BY <2>2 DEF Causes
<1>10. rdf # NotFound => rdf \in 1 .. n /\ Causes(list[rdf], blamed)
  <2>1. SUFFICES ASSUME rdf # NotFound PROVE rdf \in 1 .. n /\ Causes(list[rdf], blamed)
    OBVIOUS
  <2>2. rdf \in Rdf /\ <<blamed.id, blamed.bit>> = <<"RDF_FIR", 16>>
    BY <1>2, <2>1 DEF NotFound
  <2> HIDE DEF rdf, blamed
  <2>3. <<blamed.id, blamed.bit, list[rdf].id, list[rdf].bit>> = <<"RDF_FIR", 16, "RDF_FIR", 41>>
    BY <2>2
  <2>4. QED
    BY <2>2, <2>3 DEF Causes
<1> HIDE DEF iue, odp, rdf, blamed, r
<1>11. r \in 1 .. n /\ (r = i \/ Causes(list[r], blamed))
  BY <1>1, <1>6, <1>7, <1>8, <1>9, <1>10
<1>12. QED
  BY <1>1, <1>11 DEF r, blamed

--------------------------------------------------------------------------------
(* The filter *)

\* The lowest rank that is not blamed in a type of analysis.
Excused(t) == IF t = "SYSTEM_CHECKSTOP" THEN 11 ELSE Unblamed

\* What the filter yields for a list: the best signature or its cause, or none
\* where nothing is to be blamed.
LEMMA FilterYields ==
  ASSUME NEW t, NEW list, IsList(list), AllData(list), list # <<>>
  PROVE  LET r == FilterRootCause(t, list)
             best == Best(list)
         IN \/ /\ r \in DOMAIN list /\ r > 0 /\ best \in DOMAIN list
               /\ r = best \/ Causes(list[r], list[best])
               /\ t = "MANUAL" \/ RankIn(list[best], list) < Unblamed
            \/ /\ r = NotFound /\ t # "MANUAL"
               /\ \A i \in DOMAIN list : RankIn(list[i], list) >= Excused(t)
<1> DEFINE i == FindRootCause(t, list)
           r == FilterRootCause(t, list)
           best == Best(list)
<1>1. /\ i > 0 => r = RootCauseSpecialCases(list, i)
      /\ ~(i > 0) => r = i
  BY DEF FilterRootCause
<1>2. \A j \in DOMAIN list : j \in Nat /\ j > 0
  BY Indices
<1>3. 1 \in DOMAIN list
  BY DEF IsList
<1>4. ASSUME i \in DOMAIN list, i = best
      PROVE  r \in DOMAIN list /\ r > 0 /\ (r = best \/ Causes(list[r], list[best]))
  <2> HIDE DEF i, r, best
  <2>1. r = RootCauseSpecialCases(list, i)
    BY <1>1, <1>2, <1>4
  <2>2. QED
    BY <1>4, <2>1, SpecialCases
<1>5. ASSUME NEW k, BestKind(list, k), i = First(Accepted(list, k))
      PROVE  /\ r \in DOMAIN list /\ r > 0 /\ best \in DOMAIN list
             /\ r = best \/ Causes(list[r], list[best])
             /\ RankIn(list[best], list) < Unblamed
  <2>1. i = best /\ best \in DOMAIN list /\ RankIn(list[best], list) = k
    BY <1>5, BestIsRanked
  <2>2. k < Unblamed
    BY <1>5 DEF BestKind, Unblamed
  <2>3. QED
    BY <1>4, <2>1, <2>2
<1>6. ASSUME \A k \in 1 .. 10 : Accepted(list, k) = {},
             t # "SYSTEM_CHECKSTOP" => Accepted(list, 11) = {},
             i = IF t = "MANUAL" THEN 1 ELSE NotFound
      PROVE  \/ /\ r \in DOMAIN list /\ r > 0 /\ best \in DOMAIN list
                /\ r = best \/ Causes(list[r], list[best])
                /\ t = "MANUAL"
             \/ /\ r = NotFound /\ t # "MANUAL"
                /\ \A j \in DOMAIN list : RankIn(list[j], list) >= Excused(t)
  <2>1. CASE t = "MANUAL"
    <3>1. \A k \in 1 .. Unblamed - 1 : Accepted(list, k) = {}
      BY <1>6, <2>1 DEF Unblamed
    <3>2. best = 1 /\ i = 1
      BY <1>6, <2>1, <3>1, NoneRanked
    <3>3. QED
      BY <1>3, <1>4, <2>1, <3>2
  <2>2. CASE t # "MANUAL"
    <3>1. r = NotFound
      BY <1>1, <1>6, <2>2 DEF NotFound
    <3>2. ASSUME NEW j \in DOMAIN list PROVE RankIn(list[j], list) >= Excused(t)
      <4> DEFINE k == RankIn(list[j], list)
      <4>1. k \in 1 .. Unblamed /\ Qualifies(list[j], k, list)
        BY RankIsBest
      <4> HIDE DEF k
      <4>2. j \in Accepted(list, k)
        BY <4>1 DEF Accepted
      <4>3. k \notin 1 .. 10 /\ (t # "SYSTEM_CHECKSTOP" => k # 11)
        BY <1>6, <4>2
      <4>4. QED
        BY <4>1, <4>3 DEF Excused, Unblamed, k
    <3>3. QED
      BY <2>2, <3>1, <3>2
  <2>3. QED
    BY <2>1, <2>2
<1> HIDE DEF r, best
<1>7. \/ \E k : /\ BestKind(list, k) /\ i = First(Accepted(list, k))
              /\ (k = 11 => t # "SYSTEM_CHECKSTOP")
      \/ /\ \A k \in 1 .. 10 : Accepted(list, k) = {}
         /\ t # "SYSTEM_CHECKSTOP" => Accepted(list, 11) = {}
         /\ i = IF t = "MANUAL" THEN 1 ELSE NotFound
  BY RulesInOrder
<1> HIDE DEF i
<1>8. \/ /\ r \in DOMAIN list /\ r > 0 /\ best \in DOMAIN list
         /\ r = best \/ Causes(list[r], list[best])
         /\ t = "MANUAL" \/ RankIn(list[best], list) < Unblamed
      \/ /\ r = NotFound /\ t # "MANUAL"
         /\ \A j \in DOMAIN list : RankIn(list[j], list) >= Excused(t)
  BY <1>5, <1>6, <1>7
<1>9. QED
  BY <1>8 DEF r, best

\* With or without RAS data, the filter yields an index of the list, none, or an
\* exception.
LEMMA FilterResult ==
  ASSUME NEW t, NEW list, IsList(list)
  PROVE  FilterRootCause(t, list) \in DOMAIN list \cup {NotFound, Thrown}
<1> DEFINE n == Len(list)
           V == 1 .. n \cup {NotFound, Thrown}
<1>1. n \in Nat /\ DOMAIN list = 1 .. n
  BY Indices
<1>2. \A I \in SUBSET (1 .. n) : First(I) \in V
  <2>1. SUFFICES ASSUME NEW I \in SUBSET (1 .. n) PROVE First(I) \in V
    OBVIOUS
  <2>2. First(I) = 0 \/ First(I) \in 1 .. n
    BY <1>1, FirstIndex
  <2>3. QED
    BY <1>1, <2>2 DEF NotFound
<1>3. \A k : First(Accepted(list, k)) \in V
  BY <1>1, <1>2 DEF Accepted
<1>4. /\ FindPllUnlock(list) \in V
      /\ FindTodError(list) \in V /\ FindNonExternalCs(list) \in V
      /\ LookForBits(list, {"P10_10", "P10_20"}, "TP_LOCAL_FIR", {42, 43}) \in V
      /\ Find(list, LAMBDA s : IsOcmb(s) /\ s.attn \in {"CHIP_CS", "UNIT_CS"}) \in V
  <2> HIDE DEF V
  <2>1. /\ Find(list, LAMBDA s : s.id = "PLL_UNLOCK" /\ IsProc(s)) \in V
        /\ Find(list, LAMBDA s : s.id = "PLL_UNLOCK" /\ IsOcmb(s)) \in V
        /\ FindTodError(list) \in V /\ FindNonExternalCs(list) \in V
        /\ LookForBits(list, {"P10_10", "P10_20"}, "TP_LOCAL_FIR", {42, 43}) \in V
        /\ Find(list, LAMBDA s : IsOcmb(s) /\ s.attn \in {"CHIP_CS", "UNIT_CS"}) \in V
    BY <1>3, SimpleRules
  <2>2. FindPllUnlock(list) \in V
    <3>1. \A a, b : a \in V /\ b \in V => FirstOf(<<a, b>>) \in V
      BY FirstOfTwo
    <3>2. QED
      BY <2>1, <3>1, Zenon DEF FindPllUnlock
  <2>3. QED
    BY <2>1, <2>2
<1>5. Scan(list, ChannelFailure, OnChannel) \in V
  <2> DEFINE I == {i \in 1 .. n : (OnChannel(list[i]) /\ ~HasData(list[i])) \/ ChannelFailure(list[i])}
  <2>1. First(I) \in V
    BY <1>2
  <2>2. QED
    BY <2>1 DEF Scan, SelectInSeq, First, Thrown
<1>6. \A attn : FindCsRootCause(list, attn) \in V
  <2>1. SUFFICES ASSUME NEW attn PROVE FindCsRootCause(list, attn) \in V
    OBVIOUS
  <2> DEFINE I == {i \in 1 .. n :
                     (list[i].attn = attn /\ ~HasData(list[i]))
                     \/ (list[i].attn = attn /\ IsCsRootCause(list[i]))}
  <2>2. First(I) \in V
    BY <1>2
  <2>3. FindCsRootCause(list, attn) =
          IF First(I) # NotFound /\ list[First(I)].attn = attn /\ ~HasData(list[First(I)])
            THEN Thrown ELSE First(I)
    BY DEF FindCsRootCause, Scan, SelectInSeq, First
  <2> HIDE DEF I
  <2>4. QED
    BY <2>2, <2>3 DEF Thrown
<1>7. FindOcmbAttnBits(list) \in V
  <2> DEFINE I == {i \in 1 .. n : (TRUE /\ ~HasData(list[i])) \/ IsFlagSet(list[i], "attn_from_ocmb")}
  <2>1. First(I) \in V
    BY <1>2
  <2>2. Scan(list, LAMBDA s : IsFlagSet(s, "attn_from_ocmb"), LAMBDA s : TRUE) \in V
    BY <2>1 DEF Scan, SelectInSeq, First, Thrown
  <2>3. QED
    BY <2>2 DEF FindOcmbAttnBits, NotFound
<1>8. FindTiRootCause(list) \in V
  <2> DEFINE Candidate(s) == s.attn \in {"RECOVERABLE", "UNIT_CS"}
             Blamed(s) == Candidate(s) /\ \A flag \in SkippedForTi : ~IsFlagSet(s, flag)
             I == {i \in 1 .. n : (Candidate(list[i]) /\ ~HasData(list[i])) \/ Blamed(list[i])}
  <2>1. First(I) \in V
    BY <1>2
  <2>2. QED
    BY <2>1 DEF FindTiRootCause, Scan, SelectInSeq, First, Thrown
<1>9. FindMemoryChannelFailure(list) \in V
  BY <1>4, <1>5, FirstOfTwo DEF FindMemoryChannelFailure
<1>10. FindRootCause(t, list) \in V
  <2> DEFINE results ==
    <<LookForBits(list, {"P10_10", "P10_20"}, "TP_LOCAL_FIR", {42, 43}),
      FindPllUnlock(list), FindTodError(list), FindMemoryChannelFailure(list),
      FindCsRootCause_RE(list), FindCsRootCause_UCS(list), FindOcmbAttnBits(list),
      FindNonExternalCs(list),
      IF t # "SYSTEM_CHECKSTOP" THEN FindTiRootCause(list) ELSE NotFound,
      IF t = "MANUAL" THEN 1 ELSE NotFound>>
  <2>1. results \in Seq(V \cup {1})
    <3>1. NotFound \in V
      OBVIOUS
    <3> HIDE DEF V
    <3>2. QED
      BY <1>4, <1>6, <1>7, <1>8, <1>9, <3>1 DEF FindCsRootCause_RE, FindCsRootCause_UCS
  <2>2. FindRootCause(t, list) = IF list = <<>> THEN NotFound ELSE FirstOf(results)
    BY DEF FindRootCause
  <2> HIDE DEF results
  <2>3. FirstOf(results) \in V \cup {1}
    <3>1. IsList(results) /\ \A i \in DOMAIN results : results[i] \in V \cup {1}
      BY <2>1 DEF IsList
    <3>2. QED
      BY <3>1, FirstOfIs DEF NotFound
  <2>4. list # <<>> => 1 \in V
    BY DEF IsList
  <2>5. QED
    BY <2>2, <2>3, <2>4
<1>11. \A i \in V : i > 0 => RootCauseSpecialCases(list, i) \in V
  <2>1. SUFFICES ASSUME NEW i \in V, i > 0 PROVE RootCauseSpecialCases(list, i) \in V
    OBVIOUS
  <2> DEFINE IueTh(c) == \/ c.id = "RDFFIR" /\ c.bit \in {17, 37}
                         \/ c.id = "RDF_FIR" /\ c.bit \in {18, 38}
             A == {j \in 1 .. n : (FALSE /\ ~HasData(list[j])) \/ IueTh(list[j])}
             B == {j \in 1 .. n : (TRUE /\ ~HasData(list[j]))
                                    \/ IsFlagSet(list[j], "odp_data_corrupt_root_cause")}
             C == {j \in 1 .. n : (FALSE /\ ~HasData(list[j]))
                                    \/ <<list[j].id, list[j].bit>> = <<"RDF_FIR", 41>>}
  <2>2. First(A) \in V /\ First(B) \in V /\ First(C) \in V
    BY <1>2
  <2>3. FindIueTh(list) = First(A)
    BY DEF FindIueTh, Find, Scan, SelectInSeq, First
  <2>4. Scan(list, LAMBDA s : IsFlagSet(s, "odp_data_corrupt_root_cause"), LAMBDA s : TRUE) \in V
    BY <2>2 DEF Scan, SelectInSeq, First, Thrown
  <2>5. Find(list, LAMBDA s : <<s.id, s.bit>> = <<"RDF_FIR", 41>>) = First(C)
    BY DEF Find, Scan, SelectInSeq, First
  <2>6. QED
    BY <2>1, <2>2, <2>3, <2>4, <2>5 DEF RootCauseSpecialCases
<1>12. QED
  BY <1>1, <1>10, <1>11 DEF FilterRootCause

--------------------------------------------------------------------------------
(* The root cause of an analysis *)

\* The variables of an analysis hold what the filter yields for the list and the
\* type that they hold, from the time it is called until the analysis ends.
RootInv ==
  /\ sigs \in Isolated \/ sigs = <<>>
  /\ phase \in {"idle", "filter"} => root = NotFound
  /\ phase \in {"parse", "resolve"} => root # NotFound
  /\ root # NotFound => root > 0 /\ root = FilterRootCause(kind, sigs)
  /\ phase \in {"commit", "done"} /\ root = NotFound => ~(FilterRootCause(kind, sigs) > 0)

\* Every step keeps it.
LEMMA RootStep == RootInv /\ [Next]_vars => RootInv'
<1> SUFFICES ASSUME RootInv, [Next]_vars PROVE RootInv'
  OBVIOUS
<1>1. CASE UNCHANGED vars
  BY <1>1 DEF vars, RootInv
<1>2. ASSUME NEW k \in AnalysisType, Analyze(k) PROVE RootInv'
  BY <1>2 DEF Analyze, RootInv
<1>3. CASE Filter
  <2> DEFINE r == FilterRootCause(kind, sigs)
  <2>1. /\ root' = IF r > 0 THEN r ELSE NotFound
        /\ phase' = CASE r > 0 /\ kind # "MANUAL"             -> "parse"
                      [] r > 0 /\ kind = "MANUAL"             -> "commit"
                      [] r <= 0 /\ kind = "SYSTEM_CHECKSTOP"  -> "commit"
                      [] OTHER                                -> "done"
        /\ UNCHANGED <<kind, sigs>>
    BY <1>3 DEF Filter
  <2>2. FilterRootCause(kind, sigs)' = r
    BY <2>1
  <2> HIDE DEF r
  <2>3. r > 0 => r # NotFound
    BY DEF NotFound
  <2>4. QED
    BY <2>1, <2>2, <2>3 DEF RootInv
<1>a. ASSUME phase \in {"parse", "resolve"}, CatchException PROVE RootInv'
  BY <1>a DEF CatchException, RootInv
<1>b. ASSUME phase \in {"parse", "resolve"}, Abort PROVE RootInv'
  BY <1>b DEF Abort, RootInv
<1>4. CASE Parse
  BY <1>4, <1>a, <1>b DEF Parse, RootInv
<1>5. CASE Resolve
  BY <1>5, <1>a, <1>b DEF Resolve, RootInv
<1>6. CASE Call
  BY <1>6, <1>a, <1>b DEF Call, RootInv
<1>7. CASE Resolved
  BY <1>7 DEF Resolved, RootInv
<1>8. CASE CommitPel
  BY <1>8 DEF CommitPel, RootInv
<1>9. CASE Return
  BY <1>9 DEF Return, RootInv
<1>10. QED
  BY <1>1, <1>2, <1>3, <1>4, <1>5, <1>6, <1>7, <1>8, <1>9 DEF Next

\* The invariant of the root cause holds in every reachable state.
THEOREM RootInvHolds == Spec => []RootInv
<1>1. Init => RootInv
  BY DEF Init, RootInv
<1>2. QED
  BY <1>1, RootStep, PTL DEF Spec

\* The lists of an analysis are lists.
LEMMA SigsList == RootInv => IsList(sigs)
<1>1. IsList(<<>>)
  <2>1. <<>> \in Seq({})
    OBVIOUS
  <2>2. QED
    BY <2>1 DEF IsList
<1>2. \A list \in Isolated : IsList(list)
  BY AnalyzerAssumption DEF IsList
<1>3. QED
  BY <1>1, <1>2 DEF RootInv

\* The filter finds nothing in an empty list.
LEMMA EmptyFilter == \A t : ~(FilterRootCause(t, <<>>) > 0)
BY DEF FilterRootCause, FindRootCause, NotFound

\* What is blamed, where anything is.
LEMMA BlamedIs ==
  ASSUME RootInv, root # NotFound, Complete
  PROVE  /\ root \in DOMAIN sigs /\ Best(sigs) \in DOMAIN sigs
         /\ root = Best(sigs) \/ Causes(sigs[root], sigs[Best(sigs)])
         /\ kind = "MANUAL" \/ RankIn(sigs[Best(sigs)], sigs) < Unblamed
<1>1. root > 0 /\ root = FilterRootCause(kind, sigs)
  BY DEF RootInv
<1>2. IsList(sigs) /\ AllData(sigs) /\ sigs # <<>>
  BY <1>1, SigsList, EmptyFilter DEF Complete, AllData
<1>3. QED
  BY <1>1, <1>2, FilterYields

\* Whatever the order in which the isolator found them, the signature blamed is
\* the first of the best kind there is, or one that is known to cause that one.
THEOREM BlamesBestHolds == Spec => []BlamesBest
<1>1. RootInv => BlamesBest
  BY BlamedIs DEF BlamesBest
<1>2. QED
  BY <1>1, RootInvHolds, PTL

\* An analysis that ends without a root cause has found nothing to blame.
THEOREM NoneToBlameHolds == Spec => []NoneToBlame
<1>1. RootInv => NoneToBlame
  <2> SUFFICES ASSUME RootInv, phase \in {"commit", "done"}, root = NotFound, Complete,
                      NEW i \in DOMAIN sigs
               PROVE  kind # "MANUAL" /\ RankIn(sigs[i], sigs) >= Excused(kind)
    BY DEF NoneToBlame, Excused
  <2>1. ~(FilterRootCause(kind, sigs) > 0)
    BY DEF RootInv
  <2>2. IsList(sigs) /\ AllData(sigs) /\ sigs # <<>>
    BY SigsList DEF Complete, AllData
  <2>3. QED
    BY <2>1, <2>2, FilterYields
<1>2. QED
  BY <1>1, RootInvHolds, PTL

\* An attention that only relays one of an OCMB is not blamed where an OCMB
\* reports an attention of its own, unless it is itself a checkstop, the source
\* of one, or known to cause another signature.
THEOREM RelayNotBlamedHolds ==
  ASSUME RelayFlags
  PROVE  Spec => []RelayNotBlamed
<1>1. RootInv => RelayNotBlamed
  <2> DEFINE s == sigs[root]
  <2> SUFFICES ASSUME RootInv, root # NotFound, kind # "MANUAL", Complete,
                      IsFlagSet(s, "attn_from_ocmb"), NEW o \in DOMAIN sigs, IsOcmb(sigs[o])
               PROVE  s.attn = "CHIP_CS" \/ IsCsRootCause(s) \/ \E i \in DOMAIN sigs : Causes(s, sigs[i])
    BY DEF RelayNotBlamed
  <2>1. /\ root \in DOMAIN sigs /\ Best(sigs) \in DOMAIN sigs
        /\ root = Best(sigs) \/ Causes(s, sigs[Best(sigs)])
        /\ RankIn(sigs[Best(sigs)], sigs) < Unblamed
    BY BlamedIs
  <2>2. CASE root = Best(sigs)
    <3> DEFINE k == RankIn(s, sigs)
    <3>1. k \in 1 .. 11 /\ Qualifies(s, k, sigs)
      BY <2>1, <2>2, RankIsBest DEF Unblamed
    <3>2. sigs \in Isolated
      BY <2>1 DEF RootInv
    <3>3. HasData(s)
      BY <2>1 DEF Complete
    <3>4. IsProc(s) /\ s.id \in {"MC_DSTL_FIR", "MC_USTL_FIR"} /\ ~IsOcmb(s)
      BY <2>1, <3>2, <3>3 DEF RelayFlags, IsProc, IsOcmb
    <3> HIDE DEF s, k
    <3>5. k \notin {1, 2, 3, 4, 5, 9}
      BY <3>1, <3>4 DEF Qualifies, OfKind
    <3>6. k # 6
      BY <3>1, <3>4 DEF Qualifies, OfKind, ChannelFailure
    <3>7. k # 11
      BY <3>1 DEF Qualifies, OfKind, SkippedForTi
    <3>8. k \in {7, 8, 10}
      BY <3>1, <3>5, <3>6, <3>7
    <3>9. QED
      BY <3>1, <3>8 DEF Qualifies, OfKind
  <2>3. QED
    BY <2>1, <2>2
<1>2. QED
  BY <1>1, RootInvHolds, PTL

--------------------------------------------------------------------------------
(* The walks over the actions of a file *)

Sets == SUBSET Names
Walked == (DOMAIN Files) \X Names \X Sets

\* The resolutions that the elements of a model's actions may make.
Leaves(m) ==
  {Resolution(Files[m], e) : e \in {x \in Elements(m) : x.type \notin {"flag", "action"} /\ Defined(Files[m], x)}}

Walks(m) == [outcome : {"ok", Threw, Aborted}, leaves : Seq(Leaves(m)), stack : Sets]

\* What ParseAction asks of a function at one place.
Body(F, m, name, held) ==
  LET walk == Walk(F, m, name, held)
  IN IF name \in held THEN Result(Aborted, held)
     ELSE IF name \notin DOMAIN Files[m].actions THEN Result(Threw, held \cup {name})
     ELSE IF walk.outcome = "ok" THEN [walk EXCEPT !.stack = @ \ {name}]
     ELSE walk

\* The elements of a product of three sets.
LEMMA Triples ==
  ASSUME NEW A, NEW B, NEW C
  PROVE  /\ \A a \in A, b \in B, c \in C : <<a, b, c>> \in A \X B \X C
         /\ \A x \in A \X B \X C : x[1] \in A /\ x[2] \in B /\ x[3] \in C
OBVIOUS

\* What ParseAction is defined for.
LEMMA WalkedIs ==
  /\ \A m \in DOMAIN Files, name \in Names, held \in Sets : <<m, name, held>> \in Walked
  /\ \A x \in Walked : x[1] \in DOMAIN Files /\ x[2] \in Names /\ x[3] \in Sets
BY Triples, Zenon DEF Walked

\* The walk over the first n elements.
UpTo(F, m, name, held, n, w) ==
  w = [i \in 0 .. n |->
         IF i = 0 THEN Result("ok", held \cup {name})
         ELSE Extend(F, m, w[i - 1], Files[m].actions[name][i])]

\* There is a function for the recursion over the elements of an action, however
\* many.
LEMMA UpToExists ==
  ASSUME NEW F, NEW m, NEW name, NEW held, NEW n \in Nat
  PROVE  \E w : UpTo(F, m, name, held, n, w)
<1> DEFINE b == Result("ok", held \cup {name})
           e(i, v) == Extend(F, m, v, Files[m].actions[name][i])
           Is(k, w) == w = [i \in 0 .. k |-> IF i = 0 THEN b ELSE e(i, w[i - 1])]
           bad == {k \in 0 .. n : ~\E w : Is(k, w)}
<1>1. SUFFICES bad = {}
  <2>1. n \in 0 .. n
    OBVIOUS
  <2>2. ASSUME bad = {} PROVE \E w : Is(n, w)
    BY <2>1, <2>2
  <2>3. QED
    BY <2>2 DEF UpTo
<1> HIDE DEF b, e
<1>2. SUFFICES ASSUME bad # {} PROVE FALSE
  OBVIOUS
<1>3. bad \in SUBSET Nat
  OBVIOUS
<1>4. PICK k \in bad : \A j \in bad : k <= j
  BY <1>2, <1>3, MinIsLeast
<1>5. k \in 0 .. n /\ ~\E w : Is(k, w)
  BY <1>4
<1>6. CASE k = 0
  <2> DEFINE w == [i \in 0 .. 0 |-> b]
  <2>1. w = [i \in 0 .. 0 |-> IF i = 0 THEN b ELSE e(i, w[i - 1])]
    OBVIOUS
  <2>2. Is(k, w)
    BY <1>6, <2>1
  <2>3. QED
    BY <1>5, <2>2
<1>7. CASE k # 0
  <2>1. k - 1 \in 0 .. n /\ ~(k <= k - 1)
    BY <1>5, <1>7
  <2>2. PICK w : Is(k - 1, w)
    BY <1>4, <2>1
  <2> DEFINE g == [i \in 0 .. k |-> IF i = 0 THEN b ELSE e(i, w[i - 1])]
  <2>3. \A i \in 0 .. k - 1 : g[i] = w[i]
    <3>1. \A i \in 0 .. k - 1 : w[i] = IF i = 0 THEN b ELSE e(i, w[i - 1])
      BY <2>2
    <3>2. \A i \in 0 .. k - 1 : i \in 0 .. k
      BY <1>5
    <3>3. QED
      BY <3>1, <3>2
  <2>4. \A i \in 0 .. k : g[i] = IF i = 0 THEN b ELSE e(i, w[i - 1])
    OBVIOUS
  <2>5. \A i \in 0 .. k : i # 0 => i - 1 \in 0 .. k - 1
    BY <1>5
  <2>6. g = [i \in 0 .. k |-> g[i]]
    OBVIOUS
  <2> HIDE DEF g
  <2>7. \A i \in 0 .. k : g[i] = IF i = 0 THEN b ELSE e(i, g[i - 1])
    BY <2>3, <2>4, <2>5
  <2>8. Is(k, g)
    BY <2>6, <2>7
  <2>9. QED
    BY <1>5, <2>8
<1>8. QED
  BY <1>6, <1>7

\* The steps of a walk, from its begin to its end.
Stepwise(F, m, name, held, n, w) ==
  /\ w[0] = Result("ok", held \cup {name})
  /\ \A i \in 1 .. n : w[i] = Extend(F, m, w[i - 1], Files[m].actions[name][i])

\* The walk over an action is the last of its steps.
LEMMA WalkIs ==
  ASSUME NEW F, NEW m, NEW name, NEW held, Len(Files[m].actions[name]) \in Nat
  PROVE  \E w : /\ Stepwise(F, m, name, held, Len(Files[m].actions[name]), w)
                /\ Walk(F, m, name, held) = w[Len(Files[m].actions[name])]
<1> DEFINE list == Files[m].actions[name]
           n == Len(list)
           w == CHOOSE w : w = [i \in 0 .. n |->
                  IF i = 0 THEN Result("ok", held \cup {name}) ELSE Extend(F, m, w[i - 1], list[i])]
<1>1. Walk(F, m, name, held) = w[n]
  BY Zenon DEF Walk
<1>2. PICK v : v = [i \in 0 .. n |->
                  IF i = 0 THEN Result("ok", held \cup {name}) ELSE Extend(F, m, v[i - 1], list[i])]
  <2> DEFINE k == n
  <2>1. k \in Nat
    OBVIOUS
  <2> HIDE DEF k
  <2>2. \E v : UpTo(F, m, name, held, k, v)
    BY <2>1, UpToExists
  <2>3. QED
    BY <2>2, Zenon DEF UpTo, k
<1>3. w = [i \in 0 .. n |->
             IF i = 0 THEN Result("ok", held \cup {name}) ELSE Extend(F, m, w[i - 1], list[i])]
  BY <1>2, Zenon
<1> HIDE DEF w
<1>4. /\ 0 \in 0 .. n
      /\ \A i \in 1 .. n : i \in 0 .. n /\ i # 0
  OBVIOUS
<1>5. Stepwise(F, m, name, held, n, w)
  <2> HIDE DEF n, list
  <2>1. w[0] = Result("ok", held \cup {name})
    BY <1>3, <1>4
  <2>2. ASSUME NEW i \in 1 .. n PROVE w[i] = Extend(F, m, w[i - 1], list[i])
    BY <1>3, <1>4
  <2>3. QED
    BY <2>1, <2>2 DEF Stepwise, n, list
<1>6. QED
  BY <1>1, <1>5

\* The actions that a file calls for have names.
LEMMA CalledNames ==
  /\ \A m \in DOMAIN Files : Called(m) \in Sets /\ \A x \in Called(m) : x \in Names
  /\ \A x \in Actions : x \in Names
BY DEF Sets, Names

\* What is known of the actions of a file.
LEMMA ActionList ==
  ASSUME NEW m \in DOMAIN Files, NEW name \in DOMAIN Files[m].actions
  PROVE  /\ Len(Files[m].actions[name]) \in Nat
         /\ \A i \in 1 .. Len(Files[m].actions[name]) :
              /\ Files[m].actions[name][i] \in Elements(m)
              /\ Files[m].actions[name][i].type = "action" =>
                   Files[m].actions[name][i].name \in Called(m) \cap Names
         /\ name \in Actions
<1> DEFINE list == Files[m].actions[name]
<1>1. list \in Seq(Range(list))
  BY RasDataAssumption
<1>2. \A e \in Elements(m) : e.type = "action" => e.name \in Called(m) \cap Names
  <2>1. \A e \in Elements(m) : e.type = "action" => e.name \in Called(m)
    BY DEF Called
  <2>2. QED
    BY <2>1, CalledNames
<1>3. name \in Actions
  BY DEF Actions
<1>4. Range(list) \subseteq Elements(m)
  BY DEF Elements
<1> HIDE DEF list
<1>5. Len(list) \in Nat /\ \A i \in 1 .. Len(list) : list[i] \in Range(list)
  BY <1>1
<1>6. QED
  BY <1>2, <1>3, <1>4, <1>5 DEF list

\* A name that is put on the stack or taken off it.
LEMMA Stacks ==
  ASSUME NEW held \in Sets, NEW name \in Names
  PROVE  held \cup {name} \in Sets /\ held \ {name} \in Sets /\ {} \in Sets
BY DEF Sets

\* The walks of a file yield resolutions of its elements, and leave the stack as
\* they found it if they succeed.
Sound(F, m, held) ==
  \A name \in Names :
    LET r == F[<<m, name, held>>]
    IN r \in Walks(m) /\ (r.outcome = "ok" => r.stack = held)

\* A result without resolutions is one that a walk may yield.
LEMMA ResultWalks ==
  ASSUME NEW m, NEW outcome \in {"ok", Threw, Aborted}, NEW held \in Sets
  PROVE  /\ Result(outcome, held) \in Walks(m)
         /\ Result(outcome, held).outcome = outcome
         /\ Result(outcome, held).stack = held
<1>1. <<>> \in Seq(Leaves(m))
  OBVIOUS
<1>2. QED
  BY <1>1 DEF Result, Walks

\* The walks differ from one another in their outcome only where it is told so.
LEMMA Outcomes == "ok" # Threw /\ "ok" # Aborted /\ Threw # Aborted
BY DEF Threw, Aborted

\* One element more keeps a walk sound.
LEMMA ExtendSound ==
  ASSUME NEW F, NEW m \in DOMAIN Files, NEW held, Sound(F, m, held),
         NEW walk \in Walks(m), walk.outcome = "ok" => walk.stack = held,
         NEW e \in Elements(m), e.type = "action" => e.name \in Names
  PROVE  LET r == Extend(F, m, walk, e)
         IN r \in Walks(m) /\ (r.outcome = "ok" => r.stack = held)
<1> DEFINE r == Extend(F, m, walk, e)
<1>1. CASE walk.outcome # "ok" \/ e.type = "flag"
  BY <1>1 DEF Extend
<1>2. CASE walk.outcome = "ok" /\ e.type = "action"
  <2> DEFINE sub == F[<<m, e.name, walk.stack>>]
  <2>1. sub \in Walks(m) /\ (sub.outcome = "ok" => sub.stack = held)
    BY <1>2 DEF Sound
  <2>2. r = [sub EXCEPT !.leaves = walk.leaves \o @]
    BY <1>2 DEF Extend
  <2> HIDE DEF sub, r
  <2>3. walk.leaves \o sub.leaves \in Seq(Leaves(m))
    BY <2>1 DEF Walks
  <2>4. r \in Walks(m) /\ (r.outcome = "ok" => r.stack = held)
    BY <2>1, <2>2, <2>3 DEF Walks
  <2>5. QED
    BY <2>4 DEF r
<1>3. CASE walk.outcome = "ok" /\ e.type \notin {"flag", "action"} /\ Defined(Files[m], e)
  <2> DEFINE leaf == Resolution(Files[m], e)
  <2>1. leaf \in Leaves(m)
    BY <1>3 DEF Leaves
  <2>2. r = [walk EXCEPT !.leaves = Append(@, leaf)]
    BY <1>3 DEF Extend
  <2> HIDE DEF leaf, r
  <2>3. Append(walk.leaves, leaf) \in Seq(Leaves(m))
    BY <2>1 DEF Walks
  <2>4. r \in Walks(m) /\ (r.outcome = "ok" => r.stack = held)
    BY <2>2, <2>3, <1>3 DEF Walks
  <2>5. QED
    BY <2>4 DEF r
<1>4. CASE walk.outcome = "ok" /\ e.type \notin {"flag", "action"} /\ ~Defined(Files[m], e)
  <2>1. r = [walk EXCEPT !.outcome = Threw]
    BY <1>4 DEF Extend
  <2> HIDE DEF r
  <2>2. r \in Walks(m) /\ r.outcome = Threw
    BY <2>1 DEF Walks
  <2>3. QED
    BY <2>2, Outcomes DEF r
<1>5. QED
  BY <1>1, <1>2, <1>3, <1>4

\* Each prefix of a walk is sound, given that the walks it needs are.
LEMMA StepsSound ==
  ASSUME NEW F, NEW m \in DOMAIN Files, NEW name \in DOMAIN Files[m].actions, NEW held \in Sets,
         name \in Names, Sound(F, m, held \cup {name}),
         NEW n, n = Len(Files[m].actions[name]), NEW w, Stepwise(F, m, name, held, n, w)
  PROVE  \A i \in 0 .. n :
           w[i] \in Walks(m) /\ (w[i].outcome = "ok" => w[i].stack = held \cup {name})
<1> DEFINE list == Files[m].actions[name]
           top == held \cup {name}
           Is(i) == w[i] \in Walks(m) /\ (w[i].outcome = "ok" => w[i].stack = top)
           bad == {i \in 0 .. n : ~Is(i)}
<1>1. SUFFICES ASSUME bad # {} PROVE FALSE
  OBVIOUS
<1>2. n \in Nat /\ \A i \in 1 .. n : list[i] \in Elements(m) /\ (list[i].type = "action" => list[i].name \in Names)
  BY ActionList
<1>3. top \in Sets
  BY Stacks
<1>4. w[0] = Result("ok", top) /\ \A i \in 1 .. n : w[i] = Extend(F, m, w[i - 1], list[i])
  BY DEF Stepwise
<1> HIDE DEF list, top
<1>5. bad \in SUBSET Nat
  BY <1>2
<1>6. PICK k \in bad : \A j \in bad : k <= j
  BY <1>1, <1>5, MinIsLeast
<1>7. k \in 0 .. n /\ ~Is(k)
  BY <1>6
<1>8. CASE k = 0
  BY <1>3, <1>4, <1>7, <1>8, ResultWalks
<1>9. CASE k # 0
  <2>1. k \in 1 .. n /\ k - 1 \in 0 .. n /\ ~(k <= k - 1)
    BY <1>2, <1>7, <1>9
  <2>2. Is(k - 1)
    BY <1>6, <2>1
  <2>3. w[k] = Extend(F, m, w[k - 1], list[k])
    BY <1>4, <2>1
  <2>4. Sound(F, m, top)
    BY DEF top
  <2>5. Is(k)
    BY <1>2, <2>1, <2>2, <2>3, <2>4, ExtendSound
  <2>6. QED
    BY <1>7, <2>5
<1>10. QED
  BY <1>8, <1>9

\* Each prefix is sound.
SoundUpTo(m, name, held, n, w) ==
  \A i \in 0 .. n : w[i] \in Walks(m) /\ (w[i].outcome = "ok" => w[i].stack = held \cup {name})

\* A walk has steps that are sound, given that the walks it needs are.
LEMMA WalkSound ==
  ASSUME NEW F, NEW m \in DOMAIN Files, NEW name \in DOMAIN Files[m].actions, NEW held \in Sets,
         name \in Names, Sound(F, m, held \cup {name}),
         NEW n, n = Len(Files[m].actions[name])
  PROVE  \E w : /\ Stepwise(F, m, name, held, n, w) /\ Walk(F, m, name, held) = w[n]
                /\ SoundUpTo(m, name, held, n, w)
<1>1. n \in Nat
  BY ActionList
<1>2. PICK w : Stepwise(F, m, name, held, n, w) /\ Walk(F, m, name, held) = w[n]
  BY <1>1, WalkIs
<1>3. SoundUpTo(m, name, held, n, w)
  BY <1>2, StepsSound DEF SoundUpTo
<1>4. QED
  BY <1>2, <1>3

\* One action's walk is sound where those of the actions in it are.
LEMMA BodySound ==
  ASSUME NEW F, NEW m \in DOMAIN Files, NEW name \in Names, NEW held \in Sets,
         name \notin held /\ name \in DOMAIN Files[m].actions => Sound(F, m, held \cup {name})
  PROVE  LET r == Body(F, m, name, held)
         IN r \in Walks(m) /\ (r.outcome = "ok" => r.stack = held)
<1> DEFINE r == Body(F, m, name, held)
           walk == Walk(F, m, name, held)
<1>1. CASE name \in held
  <2>1. r = Result(Aborted, held)
    BY <1>1 DEF Body
  <2> HIDE DEF r
  <2>2. QED
    BY <2>1, ResultWalks, Outcomes DEF r
<1>2. CASE name \notin held /\ name \notin DOMAIN Files[m].actions
  <2> DEFINE top == held \cup {name}
  <2>1. r = Result(Threw, top)
    BY <1>2 DEF Body
  <2>2. top \in Sets
    BY Stacks
  <2> HIDE DEF r, top
  <2>3. r \in Walks(m) /\ r.outcome = Threw
    BY <2>1, <2>2, ResultWalks
  <2>4. QED
    BY <2>3, Outcomes DEF r
<1>3. CASE name \notin held /\ name \in DOMAIN Files[m].actions
  <2> DEFINE n == Len(Files[m].actions[name])
  <2>1. r = IF walk.outcome = "ok" THEN [walk EXCEPT !.stack = @ \ {name}] ELSE walk
    BY <1>3 DEF Body
  <2>2. n \in Nat /\ n \in 0 .. n
    BY <1>3, ActionList
  <2>3. /\ Sound(F, m, held \cup {name}) /\ name \in DOMAIN Files[m].actions
        /\ n = Len(Files[m].actions[name])
    BY <1>3
  <2>4. walk \in Walks(m) /\ (walk.outcome = "ok" => walk.stack = held \cup {name})
    <3> HIDE DEF n
    <3>1. PICK w : walk = w[n] /\ SoundUpTo(m, name, held, n, w)
      BY <2>3, WalkSound
    <3>2. QED
      BY <2>2, <3>1, Zenon DEF SoundUpTo
  <2>5. (held \cup {name}) \ {name} = held
    BY <1>3
  <2> HIDE DEF r, walk
  <2>6. CASE walk.outcome = "ok"
    <3>1. r = [walk EXCEPT !.stack = held]
      BY <2>1, <2>4, <2>5, <2>6
    <3>2. r \in Walks(m) /\ r.stack = held
      BY <2>4, <3>1 DEF Walks
    <3>3. QED
      BY <3>2 DEF r
  <2>7. CASE walk.outcome # "ok"
    BY <2>1, <2>4, <2>7 DEF r
  <2>8. QED
    BY <2>6, <2>7
<1>4. QED
  BY <1>1, <1>2, <1>3

\* F and G have the same walks for a stack.
Agree(F, G, m, held) == \A x \in Names : F[<<m, x, held>>] = G[<<m, x, held>>]

\* The walk of an action depends on no walks but those within the action.
LEMMA BodyLocal ==
  ASSUME NEW F, NEW G, NEW m \in DOMAIN Files, NEW name \in Names, NEW held \in Sets,
         name \notin held /\ name \in DOMAIN Files[m].actions =>
           Sound(F, m, held \cup {name}) /\ Agree(F, G, m, held \cup {name})
  PROVE  Body(F, m, name, held) = Body(G, m, name, held)
<1>1. CASE name \in held \/ name \notin DOMAIN Files[m].actions
  BY <1>1 DEF Body
<1>2. CASE name \notin held /\ name \in DOMAIN Files[m].actions
  <2> DEFINE list == Files[m].actions[name]
             n == Len(list)
             top == held \cup {name}
  <2>1. n \in Nat /\ \A i \in 1 .. n : list[i].type = "action" => list[i].name \in Names
    BY <1>2, ActionList
  <2>2. /\ Sound(F, m, held \cup {name}) /\ name \in DOMAIN Files[m].actions
        /\ n = Len(Files[m].actions[name])
    BY <1>2
  <2>3. PICK v : /\ Stepwise(F, m, name, held, n, v) /\ Walk(F, m, name, held) = v[n]
                 /\ SoundUpTo(m, name, held, n, v)
    <3> HIDE DEF n
    <3>1. QED
      BY <2>2, WalkSound
  <2>4. PICK w : Stepwise(G, m, name, held, n, w) /\ Walk(G, m, name, held) = w[n]
    BY <2>1, WalkIs
  <2>5. /\ v[0] = w[0]
        /\ \A i \in 1 .. n : /\ v[i] = Extend(F, m, v[i - 1], list[i])
                            /\ w[i] = Extend(G, m, w[i - 1], list[i])
    BY <2>3, <2>4 DEF Stepwise
  <2>6. \A x \in Names : F[<<m, x, top>>] = G[<<m, x, top>>]
    BY <1>2 DEF Agree
  <2> HIDE DEF n, list, top
  <2> DEFINE bad == {i \in 0 .. n : v[i] # w[i]}
  <2>7. ASSUME bad # {} PROVE FALSE
    <3>1. bad \in SUBSET Nat
      BY <2>1
    <3>2. PICK k \in bad : \A j \in bad : k <= j
      BY <2>7, <3>1, MinIsLeast
    <3>3. k \in 0 .. n /\ v[k] # w[k]
      BY <3>2
    <3>4. k # 0
      BY <2>5, <3>3
    <3>5. k \in 1 .. n /\ k - 1 \in 0 .. n /\ ~(k <= k - 1)
      BY <2>1, <3>3, <3>4
    <3>6. v[k - 1] = w[k - 1]
      BY <3>2, <3>5
    <3> DEFINE e == list[k]
               walk == v[k - 1]
    <3>7. v[k] = Extend(F, m, walk, e) /\ w[k] = Extend(G, m, walk, e)
      BY <2>5, <3>5, <3>6
    <3>8. walk.outcome = "ok" => walk.stack = top
      BY <2>3, <3>5, Zenon DEF SoundUpTo, top
    <3>9. e.type = "action" => e.name \in Names
      BY <2>1, <3>5
    <3>10. walk.outcome = "ok" /\ e.type = "action" =>
             F[<<m, e.name, walk.stack>>] = G[<<m, e.name, walk.stack>>]
      BY <2>6, <3>8, <3>9
    <3> HIDE DEF e, walk
    <3>11. Extend(F, m, walk, e) = Extend(G, m, walk, e)
      BY <3>10 DEF Extend
    <3>12. QED
      BY <3>3, <3>7, <3>11
  <2>8. n \in 0 .. n
    BY <2>1
  <2>9. Walk(F, m, name, held) = Walk(G, m, name, held)
    BY <2>3, <2>4, <2>7, <2>8
  <2>10. QED
    BY <2>9 DEF Body
<1>3. QED
  BY <1>1, <1>2

--------------------------------------------------------------------------------
(* The recursion ends. *)

Height(held) == Cardinality(Actions \ held)

\* A name of an action that is put on the stack leaves fewer that are not.
LEMMA HeightFalls ==
  /\ \A held \in Sets : Height(held) \in Nat /\ Height(held) <= Cardinality(Actions)
  /\ \A held \in Sets, name \in Actions :
       name \notin held => Height(held \cup {name}) < Height(held)
<1>1. IsFiniteSet(Actions)
  BY RasDataAssumption
<1>2. ASSUME NEW held \in Sets
      PROVE  Height(held) \in Nat /\ Height(held) <= Cardinality(Actions)
  <2>1. Actions \ held \in SUBSET Actions
    OBVIOUS
  <2>2. QED
    BY <1>1, <2>1, FS_Subset, FS_CardinalityType DEF Height
<1>3. ASSUME NEW held \in Sets, NEW name \in Actions, name \notin held
      PROVE  Height(held \cup {name}) < Height(held)
  <2> DEFINE S == Actions \ held
  <2>1. IsFiniteSet(S) /\ name \in S
    BY <1>1, <1>3, FS_Subset
  <2>2. Actions \ (held \cup {name}) = S \ {name}
    OBVIOUS
  <2> HIDE DEF S
  <2>3. Cardinality(S \ {name}) = Cardinality(S) - 1 /\ Cardinality(S) \in Nat
    BY <2>1, FS_RemoveElement, FS_CardinalityType
  <2>4. Height(held \cup {name}) = Cardinality(S \ {name}) /\ Height(held) = Cardinality(S)
    BY <2>2, Zenon DEF Height, S
  <2>5. QED
    BY <2>3, <2>4
<1>4. QED
  BY <1>2, <1>3

\* F is right wherever fewer than k actions are off the stack.
RightBelow(F, k) ==
  \A m \in DOMAIN Files, name \in Names, held \in Sets :
    Height(held) < k => F[<<m, name, held>>] = Body(F, m, name, held)

\* A function that is right where fewer than k actions are off the stack is
\* sound there.
LEMMA SoundBelow ==
  ASSUME NEW F, NEW k \in Nat, RightBelow(F, k)
  PROVE  \A m \in DOMAIN Files, held \in Sets : Height(held) < k => Sound(F, m, held)
<1> DEFINE bad == {j \in 0 .. k - 1 : \E m \in DOMAIN Files, held \in Sets :
                     Height(held) = j /\ ~Sound(F, m, held)}
<1>1. ASSUME bad # {} PROVE FALSE
  <2>1. bad \in SUBSET Nat
    OBVIOUS
  <2>2. PICK j \in bad : \A i \in bad : j <= i
    BY <1>1, <2>1, MinIsLeast
  <2>3. PICK m \in DOMAIN Files, held \in Sets : Height(held) = j /\ ~Sound(F, m, held)
    BY <2>2
  <2>4. j \in Nat /\ j < k
    BY <2>2
  <2>5. ASSUME NEW name \in Names
        PROVE  LET r == F[<<m, name, held>>]
               IN r \in Walks(m) /\ (r.outcome = "ok" => r.stack = held)
    <3>1. F[<<m, name, held>>] = Body(F, m, name, held)
      BY <2>3, <2>4 DEF RightBelow
    <3>2. ASSUME name \notin held, name \in DOMAIN Files[m].actions
          PROVE  Sound(F, m, held \cup {name})
      <4>1. name \in Actions /\ held \cup {name} \in Sets
        BY <3>2, Stacks DEF Actions
      <4> DEFINE i == Height(held \cup {name})
      <4>2. i \in Nat /\ i < j
        BY <2>3, <3>2, <4>1, HeightFalls
      <4> HIDE DEF i
      <4>3. i \in 0 .. k - 1 /\ i \notin bad
        BY <2>2, <2>4, <4>2
      <4>4. QED
        BY <4>1, <4>3 DEF i
    <3>3. QED
      BY <3>1, <3>2, BodySound
  <2>6. QED
    BY <2>3, <2>5 DEF Sound
<1>2. SUFFICES ASSUME NEW m \in DOMAIN Files, NEW held \in Sets, Height(held) < k,
                      ~Sound(F, m, held)
               PROVE  FALSE
  OBVIOUS
<1>3. Height(held) \in 0 .. k - 1
  BY <1>2, HeightFalls
<1>4. Height(held) \in bad
  BY <1>2, <1>3
<1>5. QED
  BY <1>1, <1>4

\* One turn of the recursion, wherever fewer than k actions are off the stack.
Turn(F) == [x \in Walked |-> Body(F, x[1], x[2], x[3])]

\* What one turn yields.
LEMMA TurnIs ==
  ASSUME NEW F, NEW m \in DOMAIN Files, NEW name \in Names, NEW held \in Sets
  PROVE  Turn(F)[<<m, name, held>>] = Body(F, m, name, held)
<1> DEFINE x == <<m, name, held>>
<1>1. x \in Walked
  BY WalkedIs
<1>2. x[1] = m /\ x[2] = name /\ x[3] = held
  OBVIOUS
<1> HIDE DEF x
<1>3. Turn(F)[x] = Body(F, x[1], x[2], x[3])
  BY <1>1 DEF Turn
<1>4. QED
  BY <1>2, <1>3 DEF x

\* A function that is right below k is right below k + 1 after one turn.
LEMMA TurnRight ==
  ASSUME NEW F, NEW k \in Nat, RightBelow(F, k)
  PROVE  RightBelow(Turn(F), k + 1)
<1> DEFINE G == Turn(F)
<1>1. ASSUME NEW m \in DOMAIN Files, NEW name \in Names, NEW held \in Sets, Height(held) < k + 1
      PROVE  G[<<m, name, held>>] = Body(G, m, name, held)
  <2>1. G[<<m, name, held>>] = Body(F, m, name, held)
    BY TurnIs
  <2> HIDE DEF G
  <2>2. ASSUME name \notin held, name \in DOMAIN Files[m].actions
        PROVE  Sound(F, m, held \cup {name}) /\ Agree(F, G, m, held \cup {name})
    <3> DEFINE top == held \cup {name}
    <3>1. name \in Actions /\ top \in Sets
      BY <2>2, Stacks DEF Actions
    <3>2. Height(top) < k
      BY <1>1, <2>2, <3>1, HeightFalls
    <3> HIDE DEF top
    <3>3. Sound(F, m, top)
      BY <3>1, <3>2, SoundBelow
    <3>4. ASSUME NEW x \in Names PROVE F[<<m, x, top>>] = G[<<m, x, top>>]
      <4>1. F[<<m, x, top>>] = Body(F, m, x, top)
        BY <3>1, <3>2 DEF RightBelow
      <4>2. G[<<m, x, top>>] = Body(F, m, x, top)
        BY <3>1, TurnIs DEF G
      <4>3. QED
        BY <4>1, <4>2
    <3>5. QED
      BY <3>3, <3>4 DEF Agree, top
  <2>3. Body(F, m, name, held) = Body(G, m, name, held)
    BY <2>2, BodyLocal
  <2>4. QED
    BY <2>1, <2>3
<1>2. QED
  BY <1>1 DEF RightBelow

\* For every number there is a function that is right below it.
LEMMA RightExists == \A k \in Nat : \E F : RightBelow(F, k)
<1> DEFINE bad == {k \in Nat : ~\E F : RightBelow(F, k)}
<1>1. SUFFICES ASSUME bad # {} PROVE FALSE
  OBVIOUS
<1>2. bad \in SUBSET Nat
  OBVIOUS
<1>3. PICK k \in bad : \A j \in bad : k <= j
  BY <1>1, <1>2, MinIsLeast
<1>4. k \in Nat /\ ~\E F : RightBelow(F, k)
  BY <1>3
<1>5. CASE k = 0
  <2>1. \A held \in Sets : ~(Height(held) < 0)
    BY HeightFalls
  <2>2. RightBelow(<<>>, 0)
    BY <2>1 DEF RightBelow
  <2>3. QED
    BY <1>4, <1>5, <2>2
<1>6. CASE k # 0
  <2>1. k - 1 \in Nat /\ ~(k <= k - 1) /\ (k - 1) + 1 = k
    BY <1>4, <1>6
  <2>2. PICK F : RightBelow(F, k - 1)
    BY <1>3, <2>1
  <2>3. RightBelow(Turn(F), (k - 1) + 1)
    BY <2>1, <2>2, TurnRight
  <2>4. QED
    BY <1>4, <2>1, <2>3
<1>7. QED
  BY <1>5, <1>6

\* There are no more actions than can be off the stack.
LEMMA AllBelow ==
  \E k \in Nat : \A held \in Sets : Height(held) < k
<1>1. Cardinality(Actions) \in Nat
  BY RasDataAssumption, FS_CardinalityType
<1>2. \A held \in Sets : Height(held) < Cardinality(Actions) + 1
  BY <1>1, HeightFalls
<1>3. QED
  BY <1>1, <1>2

\* What ParseAction yields: the recursion has a solution, for files however
\* cyclic, because what is on the stack is not walked again.
THEOREM ParseActionIs ==
  \A m \in DOMAIN Files, name \in Names, held \in Sets :
    ParseAction[<<m, name, held>>] = Body(ParseAction, m, name, held)
<1>1. PICK k \in Nat : \A held \in Sets : Height(held) < k
  BY AllBelow
<1>2. PICK F : RightBelow(F, k)
  BY RightExists
<1> DEFINE G == Turn(F)
<1>3. \A held \in Sets : Height(held) < k + 1
  BY <1>1, HeightFalls
<1>4. \A m \in DOMAIN Files, name \in Names, held \in Sets :
        G[<<m, name, held>>] = Body(G, m, name, held)
  BY <1>2, <1>3, TurnRight DEF RightBelow
<1>5. \A x \in Walked : Body(F, x[1], x[2], x[3]) = Body(G, x[1], x[2], x[3])
  <2>1. SUFFICES ASSUME NEW x \in Walked PROVE Body(F, x[1], x[2], x[3]) = Body(G, x[1], x[2], x[3])
    OBVIOUS
  <2>2. x[1] \in DOMAIN Files /\ x[2] \in Names /\ x[3] \in Sets
    BY WalkedIs
  <2>3. G[<<x[1], x[2], x[3]>>] = Body(F, x[1], x[2], x[3])
    BY <2>2, TurnIs
  <2> HIDE DEF G
  <2>4. G[<<x[1], x[2], x[3]>>] = Body(G, x[1], x[2], x[3])
    BY <1>4, <2>2
  <2>5. QED
    BY <2>3, <2>4
<1>6. G = [x \in Walked |-> Body(G, x[1], x[2], x[3])]
  <2> DEFINE H == [x \in Walked |-> Body(G, x[1], x[2], x[3])]
  <2>1. G = [x \in Walked |-> Body(F, x[1], x[2], x[3])]
    BY DEF Turn
  <2> HIDE DEF G
  <2>2. G = H
    BY <1>5, <2>1
  <2>3. QED
    BY <2>2
<1> HIDE DEF G
<1>7. ParseAction = [x \in Walked |-> Body(ParseAction, x[1], x[2], x[3])]
  BY <1>6, Zenon DEF ParseAction, Walked, Body, Sets
<1>8. ParseAction = Turn(ParseAction)
  BY <1>7, Zenon DEF Turn
<1>9. QED
  BY <1>8, TurnIs

\* Every walk is sound.
LEMMA WalksSound ==
  ASSUME NEW m \in DOMAIN Files, NEW held \in Sets
  PROVE  Sound(ParseAction, m, held)
<1>1. PICK k \in Nat : \A s \in Sets : Height(s) < k
  BY AllBelow
<1>2. RightBelow(ParseAction, k)
  BY ParseActionIs DEF RightBelow
<1>3. QED
  BY <1>1, <1>2, SoundBelow

\* Induction over the stacks, from the highest down.
LEMMA FromTheTop ==
  ASSUME NEW Holds \in SUBSET Sets,
         \A held \in Sets :
           (\A name \in Actions : name \notin held => held \cup {name} \in Holds) => held \in Holds
  PROVE  Holds = Sets
<1> DEFINE bad == {k \in Nat : \E held \in Sets : Height(held) = k /\ held \notin Holds}
<1>1. ASSUME bad # {} PROVE FALSE
  <2>1. bad \in SUBSET Nat
    OBVIOUS
  <2>2. PICK k \in bad : \A j \in bad : k <= j
    BY <1>1, <2>1, MinIsLeast
  <2>3. PICK held \in Sets : Height(held) = k /\ held \notin Holds
    BY <2>2
  <2>4. ASSUME NEW name \in Actions, name \notin held PROVE held \cup {name} \in Holds
    <3> DEFINE top == held \cup {name}
               i == Height(top)
    <3>1. top \in Sets
      <4>1. name \in Names
        BY CalledNames
      <4>2. QED
        BY <4>1, Stacks
    <3>2. i \in Nat /\ i < k
      BY <2>3, <2>4, <3>1, HeightFalls
    <3> HIDE DEF i
    <3>3. i \notin bad
      BY <2>2, <3>2
    <3>4. QED
      BY <3>1, <3>2, <3>3 DEF i
  <2>5. QED
    BY <2>3, <2>4
<1>2. \A held \in Sets : held \in Holds
  BY <1>1, HeightFalls
<1>3. QED
  BY <1>2

--------------------------------------------------------------------------------
(* What is on the stack before a walk makes no difference to it but where it *)
(* aborts it.                                                                *)

\* The walk r does as the walk s, unless that one is aborted.
Like(r, s) == s.outcome # Aborted => r.outcome = s.outcome /\ r.leaves = s.leaves

\* One element more keeps two walks alike.
LEMMA ExtendLike ==
  ASSUME NEW m \in DOMAIN Files, NEW S, NEW T, NEW F,
         Sound(F, m, S), Sound(F, m, T),
         \A x \in Names : Like(F[<<m, x, S>>], F[<<m, x, T>>]),
         NEW v \in Walks(m), v.outcome = "ok" => v.stack = S,
         NEW w \in Walks(m), w.outcome = "ok" => w.stack = T,
         Like(v, w),
         NEW e, e.type = "action" => e.name \in Names
  PROVE  Like(Extend(F, m, v, e), Extend(F, m, w, e))
<1>1. CASE w.outcome # "ok"
  <2>1. Extend(F, m, w, e) = w
    BY <1>1 DEF Extend
  <2>2. w.outcome # Aborted => Extend(F, m, v, e) = v
    BY <1>1 DEF Extend, Like
  <2>3. QED
    BY <2>1, <2>2 DEF Like
<1>2. CASE w.outcome = "ok"
  <2>1. v.outcome = "ok" /\ v.leaves = w.leaves /\ v.stack = S /\ w.stack = T
    BY <1>2, Outcomes DEF Like
  <2>2. CASE e.type = "flag"
    BY <2>2 DEF Extend
  <2>3. CASE e.type = "action"
    <3> DEFINE a == F[<<m, e.name, S>>]
               b == F[<<m, e.name, T>>]
    <3>1. /\ Extend(F, m, v, e) = [a EXCEPT !.leaves = v.leaves \o @]
          /\ Extend(F, m, w, e) = [b EXCEPT !.leaves = w.leaves \o @]
      BY <1>2, <2>1, <2>3 DEF Extend
    <3>2. a \in Walks(m) /\ b \in Walks(m) /\ Like(a, b)
      BY <2>3 DEF Sound
    <3> HIDE DEF a, b
    <3> DEFINE va == v.leaves \o a.leaves
               wb == w.leaves \o b.leaves
    <3>3. b.outcome # Aborted => va = wb
      BY <2>1, <3>2 DEF Like
    <3> HIDE DEF va, wb
    <3>4. /\ Extend(F, m, v, e) = [a EXCEPT !.leaves = va]
          /\ Extend(F, m, w, e) = [b EXCEPT !.leaves = wb]
      BY <3>1 DEF va, wb
    <3>5. QED
      BY <3>2, <3>3, <3>4 DEF Like, Walks
  <2>4. CASE e.type \notin {"flag", "action"} /\ Defined(Files[m], e)
    <3> DEFINE leaf == Resolution(Files[m], e)
               vl == Append(v.leaves, leaf)
               wl == Append(w.leaves, leaf)
    <3>1. /\ Extend(F, m, v, e) = [v EXCEPT !.leaves = vl]
          /\ Extend(F, m, w, e) = [w EXCEPT !.leaves = wl]
      BY <1>2, <2>1, <2>4 DEF Extend
    <3>2. vl = wl
      BY <2>1
    <3> HIDE DEF vl, wl
    <3>3. QED
      BY <1>2, <2>1, <3>1, <3>2 DEF Like, Walks
  <2>5. CASE e.type \notin {"flag", "action"} /\ ~Defined(Files[m], e)
    <3>1. /\ Extend(F, m, v, e) = [v EXCEPT !.outcome = Threw]
          /\ Extend(F, m, w, e) = [w EXCEPT !.outcome = Threw]
      BY <1>2, <2>1, <2>5 DEF Extend
    <3>2. QED
      BY <2>1, <3>1 DEF Like, Walks
  <2>6. QED
    BY <2>2, <2>3, <2>4, <2>5
<1>3. QED
  BY <1>1, <1>2

\* The walks of F for the stack S do as those for T.
AllLike(F, m, S, T) == \A x \in Names : Like(F[<<m, x, S>>], F[<<m, x, T>>])

\* Two walks over the same action are alike at their ends.
LEMMA StepsLike ==
  ASSUME NEW m \in DOMAIN Files, NEW name \in DOMAIN Files[m].actions,
         NEW S \in Sets, NEW T \in Sets, NEW F,
         Sound(F, m, S \cup {name}), Sound(F, m, T \cup {name}),
         AllLike(F, m, S \cup {name}, T \cup {name}),
         NEW n, n = Len(Files[m].actions[name]),
         NEW v, Stepwise(F, m, name, S, n, v), SoundUpTo(m, name, S, n, v),
         NEW w, Stepwise(F, m, name, T, n, w), SoundUpTo(m, name, T, n, w)
  PROVE  Like(v[n], w[n])
<1> DEFINE list == Files[m].actions[name]
           sTop == S \cup {name}
           tTop == T \cup {name}
           I == {i \in 0 .. n : Like(v[i], w[i])}
<1>1. n \in Nat /\ \A i \in 1 .. n : list[i].type = "action" => list[i].name \in Names
  BY ActionList
<1>2. /\ v[0] = Result("ok", sTop) /\ w[0] = Result("ok", tTop)
      /\ \A i \in 1 .. n : v[i] = Extend(F, m, v[i - 1], list[i]) /\ w[i] = Extend(F, m, w[i - 1], list[i])
  BY DEF Stepwise
<1>3. /\ \A i \in 0 .. n : v[i] \in Walks(m) /\ (v[i].outcome = "ok" => v[i].stack = sTop)
      /\ \A i \in 0 .. n : w[i] \in Walks(m) /\ (w[i].outcome = "ok" => w[i].stack = tTop)
  BY DEF SoundUpTo
<1>4. Sound(F, m, sTop) /\ Sound(F, m, tTop) /\ \A x \in Names : Like(F[<<m, x, sTop>>], F[<<m, x, tTop>>])
  BY DEF AllLike
<1> HIDE DEF list, sTop, tTop
<1>5. 0 \in I
  <2>1. Like(v[0], w[0])
    BY <1>2 DEF Like, Result
  <2>2. QED
    BY <1>1, <2>1
<1>6. ASSUME NEW i \in 1 .. n, i - 1 \in I PROVE i \in I
  <2>1. i - 1 \in 0 .. n /\ i \in 0 .. n /\ Like(v[i - 1], w[i - 1])
    BY <1>1, <1>6
  <2> DEFINE a == v[i - 1]
             b == w[i - 1]
             e == list[i]
  <2>2. a \in Walks(m) /\ b \in Walks(m) /\ (a.outcome = "ok" => a.stack = sTop)
          /\ (b.outcome = "ok" => b.stack = tTop) /\ Like(a, b)
    BY <1>3, <2>1
  <2>3. e.type = "action" => e.name \in Names
    BY <1>1
  <2>4. v[i] = Extend(F, m, a, e) /\ w[i] = Extend(F, m, b, e)
    BY <1>2
  <2> HIDE DEF a, b, e
  <2>5. Like(Extend(F, m, a, e), Extend(F, m, b, e))
    BY <1>4, <2>2, <2>3, ExtendLike
  <2>6. QED
    BY <2>1, <2>4, <2>5
<1>7. I \in SUBSET (0 .. n)
  OBVIOUS
<1> HIDE DEF I
<1>8. I = 0 .. n
  BY <1>1, <1>5, <1>6, <1>7, Upwards
<1>9. n \in I
  BY <1>1, <1>8
<1>10. QED
  BY <1>9 DEF I

\* What is on the stack before a walk makes no difference to it but to abort it.
LEMMA BodyLike ==
  ASSUME NEW m \in DOMAIN Files, NEW name \in Names, NEW S \in Sets, NEW T \in Sets, S \subseteq T,
         NEW F, Sound(F, m, S \cup {name}), Sound(F, m, T \cup {name}),
         name \in DOMAIN Files[m].actions /\ name \notin T =>
           AllLike(F, m, S \cup {name}, T \cup {name})
  PROVE  Like(Body(F, m, name, S), Body(F, m, name, T))
<1>1. CASE name \in T
  <2>1. Body(F, m, name, T) = Result(Aborted, T)
    BY <1>1 DEF Body
  <2>2. QED
    BY <2>1 DEF Like, Result
<1>2. CASE name \notin T /\ name \notin DOMAIN Files[m].actions
  <2>1. /\ Body(F, m, name, S) = Result(Threw, S \cup {name})
        /\ Body(F, m, name, T) = Result(Threw, T \cup {name})
    BY <1>2 DEF Body
  <2>2. QED
    BY <2>1 DEF Like, Result
<1>3. CASE name \notin T /\ name \in DOMAIN Files[m].actions
  <2> DEFINE n == Len(Files[m].actions[name])
             a == Walk(F, m, name, S)
             b == Walk(F, m, name, T)
  <2>1. n \in Nat /\ n \in 0 .. n
    BY <1>3, ActionList
  <2>2. name \in DOMAIN Files[m].actions /\ n = Len(Files[m].actions[name])
          /\ AllLike(F, m, S \cup {name}, T \cup {name})
    BY <1>3
  <2> HIDE DEF n
  <2>3. PICK v : Stepwise(F, m, name, S, n, v) /\ a = v[n] /\ SoundUpTo(m, name, S, n, v)
    BY <2>2, WalkSound
  <2>4. PICK w : Stepwise(F, m, name, T, n, w) /\ b = w[n] /\ SoundUpTo(m, name, T, n, w)
    BY <2>2, WalkSound
  <2>5. Like(v[n], w[n])
    BY <2>2, <2>3, <2>4, StepsLike
  <2>6. v[n] \in Walks(m) /\ w[n] \in Walks(m)
    BY <2>1, <2>3, <2>4, Zenon DEF SoundUpTo
  <2>7. Like(a, b) /\ a \in Walks(m) /\ b \in Walks(m)
    BY <2>3, <2>4, <2>5, <2>6
  <2>8. /\ Body(F, m, name, S) = IF a.outcome = "ok" THEN [a EXCEPT !.stack = @ \ {name}] ELSE a
        /\ Body(F, m, name, T) = IF b.outcome = "ok" THEN [b EXCEPT !.stack = @ \ {name}] ELSE b
    BY <1>3 DEF Body
  <2> HIDE DEF a, b
  <2>9. QED
    BY <2>7, <2>8 DEF Like, Walks
<1>4. QED
  BY <1>1, <1>2, <1>3

\* A walk for a shorter stack does as the walk for the longer one, unless that
\* one is aborted.
THEOREM ShorterStack ==
  \A m \in DOMAIN Files, S \in Sets, T \in Sets : S \subseteq T => AllLike(ParseAction, m, S, T)
<1> SUFFICES ASSUME NEW m \in DOMAIN Files
             PROVE  \A S \in Sets, T \in Sets : S \subseteq T => AllLike(ParseAction, m, S, T)
  OBVIOUS
<1> DEFINE Holds == {T \in Sets : \A S \in Sets : S \subseteq T => AllLike(ParseAction, m, S, T)}
<1>1. Holds \in SUBSET Sets
  OBVIOUS
<1>2. ASSUME NEW T \in Sets, \A name \in Actions : name \notin T => T \cup {name} \in Holds
      PROVE  T \in Holds
  <2>1. SUFFICES ASSUME NEW S \in Sets, S \subseteq T, NEW x \in Names
                 PROVE  Like(ParseAction[<<m, x, S>>], ParseAction[<<m, x, T>>])
    BY DEF AllLike
  <2>2. S \cup {x} \in Sets /\ T \cup {x} \in Sets
    BY Stacks
  <2>3. Sound(ParseAction, m, S \cup {x}) /\ Sound(ParseAction, m, T \cup {x})
    BY <2>2, WalksSound
  <2>4. ASSUME x \in DOMAIN Files[m].actions, x \notin T
        PROVE  AllLike(ParseAction, m, S \cup {x}, T \cup {x})
    <3>1. x \in Actions
      BY <2>4 DEF Actions
    <3>2. T \cup {x} \in Holds
      BY <1>2, <2>4, <3>1
    <3>3. S \cup {x} \subseteq T \cup {x}
      BY <2>1
    <3>4. QED
      BY <2>2, <3>2, <3>3
  <2>5. Like(Body(ParseAction, m, x, S), Body(ParseAction, m, x, T))
    BY <2>1, <2>3, <2>4, BodyLike
  <2>6. /\ ParseAction[<<m, x, S>>] = Body(ParseAction, m, x, S)
        /\ ParseAction[<<m, x, T>>] = Body(ParseAction, m, x, T)
    BY ParseActionIs
  <2>7. QED
    BY <2>5, <2>6
<1> HIDE DEF Holds
<1>3. Holds = Sets
  BY <1>1, <1>2, FromTheTop
<1>4. QED
  BY <1>3 DEF Holds

--------------------------------------------------------------------------------
(* What a walk leaves on the stack. *)

\* The actions that a file calls for and cannot resolve.
Broken(m) == {name \in Called(m) : ParseAction[<<m, name, {}>>].outcome = Threw}

\* A walk adds to the stack only actions that the file calls for, and only broken
\* ones if an exception ends it.
Leaving(m, held, r) ==
  /\ r.stack \subseteq held \cup Called(m)
  /\ r.outcome = Threw => r.stack \subseteq held \cup Broken(m)

AllLeaving(m, held) == \A x \in Called(m) : Leaving(m, held, ParseAction[<<m, x, held>>])

\* One element more leaves nothing else on the stack.
LEMMA ExtendLeaving ==
  ASSUME NEW m \in DOMAIN Files, NEW top \in Sets, AllLeaving(m, top),
         NEW walk \in Walks(m), walk.outcome = "ok" => walk.stack = top, Leaving(m, top, walk),
         NEW e \in Elements(m), e.type = "action" => e.name \in Called(m) \cap Names
  PROVE  Leaving(m, top, Extend(ParseAction, m, walk, e))
<1> DEFINE r == Extend(ParseAction, m, walk, e)
<1>1. CASE walk.outcome # "ok" \/ e.type = "flag"
  BY <1>1 DEF Extend
<1>2. CASE walk.outcome = "ok" /\ e.type = "action"
  <2> DEFINE sub == ParseAction[<<m, e.name, top>>]
  <2>1. Leaving(m, top, sub) /\ sub \in Walks(m)
    BY <1>2, WalksSound DEF AllLeaving, Sound
  <2>2. r = [sub EXCEPT !.leaves = walk.leaves \o @]
    BY <1>2 DEF Extend
  <2> HIDE DEF sub, r
  <2>3. r.stack = sub.stack /\ r.outcome = sub.outcome
    BY <2>1, <2>2 DEF Walks
  <2>4. QED
    BY <2>1, <2>3 DEF Leaving, r
<1>3. CASE walk.outcome = "ok" /\ e.type \notin {"flag", "action"}
  <2>1. r.stack = top
    BY <1>3 DEF Extend, Walks
  <2>2. QED
    BY <2>1 DEF Leaving
<1>4. QED
  BY <1>1, <1>2, <1>3

\* A walk over an action, at its end, leaves nothing else on the stack.
LEMMA StepsLeaving ==
  ASSUME NEW m \in DOMAIN Files, NEW name \in DOMAIN Files[m].actions, NEW held \in Sets,
         NEW top \in Sets, top = held \cup {name}, AllLeaving(m, top),
         NEW n, n = Len(Files[m].actions[name]),
         NEW w, Stepwise(ParseAction, m, name, held, n, w), SoundUpTo(m, name, held, n, w)
  PROVE  Leaving(m, top, w[n])
<1> DEFINE list == Files[m].actions[name]
           I == {i \in 0 .. n : Leaving(m, top, w[i])}
           Fits(e) == e \in Elements(m) /\ (e.type = "action" => e.name \in Called(m) \cap Names)
<1>1. n \in Nat /\ \A i \in 1 .. n : Fits(list[i])
  BY ActionList
<1>2. w[0] = Result("ok", top) /\ \A i \in 1 .. n : w[i] = Extend(ParseAction, m, w[i - 1], list[i])
  BY DEF Stepwise
<1>3. \A i \in 0 .. n : w[i] \in Walks(m) /\ (w[i].outcome = "ok" => w[i].stack = top)
  BY DEF SoundUpTo
<1> HIDE DEF list, Fits
<1>4. 0 \in I
  <2>1. Leaving(m, top, w[0])
    BY <1>2, Outcomes DEF Leaving, Result
  <2>2. QED
    BY <1>1, <2>1
<1>5. ASSUME NEW i \in 1 .. n, i - 1 \in I PROVE i \in I
  <2> DEFINE a == w[i - 1]
             e == list[i]
  <2>1. i - 1 \in 0 .. n /\ i \in 0 .. n /\ Leaving(m, top, a)
    BY <1>1, <1>5
  <2>2. a \in Walks(m) /\ (a.outcome = "ok" => a.stack = top)
    BY <1>3, <2>1
  <2>3. Fits(e)
    BY <1>1
  <2>4. w[i] = Extend(ParseAction, m, a, e)
    BY <1>2
  <2> HIDE DEF a, e
  <2>5. Leaving(m, top, Extend(ParseAction, m, a, e))
    BY <2>1, <2>2, <2>3, ExtendLeaving DEF Fits
  <2>6. QED
    BY <2>1, <2>4, <2>5
<1>6. I \in SUBSET (0 .. n)
  OBVIOUS
<1> HIDE DEF I
<1>7. I = 0 .. n
  BY <1>1, <1>4, <1>5, <1>6, Upwards
<1>8. n \in I
  BY <1>1, <1>7
<1>9. QED
  BY <1>8 DEF I

\* An action whose walk throws, from whatever stack, is broken.
LEMMA ThrowsBroken ==
  ASSUME NEW m \in DOMAIN Files, NEW name \in Called(m), NEW held \in Sets,
         ParseAction[<<m, name, held>>].outcome = Threw
  PROVE  name \in Broken(m)
<1>1. name \in Names /\ {} \in Sets
  BY CalledNames DEF Sets
<1>2. AllLike(ParseAction, m, {}, held)
  BY <1>1, ShorterStack
<1>3. Like(ParseAction[<<m, name, {}>>], ParseAction[<<m, name, held>>])
  BY <1>1, <1>2 DEF AllLike
<1>4. QED
  BY <1>3, Outcomes DEF Like, Broken

\* What a walk leaves behind, for every file and every stack.
LEMMA WalkLeaves ==
  \A m \in DOMAIN Files, held \in Sets : AllLeaving(m, held)
<1> SUFFICES ASSUME NEW m \in DOMAIN Files PROVE \A held \in Sets : AllLeaving(m, held)
  OBVIOUS
<1> DEFINE Holds == {held \in Sets : AllLeaving(m, held)}
<1>1. Holds \in SUBSET Sets
  OBVIOUS
<1>2. ASSUME NEW held \in Sets,
             \A name \in Actions : name \notin held => held \cup {name} \in Holds
      PROVE  held \in Holds
  <2>1. SUFFICES ASSUME NEW name \in Called(m)
                 PROVE  Leaving(m, held, ParseAction[<<m, name, held>>])
    BY DEF AllLeaving
  <2> DEFINE top == held \cup {name}
             r == ParseAction[<<m, name, held>>]
             walk == Walk(ParseAction, m, name, held)
  <2>2. name \in Names /\ top \in Sets
    BY CalledNames, Stacks
  <2>3. r = Body(ParseAction, m, name, held)
    BY <2>2, ParseActionIs
  <2>4. r.outcome = Threw => name \in Broken(m)
    BY ThrowsBroken
  <2> HIDE DEF r
  <2>5. CASE name \in held
    <3>1. r = Result(Aborted, held)
      BY <2>3, <2>5 DEF Body
    <3>2. Leaving(m, held, r)
      BY <3>1, Outcomes DEF Leaving, Result
    <3>3. QED
      BY <3>2 DEF r
  <2>6. CASE name \notin held /\ name \notin DOMAIN Files[m].actions
    <3>1. r = Result(Threw, top)
      BY <2>3, <2>6 DEF Body
    <3>2. Leaving(m, held, r)
      BY <2>4, <3>1 DEF Leaving, Result
    <3>3. QED
      BY <3>2 DEF r
  <2>7. CASE name \notin held /\ name \in DOMAIN Files[m].actions
    <3> DEFINE n == Len(Files[m].actions[name])
    <3>1. name \in Actions
      BY <2>7 DEF Actions
    <3>2. AllLeaving(m, top) /\ Sound(ParseAction, m, top)
      BY <1>2, <2>2, <2>7, <3>1, WalksSound
    <3>3. n \in Nat /\ n \in 0 .. n /\ n = Len(Files[m].actions[name])
      BY <2>7, ActionList
    <3> HIDE DEF n
    <3>4. PICK w : Stepwise(ParseAction, m, name, held, n, w) /\ walk = w[n] /\ SoundUpTo(m, name, held, n, w)
      BY <2>2, <2>7, <3>2, <3>3, WalkSound
    <3>5. Leaving(m, top, walk)
      BY <2>2, <2>7, <3>2, <3>3, <3>4, StepsLeaving
    <3>6. walk \in Walks(m)
      BY <3>3, <3>4, Zenon DEF SoundUpTo
    <3>7. r = IF walk.outcome = "ok" THEN [walk EXCEPT !.stack = @ \ {name}] ELSE walk
      BY <2>3, <2>7 DEF Body
    <3> HIDE DEF walk
    <3>8. r.outcome = walk.outcome /\ r.stack \subseteq walk.stack
      BY <3>6, <3>7 DEF Walks
    <3>9. Leaving(m, held, r)
      BY <2>4, <3>5, <3>8 DEF Leaving
    <3>10. QED
      BY <3>9 DEF r
  <2>8. QED
    BY <2>5, <2>6, <2>7
<1> HIDE DEF Holds
<1>3. Holds = Sets
  BY <1>1, <1>2, FromTheTop
<1>4. QED
  BY <1>3 DEF Holds

================================================================================
