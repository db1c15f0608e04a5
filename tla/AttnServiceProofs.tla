--------------------------- MODULE AttnServiceProofs ---------------------------
(***************************************************************************)
(* What AttnService, and so every implementation of it, guarantees about   *)
(* the order in which attentions are served.                               *)
(***************************************************************************)
EXTENDS AttnService, TLAPS

\* Priorities can be compared, and "nothing served" is not an attention.
WellRanked == Rank \in [Attention -> Nat] /\ NoAttn \notin Attention

\* Nothing has been served before the attentions are collected.
Fresh == \A t \in Thread : phase[t] = "collecting" => serving[t] = NoAttn

\* Without Fresh the facts about the order of service are not inductive:
\* Collect could make pending what outranks the attention served last.
OrderInv == TypeOK /\ Fresh /\ DownInPriority /\ TriedOnce

\* No thread is serving or choosing initially.
LEMMA OrderInit == Init => OrderInv
  BY DEF Init, OrderInv, TypeOK, Fresh, DownInPriority, TriedOnce,
         Phase, Asked

\* Every step of the service keeps the order.
LEMMA OrderStep == WellRanked /\ OrderInv /\ [Next]_vars => OrderInv'
<1> SUFFICES ASSUME WellRanked, OrderInv, [Next]_vars PROVE OrderInv'
  OBVIOUS
<1> USE DEF OrderInv, TypeOK, Fresh, DownInPriority, TriedOnce, Phase, Asked,
            Enter
<1>1. CASE UNCHANGED vars
  BY <1>1 DEF vars
<1>2. ASSUME NEW t \in Thread, Begin(t) PROVE OrderInv'
  BY <1>2 DEF Begin
<1>3. ASSUME NEW t \in Thread, Collect(t) PROVE OrderInv'
  BY <1>3 DEF Collect, WellRanked
<1>4. ASSUME NEW t \in Thread, Choose(t) PROVE OrderInv'
  BY <1>4 DEF Choose, WellRanked
<1>5. ASSUME NEW t \in Thread, GiveUp(t) PROVE OrderInv'
  BY <1>5 DEF GiveUp, WellRanked
<1>6. ASSUME NEW t \in Thread, AskDump(t) PROVE OrderInv'
  BY <1>6 DEF AskDump
<1>7. ASSUME NEW t \in Thread, AskTransition(t) PROVE OrderInv'
  BY <1>7 DEF AskTransition
<1>8. ASSUME NEW t \in Thread, Finish(t) PROVE OrderInv'
  BY <1>8 DEF Finish
<1>9. ASSUME NEW t \in Thread, Exhausted(t) PROVE OrderInv'
  BY <1>9 DEF Exhausted
<1>10. ASSUME NEW t \in Thread, Cancel(t) PROVE OrderInv'
  BY <1>10 DEF Cancel
<1>11. QED
  BY <1>1, <1>2, <1>3, <1>4, <1>5, <1>6, <1>7, <1>8, <1>9, <1>10 DEF Next

\* The attentions of one invocation are served in order of priority.
THEOREM ServedInOrder == ASSUME WellRanked PROVE Spec => []DownInPriority
<1>1. OrderInv => DownInPriority
  BY DEF OrderInv
<1>2. OrderInv /\ [Next]_vars => OrderInv'
  BY OrderStep
<1>3. QED
  BY <1>1, <1>2, OrderInit, PTL DEF Spec

\* No attention is served twice in one invocation.
THEOREM ServedOnce == ASSUME WellRanked PROVE Spec => []TriedOnce
<1>1. OrderInv => TriedOnce
  BY DEF OrderInv
<1>2. OrderInv /\ [Next]_vars => OrderInv'
  BY OrderStep
<1>3. QED
  BY <1>1, <1>2, OrderInit, PTL DEF Spec

================================================================================
