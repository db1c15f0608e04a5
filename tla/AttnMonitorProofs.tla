--------------------------- MODULE AttnMonitorProofs ---------------------------
(***************************************************************************)
(* What holds of the monitor of the attention line for every number of     *)
(* processors, kinds of attention, queued edges, faults and restarts: its  *)
(* types, that handlers do not outnumber edges, and that no attention that *)
(* pulled the line down is left behind but by a failed access.             *)
(***************************************************************************)
EXTENDS AttnMonitor, TLAPS

--------------------------------------------------------------------------------
(* Type correctness *)

\* The initial states are well typed.
LEMMA TypeInit == Init => TypeOK
<1> SUFFICES ASSUME Init PROVE TypeOK
  OBVIOUS
<1>1. /\ isr = {} /\ intr = {} /\ unseen = {} /\ edges = {} /\ todo = {}
      /\ phase = "off" /\ cont = "scan" /\ found = {} /\ requested = FALSE /\ lost = {}
  BY DEF Init
<1>2. /\ events \in 0 .. Fifo /\ faults \in 0 .. MaxFault
      /\ raised \in 0 .. MaxRaise /\ starts \in 0 .. MaxStart
      /\ falls \in Nat /\ runs \in Nat
  BY MonitorAssumption DEF Init
<1>3. QED
  BY <1>1, <1>2 DEF TypeOK, Phase

\* Every step keeps the types.
LEMMA TypeStep == TypeOK /\ [Next]_vars => TypeOK'
<1> SUFFICES ASSUME TypeOK, [Next]_vars PROVE TypeOK'
  OBVIOUS
<1> USE MonitorAssumption
    DEF TypeOK, Phase, hwVars, loopVars, lineVars, seenVars
<1>1. CASE UNCHANGED vars
  BY <1>1 DEF vars
<1>2. ASSUME NEW a \in Attention, Raise(a) PROVE TypeOK'
  BY <1>2 DEF Raise
<1>3. ASSUME NEW p \in Proc, HostClears(p) PROVE TypeOK'
  BY <1>3 DEF HostClears
<1>4. CASE Start
  BY <1>4 DEF Start, EnterHandler
<1>5. ASSUME NEW p \in Proc, Clear(p) \/ ClearUnreadable(p) PROVE TypeOK'
  BY <1>5 DEF Clear, ClearUnreadable
<1>6. ASSUME NEW p \in Proc, Scan(p) \/ ScanUnreadable(p) PROVE TypeOK'
  BY <1>6 DEF Scan, ScanUnreadable
<1>7. ASSUME NEW a \in Attention, Recover(a) PROVE TypeOK'
  BY <1>7 DEF Recover
<1>8. CASE Cleared
  BY <1>8 DEF Cleared
<1>9. CASE Scanned \/ Handle \/ HandlerReturns
  BY <1>9 DEF Scanned, Handle, HandlerReturns
<1>10. CASE RequestLine \/ MonitorEnds
  <2>1. CASE RequestLine
    BY <2>1 DEF RequestLine
  <2>2. CASE MonitorEnds
    <3>1. faults' \in 0 .. MaxFault /\ events' \in 0 .. Fifo
      BY <2>2 DEF MonitorEnds
    <3>2. QED
      BY <3>1, <2>2 DEF MonitorEnds
  <2>3. QED
    BY <1>10, <2>1, <2>2
<1>11. CASE ReadEvent \/ ReadEventFails
  BY <1>11 DEF ReadEvent, ReadEventFails
<1>12. CASE LineLow
  BY <1>12 DEF LineLow, EnterHandler
<1>13. CASE LineHigh \/ LineUnknown
  <2>1. faults' \in 0 .. MaxFault
    BY <1>13 DEF LineHigh, LineUnknown
  <2>2. CASE LineHigh
    BY <2>2 DEF LineHigh
  <2>3. CASE LineUnknown
    BY <2>1, <2>3 DEF LineUnknown
  <2>4. QED
    BY <1>13, <2>2, <2>3
<1>14. QED
  BY <1>1, <1>2, <1>3, <1>4, <1>5, <1>6, <1>7, <1>8, <1>9, <1>10, <1>11, <1>12,
     <1>13 DEF Next, Step

\* The variables of the monitor keep their types.
THEOREM TypeCorrect == Spec => []TypeOK
  BY TypeInit, TypeStep, PTL DEF Spec

--------------------------------------------------------------------------------
(* Handlers and edges *)

\* Every step keeps the number of runs within that of starts and edges.
LEMMA RunsStep == TypeOK /\ RunsBounded /\ [Next]_vars => RunsBounded'
<1> SUFFICES ASSUME TypeOK, RunsBounded, [Next]_vars PROVE RunsBounded'
  OBVIOUS
<1> USE MonitorAssumption
    DEF TypeOK, RunsBounded, hwVars, loopVars, lineVars, seenVars
<1>1. CASE UNCHANGED vars
  BY <1>1 DEF vars
<1>2. ASSUME NEW a \in Attention, Raise(a) PROVE RunsBounded'
  BY <1>2 DEF Raise
<1>3. ASSUME NEW p \in Proc, HostClears(p) PROVE RunsBounded'
  BY <1>3 DEF HostClears
<1>4. CASE Start
  <2>1. phase' \in {"clear", "scan"} /\ runs' = runs + 1
    BY <1>4 DEF Start, EnterHandler
  <2>2. QED
    BY <2>1, <1>4 DEF Start
<1>5. CASE LineLow
  <2>1. phase' \in {"clear", "scan"} /\ runs' = runs + 1
    BY <1>5 DEF LineLow, EnterHandler
  <2>2. QED
    BY <2>1, <1>5 DEF LineLow
<1>6. CASE Cleared
  <2>1. phase' \in {"scan", "return"}
    BY <1>6 DEF Cleared
  <2>2. QED
    BY <2>1, <1>6 DEF Cleared
<1>7. CASE ReadEvent \/ ReadEventFails
  BY <1>7 DEF ReadEvent, ReadEventFails
<1>8. CASE RequestLine \/ MonitorEnds
  BY <1>8 DEF RequestLine, MonitorEnds
<1>9. CASE LineHigh \/ LineUnknown
  BY <1>9 DEF LineHigh, LineUnknown
<1>10. CASE Scanned \/ Handle \/ HandlerReturns
  BY <1>10 DEF Scanned, Handle, HandlerReturns
<1>11. ASSUME NEW p \in Proc,
              Clear(p) \/ ClearUnreadable(p) \/ Scan(p) \/ ScanUnreadable(p)
       PROVE  RunsBounded'
  BY <1>11 DEF Clear, ClearUnreadable, Scan, ScanUnreadable
<1>12. ASSUME NEW a \in Attention, Recover(a) PROVE RunsBounded'
  BY <1>12 DEF Recover
<1>13. QED
  BY <1>1, <1>2, <1>3, <1>4, <1>5, <1>6, <1>7, <1>8, <1>9, <1>10, <1>11, <1>12
     DEF Next, Step

\* attnHandler() runs at most once for a start and once for a falling edge.
THEOREM RunsBoundedHolds == Spec => []RunsBounded
<1>1. Init => RunsBounded
  BY DEF Init, RunsBounded
<1>2. QED
  BY <1>1, TypeCorrect, RunsStep, PTL DEF Spec

--------------------------------------------------------------------------------
(* No attention is left behind.  One that is due is covered: by an edge in  *)
(* the queue, by an event that was read, or by a scan that has not come to  *)
(* its processor.                                                           *)

Covered(a) ==
  \/ events > 0
  \/ phase = "value"
  \/ phase = "clear" /\ cont = "scan"
  \/ phase = "scan" /\ a[1] \in todo

EdgeInv == phase \notin {"off", "ended"} => \A a \in Due : Covered(a)

\* An attention belongs to the processor it is raised by.
LEMMA Belongs ==
  ASSUME NEW a \in Attention
  PROVE  a[1] \in Proc /\ (\A p : a \in Of(p) <=> a[1] = p)
  BY DEF Attention, Of

\* Every step keeps the attentions covered.
LEMMA EdgeStep == TypeOK /\ EdgeInv /\ [Next]_vars => EdgeInv'
<1> SUFFICES ASSUME TypeOK, EdgeInv, [Next]_vars PROVE EdgeInv'
  OBVIOUS
<1> USE MonitorAssumption
    DEF TypeOK, EdgeInv, Covered, Due, hwVars, loopVars, lineVars, seenVars
<1>1. CASE UNCHANGED vars
  BY <1>1 DEF vars
<1>2. ASSUME NEW a \in Attention, Raise(a) PROVE EdgeInv'
  <2>1. CASE requested /\ ~Low /\ Low'
    <3>1. events' > 0
      BY <2>1, <1>2 DEF Raise
    <3>2. QED
      BY <3>1
  <2>2. CASE ~(requested /\ ~Low /\ Low')
    <3>1. /\ a \notin edges /\ unseen' = unseen \cup {a}
          /\ UNCHANGED <<events, edges, lost>>
      BY <2>2, <1>2 DEF Raise
    <3>2. Due' = Due
      BY <3>1
    <3>3. QED
      BY <3>1, <3>2, <1>2 DEF Raise
  <2>3. QED
    BY <2>1, <2>2
<1>3. ASSUME NEW p \in Proc, HostClears(p) PROVE EdgeInv'
  BY <1>3 DEF HostClears
<1>4. CASE Start \/ LineLow
  <2>1. todo' = Proc /\ cont' = "scan" /\ phase' \in {"clear", "scan"}
    BY <1>4 DEF Start, LineLow, EnterHandler
  <2>2. \A a \in Due' : a[1] \in Proc
    BY <1>4, Belongs DEF Start, LineLow
  <2>3. QED
    BY <2>1, <2>2
<1>5. ASSUME NEW p \in Proc, Clear(p) \/ ClearUnreadable(p) PROVE EdgeInv'
  BY <1>5 DEF Clear, ClearUnreadable
<1>6. CASE Cleared
  <2>1. CASE cont = "scan"
    <3>1. phase' = "scan" /\ todo' = Proc
      BY <2>1, <1>6 DEF Cleared
    <3>2. \A a \in Due' : a[1] \in Proc
      BY <1>6, Belongs DEF Cleared
    <3>3. QED
      BY <3>1, <3>2
  <2>2. CASE cont = "return"
    BY <2>2, <1>6 DEF Cleared
  <2>3. QED
    BY <2>1, <2>2
<1>7. ASSUME NEW p \in Proc, Scan(p) \/ ScanUnreadable(p) PROVE EdgeInv'
  <2> SUFFICES ASSUME NEW a \in Due' PROVE Covered(a)'
    OBVIOUS
  <2>1. a \in Due /\ a \in Attention /\ a \notin Of(p)
    BY <1>7 DEF Scan, ScanUnreadable
  <2>2. a[1] # p
    BY <2>1, Belongs
  <2>3. /\ UNCHANGED <<phase, events, cont>>
        /\ phase = "scan"
        /\ todo' = todo \ {p}
    BY <1>7 DEF Scan, ScanUnreadable
  <2>4. QED
    BY <2>1, <2>2, <2>3
<1>8. CASE Scanned
  BY <1>8 DEF Scanned
<1>9. CASE Handle
  BY <1>9 DEF Handle
<1>10. ASSUME NEW a \in Attention, Recover(a) PROVE EdgeInv'
  BY <1>10 DEF Recover
<1>11. CASE HandlerReturns
  BY <1>11 DEF HandlerReturns
<1>12. CASE RequestLine \/ MonitorEnds
  BY <1>12 DEF RequestLine, MonitorEnds
<1>13. CASE ReadEvent \/ ReadEventFails
  BY <1>13 DEF ReadEvent, ReadEventFails
<1>14. CASE LineHigh
  <2>1. Due' = {}
    BY <1>14 DEF LineHigh, Low
  <2>2. QED
    BY <2>1
<1>15. CASE LineUnknown
  BY <1>15 DEF LineUnknown
<1>16. QED
  BY <1>1, <1>2, <1>3, <1>4, <1>5, <1>6, <1>7, <1>8, <1>9, <1>10, <1>11, <1>12,
     <1>13, <1>14, <1>15 DEF Next, Step

\* While the monitor waits with no edge in the queue, every attention that pulled
\* the line down and is not masked was found, or passed over by a failed access.
THEOREM EdgeServedHolds == Spec => []EdgeServed
<1>1. Init => EdgeInv
  BY DEF Init, EdgeInv
<1>2. TypeOK /\ EdgeInv => EdgeServed
  BY DEF TypeOK, EdgeInv, EdgeServed, Covered
<1>3. QED
  BY <1>1, <1>2, TypeCorrect, EdgeStep, PTL DEF Spec

================================================================================
