--------------------------- MODULE AttnHandlerProofs ---------------------------
(***************************************************************************)
(* What holds of AttnHandler for every value of its constants: its type    *)
(* invariant, the safety properties about dumps and host transitions, and  *)
(* that it implements AttnService.                                         *)
(***************************************************************************)
EXTENDS AttnHandler, TLAPS

--------------------------------------------------------------------------------
(* Type correctness *)

\* Sending PELs or signals of the known kinds keeps the type of sent.
LEMMA SendType ==
  ASSUME sent \in [Thread -> SUBSET Sent], NEW t \in Thread,
         NEW kinds \in SUBSET Sent, Send(t, kinds)
  PROVE  sent' \in [Thread -> SUBSET Sent]
  BY DEF Send

\* The initial states are well typed.
LEMMA TypeInit == Init => TypeOK
  BY HandlerAssumption
     DEF Init, TypeOK, HwTypeOK, ControlTypeOK, AttentionTypeOK, EffectTypeOK,
         Label, DefaultConfig, SetFlagAll, AllFlags, Flag, NoTi, TiInfo, TiKind, DumpType, DumpState

\* Every step of the handler and of its environment keeps the types.
LEMMA TypeStep == TypeOK /\ [Next]_vars => TypeOK'
<1> SUFFICES ASSUME TypeOK, [Next]_vars PROVE TypeOK'
  OBVIOUS
<1> USE HandlerAssumption
    DEF TypeOK, At, Goto, hwVars, loopVars, tiVars, dumpVars
<1>0. ASSUME NEW type \in AttnType PROVE FirstLabel(type) \in Label
  BY DEF FirstLabel, Label, ServeLabel, AttnType
<1>1. CASE UNCHANGED vars
  BY <1>1 DEF HwTypeOK, ControlTypeOK, AttentionTypeOK, EffectTypeOK, vars
<1>2. ASSUME NEW p \in Proc, NEW s \in Signal, Raise(p, s) PROVE TypeOK'
  <2>1. HwTypeOK'
    BY <1>2 DEF Raise, HwTypeOK, Signal, AttnType
  <2>2. QED
    BY <2>1, <1>2 DEF Raise, ControlTypeOK, AttentionTypeOK, EffectTypeOK
<1>3. ASSUME NEW p \in Proc, HostClears(p) PROVE TypeOK'
  <2>1. HwTypeOK'
    BY <1>3 DEF HostClears, HwTypeOK, Signal, AttnType
  <2>2. QED
    BY <2>1, <1>3 DEF HostClears, ControlTypeOK, AttentionTypeOK, EffectTypeOK
<1>4. ASSUME NEW t \in Thread, NEW c \in Settings, SetConfig(t, c) PROVE TypeOK'
  <2>1. ControlTypeOK'
    BY <1>4 DEF SetConfig, ControlTypeOK, Label, ServeLabel, DumpLabel
  <2>2. QED
    BY <2>1, <1>4 DEF SetConfig, HwTypeOK, AttentionTypeOK, EffectTypeOK
<1>5. ASSUME NEW t \in Thread, Cancel(t) PROVE TypeOK'
  <2>1. ControlTypeOK'
    BY <1>5 DEF Cancel, ControlTypeOK, Label, ServeLabel, DumpLabel
  <2>2. QED
    BY <2>1, <1>5 DEF Cancel, HwTypeOK, AttentionTypeOK, EffectTypeOK
<1>6. ASSUME NEW t \in Thread, DumpCompletes(t) PROVE TypeOK'
  <2>1. EffectTypeOK'
    BY <1>6 DEF DumpCompletes, EffectTypeOK, DumpType, DumpState, Sent
  <2>2. QED
    BY <2>1, <1>6 DEF DumpCompletes, HwTypeOK, ControlTypeOK, AttentionTypeOK
<1>7. ASSUME NEW t \in Thread, Start(t) PROVE TypeOK'
  <2>1. ControlTypeOK'
    BY <1>7 DEF Start, ControlTypeOK, EnterLoop, CallClear, Label, ServeLabel,
         DumpLabel
  <2>2. AttentionTypeOK'
    BY <1>7 DEF Start, AttentionTypeOK, Attention, NoAttn, NoTi, TiInfo, TiKind
  <2>3. EffectTypeOK'
    BY <1>7 DEF Start, EffectTypeOK, DumpType, DumpState, Sent
  <2>4. QED
    BY <2>1, <2>2, <2>3, <1>7 DEF Start, HwTypeOK
<1>8. ASSUME NEW t \in Thread, NEW p \in Proc, ClearIntr(t, p) PROVE TypeOK'
  <2>1. HwTypeOK'
    BY <1>8 DEF ClearIntr, HwTypeOK, Signal, AttnType
  <2>2. ControlTypeOK'
    BY <1>8 DEF ClearIntr, ControlTypeOK, Label, ServeLabel, DumpLabel
  <2>3. QED
    BY <2>1, <2>2, <1>8 DEF ClearIntr, AttentionTypeOK, EffectTypeOK
<1>9. ASSUME NEW t \in Thread, ClearDone(t) PROVE TypeOK'
  <2>1. ControlTypeOK'
    BY <1>9 DEF ClearDone, ControlTypeOK, EnterLoop, Label, ServeLabel,
         DumpLabel
  <2>2. QED
    BY <2>1, <1>9 DEF ClearDone, HwTypeOK, AttentionTypeOK, EffectTypeOK
<1>10. ASSUME NEW t \in Thread, NEW p \in Proc, ScanProc(t, p) PROVE TypeOK'
  <2>1. ControlTypeOK'
    BY <1>10 DEF ScanProc, ControlTypeOK, Label, ServeLabel, DumpLabel
  <2>2. AttentionTypeOK'
    BY <1>10 DEF ScanProc, AttentionTypeOK, Attention, NoAttn, ActiveAttn
  <2>3. QED
    BY <2>1, <2>2, <1>10 DEF ScanProc, HwTypeOK, EffectTypeOK
<1>11. ASSUME NEW t \in Thread, NEW p \in Proc, ScanUnreadable(t, p)
      PROVE TypeOK'
  <2>1. ControlTypeOK'
    BY <1>11 DEF ScanUnreadable, ControlTypeOK, Label, ServeLabel, DumpLabel
  <2>2. EffectTypeOK'
    BY SendType, <1>11 DEF ScanUnreadable, EffectTypeOK, DumpType, DumpState,
         Sent
  <2>3. QED
    BY <2>1, <2>2, <1>11 DEF ScanUnreadable, HwTypeOK, AttentionTypeOK
<1>12. ASSUME NEW t \in Thread, ScanDone(t) PROVE TypeOK'
  <2>1. ControlTypeOK'
    BY <1>12 DEF ScanDone, ControlTypeOK, Label, ServeLabel, DumpLabel
  <2>2. QED
    BY <2>1, <1>12 DEF ScanDone, HwTypeOK, AttentionTypeOK, EffectTypeOK
<1>13. ASSUME NEW t \in Thread, Pick(t) PROVE TypeOK'
  <2>1. ControlTypeOK'
    <3>1. PICK a \in Front(attns[t]) : Goto(t, FirstLabel(a.type))
      BY <1>13 DEF Pick
    <3>2. a.type \in AttnType
      BY <3>1 DEF AttentionTypeOK, Front, Attention
    <3>3. FirstLabel(a.type) \in Label
      BY <1>0, <3>2
    <3>4. pc' \in [Thread -> Label]
      BY <3>1, <3>3 DEF ControlTypeOK
    <3>5. QED
      BY <1>13, <3>4 DEF ControlTypeOK, Pick
  <2>2. AttentionTypeOK'
    BY <1>13 DEF Pick, AttentionTypeOK, Attention, NoAttn, Front
  <2>3. QED
    BY <2>1, <2>2, <1>13 DEF Pick, HwTypeOK, EffectTypeOK
<1>14. ASSUME NEW t \in Thread, AllAttempted(t) PROVE TypeOK'
  <2>1. ControlTypeOK'
    BY <1>14 DEF AllAttempted, ControlTypeOK, Label, ServeLabel, DumpLabel
  <2>2. QED
    BY <2>1, <1>14 DEF AllAttempted, HwTypeOK, AttentionTypeOK, EffectTypeOK
<1>15. ASSUME NEW t \in Thread, VitalStart(t) PROVE TypeOK'
  <2>1. ControlTypeOK'
    BY <1>15 DEF VitalStart, ControlTypeOK, Handled, NotHandled, Label,
         ServeLabel, DumpLabel
  <2>2. AttentionTypeOK'
    BY <1>15 DEF VitalStart, AttentionTypeOK, Handled, NotHandled, Attention,
         NoAttn
  <2>3. QED
    BY <2>1, <2>2, <1>15 DEF VitalStart, HwTypeOK, EffectTypeOK
<1>16. ASSUME NEW t \in Thread, VitalCheck(t) PROVE TypeOK'
  <2>1. ControlTypeOK'
    BY <1>16 DEF VitalCheck, ControlTypeOK, Label, ServeLabel, DumpLabel
  <2>2. QED
    BY <2>1, <1>16 DEF VitalCheck, HwTypeOK, AttentionTypeOK, EffectTypeOK
<1>17. ASSUME NEW t \in Thread, VitalHreset(t) PROVE TypeOK'
  <2>1. HwTypeOK'
    BY <1>17 DEF VitalHreset, HwTypeOK, Signal, AttnType
  <2>2. ControlTypeOK'
    BY <1>17 DEF VitalHreset, ControlTypeOK, EnterLoop, CallClear, Label,
         ServeLabel, DumpLabel
  <2>3. QED
    BY <2>1, <2>2, <1>17 DEF VitalHreset, AttentionTypeOK, EffectTypeOK
<1>18. ASSUME NEW t \in Thread, NEW p \in Proc, VitalVerify(t, p) PROVE TypeOK'
  <2>1. ControlTypeOK'
    BY <1>18 DEF VitalVerify, ControlTypeOK, Label, ServeLabel, DumpLabel
  <2>2. QED
    BY <2>1, <1>18 DEF VitalVerify, HwTypeOK, AttentionTypeOK, EffectTypeOK
<1>19. ASSUME NEW t \in Thread, VitalRecovered(t) PROVE TypeOK'
  <2>1. ControlTypeOK'
    BY <1>19 DEF VitalRecovered, ControlTypeOK, Handled, Label, ServeLabel,
         DumpLabel
  <2>2. AttentionTypeOK'
    BY <1>19 DEF VitalRecovered, AttentionTypeOK, Handled, Attention, NoAttn
  <2>3. EffectTypeOK'
    BY SendType, <1>19 DEF VitalRecovered, EffectTypeOK, DumpType, DumpState,
         Sent
  <2>4. QED
    BY <2>1, <2>2, <2>3, <1>19 DEF VitalRecovered, HwTypeOK
<1>20. ASSUME NEW t \in Thread, VitalFailed(t) PROVE TypeOK'
  <2>1. ControlTypeOK'
    BY <1>20 DEF VitalFailed, ControlTypeOK, CallDump, Label, ServeLabel,
         DumpLabel
  <2>2. EffectTypeOK'
    BY SendType, <1>20 DEF VitalFailed, EffectTypeOK, CallDump, DumpType,
         DumpState, Sent
  <2>3. QED
    BY <2>1, <2>2, <1>20 DEF VitalFailed, HwTypeOK, AttentionTypeOK
<1>21. ASSUME NEW t \in Thread, CheckstopIgnored(t) PROVE TypeOK'
  <2>1. ControlTypeOK'
    BY <1>21 DEF CheckstopIgnored, ControlTypeOK, Handled, Label, ServeLabel,
         DumpLabel
  <2>2. AttentionTypeOK'
    BY <1>21 DEF CheckstopIgnored, AttentionTypeOK, Handled, Attention, NoAttn
  <2>3. QED
    BY <2>1, <2>2, <1>21 DEF CheckstopIgnored, HwTypeOK, EffectTypeOK
<1>22. ASSUME NEW t \in Thread, CheckstopNoLog(t) PROVE TypeOK'
  <2>1. ControlTypeOK'
    BY <1>22 DEF CheckstopNoLog, ControlTypeOK, NotHandled, Label, ServeLabel,
         DumpLabel
  <2>2. AttentionTypeOK'
    BY <1>22 DEF CheckstopNoLog, AttentionTypeOK, NotHandled, Attention, NoAttn
  <2>3. EffectTypeOK'
    BY SendType, <1>22 DEF CheckstopNoLog, EffectTypeOK, DumpType, DumpState,
         Sent
  <2>4. QED
    BY <2>1, <2>2, <2>3, <1>22 DEF CheckstopNoLog, HwTypeOK
<1>23. ASSUME NEW t \in Thread, CheckstopLogged(t) PROVE TypeOK'
  <2>1. ControlTypeOK'
    BY <1>23 DEF CheckstopLogged, ControlTypeOK, CallDump, Label, ServeLabel,
         DumpLabel
  <2>2. EffectTypeOK'
    BY SendType, <1>23 DEF CheckstopLogged, EffectTypeOK, CallDump, DumpType,
         DumpState, Sent
  <2>3. QED
    BY <2>1, <2>2, <1>23 DEF CheckstopLogged, HwTypeOK, AttentionTypeOK
<1>24. ASSUME NEW t \in Thread, GetTiInfo(t) PROVE TypeOK'
  <2>1. ControlTypeOK'
    BY <1>24 DEF GetTiInfo, ControlTypeOK, Label, ServeLabel, DumpLabel
  <2>2. AttentionTypeOK'
    <3>1. PICK i \in TiInfo : ti' = [ti EXCEPT ![t] = i]
      BY <1>24 DEF GetTiInfo, TiInfo, StaticTi, TiKind
    <3>2. ti' \in [Thread -> TiInfo]
      BY <3>1 DEF AttentionTypeOK
    <3>3. QED
      BY <1>24, <3>2 DEF AttentionTypeOK, GetTiInfo
  <2>3. EffectTypeOK'
    BY SendType, <1>24 DEF GetTiInfo, EffectTypeOK, DumpType, DumpState, Sent
  <2>4. QED
    BY <2>1, <2>2, <2>3, <1>24 DEF GetTiInfo, HwTypeOK
<1>25. ASSUME NEW t \in Thread, SpecialTi(t) PROVE TypeOK'
  <2>1. ControlTypeOK'
    BY <1>25 DEF SpecialTi, ControlTypeOK, Label, ServeLabel, DumpLabel
  <2>2. QED
    BY <2>1, <1>25 DEF SpecialTi, HwTypeOK, AttentionTypeOK, EffectTypeOK
<1>26. ASSUME NEW t \in Thread, SpecialBp(t) PROVE TypeOK'
  <2>1. ControlTypeOK'
    BY <1>26 DEF SpecialBp, ControlTypeOK, Handled, NotHandled, Label,
         ServeLabel, DumpLabel
  <2>2. AttentionTypeOK'
    BY <1>26 DEF SpecialBp, AttentionTypeOK, Handled, NotHandled, Attention,
         NoAttn
  <2>3. EffectTypeOK'
    BY SendType, <1>26 DEF SpecialBp, EffectTypeOK, DumpType, DumpState, Sent
  <2>4. QED
    BY <2>1, <2>2, <2>3, <1>26 DEF SpecialBp, HwTypeOK
<1>27. ASSUME NEW t \in Thread, SpecialIgnored(t) PROVE TypeOK'
  <2>1. ControlTypeOK'
    BY <1>27 DEF SpecialIgnored, ControlTypeOK, Handled, Label, ServeLabel,
         DumpLabel
  <2>2. AttentionTypeOK'
    BY <1>27 DEF SpecialIgnored, AttentionTypeOK, Handled, Attention, NoAttn
  <2>3. QED
    BY <2>1, <2>2, <1>27 DEF SpecialIgnored, HwTypeOK, EffectTypeOK
<1>28. ASSUME NEW t \in Thread, TiRecoverables(t) PROVE TypeOK'
  <2>1. ControlTypeOK'
    BY <1>28 DEF TiRecoverables, ControlTypeOK, Label, ServeLabel, DumpLabel
  <2>2. AttentionTypeOK'
    BY <1>28 DEF TiRecoverables, AttentionTypeOK, Attention, NoAttn
  <2>3. EffectTypeOK'
    BY SendType, <1>28 DEF TiRecoverables, EffectTypeOK, DumpType, DumpState,
         Sent
  <2>4. QED
    BY <2>1, <2>2, <2>3, <1>28 DEF TiRecoverables, HwTypeOK
<1>29. ASSUME NEW t \in Thread, TiNoPel(t) PROVE TypeOK'
  <2>1. ControlTypeOK'
    BY <1>29 DEF TiNoPel, ControlTypeOK, CallDump, Label, ServeLabel, DumpLabel
  <2>2. EffectTypeOK'
    BY <1>29 DEF TiNoPel, EffectTypeOK, CallDump, DumpType, DumpState, Sent
  <2>3. QED
    BY <2>1, <2>2, <1>29 DEF TiNoPel, HwTypeOK, AttentionTypeOK
<1>30. ASSUME NEW t \in Thread, TiPelFailed(t) PROVE TypeOK'
  <2>1. ControlTypeOK'
    BY <1>30 DEF TiPelFailed, ControlTypeOK, AfterTi, Label, ServeLabel,
         DumpLabel
  <2>2. EffectTypeOK'
    BY SendType, <1>30 DEF TiPelFailed, EffectTypeOK, DumpType, DumpState, Sent
  <2>3. QED
    BY <2>1, <2>2, <1>30 DEF TiPelFailed, HwTypeOK, AttentionTypeOK
<1>31. ASSUME NEW t \in Thread, TiPelCreated(t) PROVE TypeOK'
  <2>1. ControlTypeOK'
    BY <1>31 DEF TiPelCreated, ControlTypeOK, CallDump, AfterTi, Label,
         ServeLabel, DumpLabel
  <2>2. EffectTypeOK'
    BY SendType, <1>31 DEF TiPelCreated, EffectTypeOK, CallDump, DumpType,
         DumpState, Sent
  <2>3. QED
    BY <2>1, <2>2, <1>31 DEF TiPelCreated, HwTypeOK, AttentionTypeOK
<1>32. ASSUME NEW t \in Thread, DumpRequest(t) PROVE TypeOK'
  <2>1. HwTypeOK'
    BY <1>32 DEF DumpRequest, HwTypeOK, SetWatchdog, Signal, AttnType
  <2>2. ControlTypeOK'
    BY <1>32 DEF DumpRequest, ControlTypeOK, Label, ServeLabel, DumpLabel
  <2>3. QED
    BY <2>1, <2>2, <1>32 DEF DumpRequest, AttentionTypeOK, EffectTypeOK
<1>33. ASSUME NEW t \in Thread, DumpCreate(t) PROVE TypeOK'
  <2>1. ControlTypeOK'
    BY <1>33 DEF DumpCreate, ControlTypeOK, Label, ServeLabel, DumpLabel
  <2>2. EffectTypeOK'
    BY <1>33 DEF DumpCreate, EffectTypeOK, DumpType, DumpState, Sent
  <2>3. QED
    BY <2>1, <2>2, <1>33 DEF DumpCreate, HwTypeOK, AttentionTypeOK
<1>34. ASSUME NEW t \in Thread, DumpMatch(t) PROVE TypeOK'
  <2>1. ControlTypeOK'
    BY <1>34 DEF DumpMatch, ControlTypeOK, Label, ServeLabel, DumpLabel
  <2>2. EffectTypeOK'
    BY <1>34 DEF DumpMatch, EffectTypeOK, DumpType, DumpState, Sent
  <2>3. QED
    BY <2>1, <2>2, <1>34 DEF DumpMatch, HwTypeOK, AttentionTypeOK
<1>35. ASSUME NEW t \in Thread, DumpWait(t) PROVE TypeOK'
  <2>1. ControlTypeOK'
    BY <1>35 DEF DumpWait, ControlTypeOK, Label, ServeLabel, DumpLabel
  <2>2. EffectTypeOK'
    BY <1>35 DEF DumpWait, EffectTypeOK, DumpType, DumpState, Sent
  <2>3. QED
    BY <2>1, <2>2, <1>35 DEF DumpWait, HwTypeOK, AttentionTypeOK
<1>36. ASSUME NEW t \in Thread, DumpEnd(t) PROVE TypeOK'
  <2>1. HwTypeOK'
    BY <1>36 DEF DumpEnd, HwTypeOK, SetWatchdog, Signal, AttnType
  <2>2. ControlTypeOK'
    BY <1>36 DEF DumpEnd, ControlTypeOK, Label, ServeLabel, DumpLabel
  <2>3. QED
    BY <2>1, <2>2, <1>36 DEF DumpEnd, AttentionTypeOK, EffectTypeOK
<1>37. ASSUME NEW t \in Thread, Transition(t) PROVE TypeOK'
  <2>1. ControlTypeOK'
    BY <1>37 DEF Transition, ControlTypeOK, Handled, Label, ServeLabel,
         DumpLabel
  <2>2. AttentionTypeOK'
    BY <1>37 DEF Transition, AttentionTypeOK, Handled, Attention, NoAttn
  <2>3. EffectTypeOK'
    <3>1. Wanted(t) \subseteq Target
      BY DEF Wanted, Target
    <3>2. CASE UNCHANGED targets
      BY <1>37, <3>2 DEF EffectTypeOK, Transition
    <3>3. ASSUME NEW target \in Wanted(t),
                 targets' = [targets EXCEPT ![t] = Append(@, target)]
          PROVE  EffectTypeOK'
      <4>1. Append(targets[t], target) \in Seq(Target)
        BY <3>1 DEF EffectTypeOK
      <4>2. targets' \in [Thread -> Seq(Target)]
        BY <3>3, <4>1 DEF EffectTypeOK
      <4>3. QED
        BY <1>37, <4>2 DEF EffectTypeOK, Transition
    <3>4. QED
      BY <1>37, <3>2, <3>3 DEF Transition
  <2>4. QED
    BY <2>1, <2>2, <2>3, <1>37 DEF Transition, HwTypeOK
<1> QED
  BY <1>1, <1>2, <1>3, <1>4, <1>5, <1>6, <1>7, <1>8, <1>9, <1>10, <1>11, <1>12,
       <1>13, <1>14, <1>15, <1>16, <1>17, <1>18, <1>19, <1>20, <1>21, <1>22,
       <1>23, <1>24, <1>25, <1>26, <1>27, <1>28, <1>29, <1>30, <1>31, <1>32,
       <1>33, <1>34, <1>35, <1>36, <1>37 DEF Next, Environment, Step

\* Every variable of the model has its type in every reachable state: the
\* handler is never at an unknown control point, with an unknown dump state
\* or PEL.
THEOREM TypeCorrect == Spec => []TypeOK
<1>1. Init => TypeOK
  BY TypeInit
<1>2. TypeOK /\ [Next]_vars => TypeOK'
  BY TypeStep
<1>3. QED
  BY <1>1, <1>2, PTL DEF Spec

--------------------------------------------------------------------------------
(* The inductive invariant behind the safety properties.  What a thread has *)
(* asked for so far is tied to its control point.                           *)

Before  == {"clear", "scan", "pick"} \cup ServeLabel
Leaving == DumpLabel \cup {"transition"}

\* Before a dump is called for, none is requested; before the transition no
\* target is started; and the two subroutines return to where they may.
OrderInv(t) ==
  /\ pc[t] \in Before => dump[t] = "none" /\ targets[t] = <<>>
  /\ pc[t] \in Leaving => targets[t] = <<>>
  /\ pc[t] \in {"dump", "dumpCall"} => dump[t] = "none"
  /\ pc[t] \in {"dumpMatch", "dumpWait"} => dump[t] # "none"
  /\ At(t, "clear") => cont[t] \in {"scan", "vVerify"}
  /\ pc[t] \in DumpLabel => cont[t] \in {"idle", "transition"}
  /\ Len(targets[t]) <= 1

\* A watched dump has a log from the moment it is called for.
LogInv(t) ==
  (dump[t] # "none" \/ pc[t] \in DumpLabel) /\ IsWatched(t)
    => log[t] \/ ti[t].kind = "eidDump"

\* Once the dump is behind the thread, it has ended or the wait was given up.
WaitInv(t) ==
  At(t, "dumpEnd") \/ At(t, "transition") \/ targets[t] # <<>>
    => (dump[t] \in {"inProgress", "missed"} => timedOut[t])

\* The record of the reason exists once the thread is bound for the transition.
Logged(t) ==
  \/ sent[t] \cap {"vitalError", "checkstop", "terminate"} # {}
  \/ cur[t].type = "Special" /\ ti[t].kind \notin PelKind

\* Bound for the transition, or past it.
Bound(t) ==
  \/ At(t, "transition")
  \/ pc[t] \in DumpLabel /\ cont[t] = "transition"
  \/ targets[t] # <<>>

RecordInv(t) ==
  /\ pc[t] \in {"sStart", "sDispatch", "ti", "tiPel"} => cur[t].type = "Special"
  /\ Bound(t) => Logged(t)

SafeInv ==
  \A t \in Thread : OrderInv(t) /\ LogInv(t) /\ WaitInv(t) /\ RecordInv(t)

\* Nobody has asked for anything yet in the initial states.
LEMMA SafeInit == Init => SafeInv
<1> SUFFICES ASSUME Init, NEW t \in Thread
             PROVE  OrderInv(t) /\ LogInv(t) /\ WaitInv(t) /\ RecordInv(t)
  BY DEF SafeInv
<1>1. /\ pc[t] = "idle" /\ cont[t] = "idle" /\ dump[t] = "none"
      /\ targets[t] = <<>>
  BY DEF Init
<1>2. QED
  BY <1>1 DEF OrderInv, LogInv, WaitInv, RecordInv, Bound, Before, Leaving,
              ServeLabel, DumpLabel, At

\* Every step keeps what a thread has asked for tied to its control point.
LEMMA SafeStep == TypeOK /\ SafeInv /\ [Next]_vars => SafeInv'
<1> SUFFICES ASSUME TypeOK, SafeInv, [Next]_vars PROVE SafeInv'
  OBVIOUS
<1> USE DEF TypeOK, ControlTypeOK, AttentionTypeOK, EffectTypeOK, SafeInv,
             OrderInv, LogInv, WaitInv, RecordInv, Bound, Logged, Before,
             Leaving, ServeLabel, DumpLabel, IsWatched, At, Goto, hwVars,
             loopVars, tiVars, dumpVars
<1>1. CASE UNCHANGED vars
  BY <1>1 DEF vars
<1>2. ASSUME NEW p \in Proc, NEW s \in Signal, Raise(p, s) PROVE SafeInv'
  BY <1>2 DEF Raise
<1>3. ASSUME NEW p \in Proc, HostClears(p) PROVE SafeInv'
  BY <1>3 DEF HostClears
<1>4. ASSUME NEW t \in Thread, NEW c \in Settings, SetConfig(t, c)
      PROVE SafeInv'
  BY <1>4 DEF SetConfig
<1>5. ASSUME NEW t \in Thread, Cancel(t) PROVE SafeInv'
  BY <1>5 DEF Cancel
<1>6. ASSUME NEW t \in Thread, DumpCompletes(t) PROVE SafeInv'
  BY <1>6 DEF DumpCompletes
<1>7. ASSUME NEW t \in Thread, Start(t) PROVE SafeInv'
  BY <1>7 DEF Start, EnterLoop, CallClear
<1>8. ASSUME NEW t \in Thread, NEW p \in Proc, ClearIntr(t, p) PROVE SafeInv'
  BY <1>8 DEF ClearIntr
<1>9. ASSUME NEW t \in Thread, ClearDone(t) PROVE SafeInv'
  BY <1>9 DEF ClearDone, EnterLoop
<1>10. ASSUME NEW t \in Thread, NEW p \in Proc, ScanProc(t, p) PROVE SafeInv'
  BY <1>10 DEF ScanProc
<1>11. ASSUME NEW t \in Thread, NEW p \in Proc, ScanUnreadable(t, p)
      PROVE SafeInv'
  BY <1>11 DEF ScanUnreadable, Send
<1>12. ASSUME NEW t \in Thread, ScanDone(t) PROVE SafeInv'
  BY <1>12 DEF ScanDone
<1>13. ASSUME NEW t \in Thread, Pick(t) PROVE SafeInv'
  <2>1. PICK a \in Front(attns[t]) : cur' = [cur EXCEPT ![t] = a]
                                    /\ Goto(t, FirstLabel(a.type))
    BY <1>13 DEF Pick
  <2>2. a.type \in AttnType
    BY <2>1 DEF Front, Attention
  <2>3. /\ FirstLabel(a.type) \in {"vStart", "cStart", "sStart"}
        /\ FirstLabel(a.type) = "sStart" => a.type = "Special"
    BY <2>2 DEF FirstLabel, AttnType
  <2>4. pc' = [pc EXCEPT ![t] = FirstLabel(a.type)] /\ cur'[t] = a
    BY <2>1
  <2> SUFFICES ASSUME NEW u \in Thread
              PROVE  (OrderInv(u) /\ LogInv(u) /\ WaitInv(u) /\ RecordInv(u))'
    OBVIOUS
  <2>5. CASE u # t
    BY <1>13, <2>1, <2>4, <2>5 DEF Pick
  <2>6. CASE u = t
    BY <1>13, <2>3, <2>4, <2>6 DEF Pick
  <2>7. QED
    BY <2>5, <2>6
<1>14. ASSUME NEW t \in Thread, AllAttempted(t) PROVE SafeInv'
  BY <1>14 DEF AllAttempted
<1>15. ASSUME NEW t \in Thread, VitalStart(t) PROVE SafeInv'
  BY <1>15 DEF VitalStart, Handled, NotHandled
<1>16. ASSUME NEW t \in Thread, VitalCheck(t) PROVE SafeInv'
  <2>1. CASE Goto(t, "vHreset")
    BY <1>16, <2>1 DEF VitalCheck
  <2>2. CASE Goto(t, "vFailed")
    BY <1>16, <2>2 DEF VitalCheck
  <2>3. QED
    BY <1>16, <2>1, <2>2 DEF VitalCheck
<1>17. ASSUME NEW t \in Thread, VitalHreset(t) PROVE SafeInv'
  BY <1>17 DEF VitalHreset, EnterLoop, CallClear
<1>18. ASSUME NEW t \in Thread, NEW p \in Proc, VitalVerify(t, p) PROVE SafeInv'
  BY <1>18 DEF VitalVerify
<1>19. ASSUME NEW t \in Thread, VitalRecovered(t) PROVE SafeInv'
  BY <1>19 DEF VitalRecovered, Send, Handled
<1>20. ASSUME NEW t \in Thread, VitalFailed(t) PROVE SafeInv'
  <2> SUFFICES ASSUME NEW u \in Thread
              PROVE  (OrderInv(u) /\ LogInv(u) /\ WaitInv(u) /\ RecordInv(u))'
    OBVIOUS
  <2>1. OrderInv(u)'
    BY <1>20 DEF VitalFailed, Send, CallDump
  <2>2. LogInv(u)'
    BY <1>20 DEF VitalFailed, Send, CallDump, Watched
  <2>3. WaitInv(u)'
    BY <1>20 DEF VitalFailed, Send, CallDump
  <2>4. RecordInv(u)'
    BY <1>20 DEF VitalFailed, Send, CallDump
  <2>5. QED
    BY <2>1, <2>2, <2>3, <2>4
<1>21. ASSUME NEW t \in Thread, CheckstopIgnored(t) PROVE SafeInv'
  BY <1>21 DEF CheckstopIgnored, Handled
<1>22. ASSUME NEW t \in Thread, CheckstopNoLog(t) PROVE SafeInv'
  BY <1>22 DEF CheckstopNoLog, Send, NotHandled
<1>23. ASSUME NEW t \in Thread, CheckstopLogged(t) PROVE SafeInv'
  <2> SUFFICES ASSUME NEW u \in Thread
               PROVE  (OrderInv(u) /\ LogInv(u) /\ WaitInv(u) /\ RecordInv(u))'
    BY DEF SafeInv
  <2>1. OrderInv(u)'
    BY <1>23 DEF CheckstopLogged, CallDump
  <2>2. LogInv(u)'
    BY <1>23 DEF CheckstopLogged, CallDump
  <2>3. WaitInv(u)'
    BY <1>23 DEF CheckstopLogged, CallDump
  <2>4. RecordInv(u)'
    BY <1>23 DEF CheckstopLogged, Send, CallDump
  <2>5. QED
    BY <2>1, <2>2, <2>3, <2>4
<1>24. ASSUME NEW t \in Thread, GetTiInfo(t) PROVE SafeInv'
  BY <1>24 DEF GetTiInfo, Send
<1>25. ASSUME NEW t \in Thread, SpecialTi(t) PROVE SafeInv'
  BY <1>25 DEF SpecialTi
<1>26. ASSUME NEW t \in Thread, SpecialBp(t) PROVE SafeInv'
  BY <1>26 DEF SpecialBp, Send, Handled, NotHandled
<1>27. ASSUME NEW t \in Thread, SpecialIgnored(t) PROVE SafeInv'
  BY <1>27 DEF SpecialIgnored, Handled
<1>28. ASSUME NEW t \in Thread, TiRecoverables(t) PROVE SafeInv'
  BY <1>28 DEF TiRecoverables, Send, PelKind
<1>29. ASSUME NEW t \in Thread, TiNoPel(t) PROVE SafeInv'
  BY <1>29 DEF TiNoPel, CallDump, PelKind
<1>30. ASSUME NEW t \in Thread, TiPelFailed(t) PROVE SafeInv'
  BY <1>30 DEF TiPelFailed, Send, AfterTi
<1>31. ASSUME NEW t \in Thread, TiPelCreated(t) PROVE SafeInv'
  <2> SUFFICES ASSUME NEW u \in Thread
              PROVE  (OrderInv(u) /\ LogInv(u) /\ WaitInv(u) /\ RecordInv(u))'
    OBVIOUS
  <2>1. OrderInv(u)'
    <3>1. CASE u # t
      BY <1>31, <3>1 DEF TiPelCreated, CallDump
    <3>2. CASE u = t
      <4>1. /\ pc'[t] \in {"dump", "transition"}
            /\ pc'[t] = "dump" => cont'[t] \in {"idle", "transition"}
        BY <1>31 DEF TiPelCreated, CallDump, AfterTi
      <4>2. dump'[t] = "none" /\ targets'[t] = <<>>
        BY <1>31 DEF TiPelCreated
      <4>3. QED
        BY <3>2, <4>1, <4>2
    <3>3. QED
      BY <3>1, <3>2
  <2>2. LogInv(u)'
    BY <1>31 DEF TiPelCreated, Send, CallDump, AfterTi
  <2>3. WaitInv(u)'
    BY <1>31 DEF TiPelCreated, Send, CallDump, AfterTi
  <2>4. RecordInv(u)'
    <3>1. CASE u # t
      BY <1>31, <3>1 DEF TiPelCreated, Send, CallDump
    <3>2. CASE u = t
      <4>1. "terminate" \in sent'[t]
        BY <1>31 DEF TiPelCreated, Send
      <4>2. Logged(t)'
        BY <4>1
      <4>3. pc'[t] \in {"transition", "dump"}
        BY <1>31 DEF TiPelCreated, CallDump
      <4>4. QED
        BY <3>2, <4>2, <4>3
    <3>3. QED
      BY <3>1, <3>2
  <2>5. QED
    BY <2>1, <2>2, <2>3, <2>4
<1>32. ASSUME NEW t \in Thread, DumpRequest(t) PROVE SafeInv'
  <2> SUFFICES ASSUME NEW u \in Thread
              PROVE  (OrderInv(u) /\ LogInv(u) /\ WaitInv(u) /\ RecordInv(u))'
    OBVIOUS
  <2>1. OrderInv(u)'
    BY <1>32 DEF DumpRequest
  <2>2. LogInv(u)'
    BY <1>32 DEF DumpRequest
  <2>3. WaitInv(u)'
    BY <1>32 DEF DumpRequest
  <2>4. RecordInv(u)'
    BY <1>32 DEF DumpRequest
  <2>5. QED
    BY <2>1, <2>2, <2>3, <2>4
<1>33. ASSUME NEW t \in Thread, DumpCreate(t) PROVE SafeInv'
  <2> SUFFICES ASSUME NEW u \in Thread
              PROVE  (OrderInv(u) /\ LogInv(u) /\ WaitInv(u) /\ RecordInv(u))'
    OBVIOUS
  <2>1. OrderInv(u)'
    BY <1>33 DEF DumpCreate
  <2>2. LogInv(u)'
    BY <1>33 DEF DumpCreate
  <2>3. WaitInv(u)'
    BY <1>33 DEF DumpCreate
  <2>4. RecordInv(u)'
    BY <1>33 DEF DumpCreate
  <2>5. QED
    BY <2>1, <2>2, <2>3, <2>4
<1>34. ASSUME NEW t \in Thread, DumpMatch(t) PROVE SafeInv'
  BY <1>34 DEF DumpMatch
<1>35. ASSUME NEW t \in Thread, DumpWait(t) PROVE SafeInv'
  BY <1>35 DEF DumpWait
<1>36. ASSUME NEW t \in Thread, DumpEnd(t) PROVE SafeInv'
  BY <1>36 DEF DumpEnd
<1>37. ASSUME NEW t \in Thread, Transition(t) PROVE SafeInv'
  BY <1>37 DEF Transition, Handled, Wanted
<1> QED
  BY <1>1, <1>2, <1>3, <1>4, <1>5, <1>6, <1>7, <1>8, <1>9, <1>10, <1>11, <1>12,
       <1>13, <1>14, <1>15, <1>16, <1>17, <1>18, <1>19, <1>20, <1>21, <1>22,
       <1>23, <1>24, <1>25, <1>26, <1>27, <1>28, <1>29, <1>30, <1>31, <1>32,
       <1>33, <1>34, <1>35, <1>36, <1>37 DEF Next, Environment, Step

\* The invariant from which the safety properties follow.
THEOREM Safe == Spec => [](TypeOK /\ SafeInv)
<1>1. Init => TypeOK /\ SafeInv
  BY TypeInit, SafeInit
<1>2. TypeOK /\ SafeInv /\ [Next]_vars => (TypeOK /\ SafeInv)'
  BY TypeStep, SafeStep
<1>3. QED
  BY <1>1, <1>2, PTL DEF Spec

\* An invocation of attnHandler() starts one systemd target at most, and tries
\* another attention only while it has asked for no dump and started no target.
THEOREM OneTransitionHolds == Spec => []OneTransition
<1>1. SafeInv => OneTransition
  BY DEF SafeInv, OrderInv, OneTransition, Before, At
<1>2. QED
  BY <1>1, Safe, PTL

\* requestDump() never asks for a hardware or hostboot dump without a log.
THEOREM DumpHasLogHolds == Spec => []DumpHasLog
<1>1. SafeInv => DumpHasLog
  BY DEF SafeInv, LogInv, DumpHasLog
<1>2. QED
  BY <1>1, Safe, PTL

\* transitionHost() is not called under a dump unless the wait has timed out.
THEOREM TransitionAfterDumpHolds == Spec => []TransitionAfterDump
<1>1. SafeInv => TransitionAfterDump
  BY DEF SafeInv, WaitInv, TransitionAfterDump
<1>2. QED
  BY <1>1, Safe, PTL

\* transitionHost() is not called before a PEL that tells why was asked for,
\* unless hostboot ended in a way that needs none.
THEOREM TransitionLoggedHolds == Spec => []TransitionLogged
<1>1. SafeInv => TransitionLogged
  BY DEF SafeInv, RecordInv, Bound, Logged, TransitionLogged
<1>2. QED
  BY <1>1, Safe, PTL

--------------------------------------------------------------------------------
(* The watchdog, where one thread handles attentions and is not cancelled   *)
(* and the writes of the watchdog property succeed.                         *)

Alone ==
  /\ \A s, t \in Thread : s = t
  /\ ~Stops
  /\ "watchdog" \notin Faults

\* The part of requestDump() between the two writes.
InHand == DumpLabel \ {"dump"}

\* Steps outside that part leave the watchdog as it is.
LEMMA WatchdogOutside ==
  ASSUME TypeOK, Alone, WatchdogExact, watchdog' = watchdog,
         NEW t \in Thread, pc[t] \notin InHand, pc'[t] \notin InHand
  PROVE  WatchdogExact'
<1>1. watchdog
  BY DEF WatchdogExact, InHand, Alone, TypeOK, HwTypeOK
<1>2. \A s \in Thread : pc'[s] \notin InHand
  BY DEF Alone
<1>3. QED
  BY <1>1, <1>2 DEF WatchdogExact, InHand

\* Where each thread is after a step that does not call requestDump().
LEMMA OutsideSteps ==
  ASSUME TypeOK, SafeInv, NEW t \in Thread,
         \/ Start(t) \/ ClearDone(t) \/ ScanDone(t) \/ Pick(t) \/ AllAttempted(t)
         \/ \E p \in Proc :
              ClearIntr(t, p) \/ ScanProc(t, p) \/ ScanUnreadable(t, p) \/ VitalVerify(t, p)
         \/ VitalStart(t) \/ VitalCheck(t) \/ VitalHreset(t) \/ VitalRecovered(t)
         \/ VitalFailed(t)
         \/ CheckstopIgnored(t) \/ CheckstopNoLog(t) \/ CheckstopLogged(t)
         \/ GetTiInfo(t) \/ SpecialTi(t) \/ SpecialBp(t) \/ SpecialIgnored(t)
         \/ TiRecoverables(t) \/ TiNoPel(t) \/ TiPelFailed(t) \/ TiPelCreated(t)
         \/ Transition(t)
  PROVE  watchdog' = watchdog /\ pc[t] \notin InHand /\ pc'[t] \notin InHand
<1> USE DEF At, Goto, InHand, DumpLabel, TypeOK, ControlTypeOK
<1>1. CASE Start(t)
  BY <1>1 DEF Start, CallClear, EnterLoop
<1>2. CASE ClearDone(t)
  BY <1>2 DEF ClearDone, EnterLoop, SafeInv, OrderInv
<1>3. CASE ScanDone(t) \/ AllAttempted(t)
  BY <1>3 DEF ScanDone, AllAttempted
<1>4. CASE Pick(t)
  <2>1. PICK a \in attns[t] : pc' = [pc EXCEPT ![t] = FirstLabel(a.type)]
    BY <1>4 DEF Pick, Front
  <2>2. a.type \in AttnType
    BY <2>1 DEF AttentionTypeOK, Attention
  <2>3. FirstLabel(a.type) \in {"vStart", "cStart", "sStart"}
    BY <2>2 DEF FirstLabel, AttnType
  <2>4. QED
    BY <1>4, <2>1, <2>3 DEF Pick
<1>5. ASSUME NEW p \in Proc,
             ClearIntr(t, p) \/ ScanProc(t, p) \/ ScanUnreadable(t, p) \/ VitalVerify(t, p)
      PROVE  watchdog' = watchdog /\ pc[t] \notin InHand /\ pc'[t] \notin InHand
  BY <1>5 DEF ClearIntr, ScanProc, ScanUnreadable, VitalVerify
<1>6. CASE VitalStart(t) \/ VitalCheck(t) \/ VitalHreset(t) \/ VitalRecovered(t) \/ VitalFailed(t)
  BY <1>6 DEF VitalStart, VitalCheck, VitalHreset, VitalRecovered, VitalFailed, Handled,
              NotHandled, CallClear, EnterLoop, CallDump
<1>7. CASE CheckstopIgnored(t) \/ CheckstopNoLog(t) \/ CheckstopLogged(t)
  BY <1>7 DEF CheckstopIgnored, CheckstopNoLog, CheckstopLogged, Handled, NotHandled, CallDump
<1>8. CASE GetTiInfo(t) \/ SpecialTi(t) \/ SpecialBp(t) \/ SpecialIgnored(t)
  BY <1>8 DEF GetTiInfo, SpecialTi, SpecialBp, SpecialIgnored, Handled, NotHandled
<1>9. CASE TiRecoverables(t) \/ TiNoPel(t) \/ TiPelFailed(t) \/ TiPelCreated(t)
  BY <1>9 DEF TiRecoverables, TiNoPel, TiPelFailed, TiPelCreated, AfterTi, CallDump
<1>10. CASE Transition(t)
  BY <1>10 DEF Transition, Handled
<1>11. QED
  BY <1>1, <1>2, <1>3, <1>4, <1>5, <1>6, <1>7, <1>8, <1>9, <1>10

\* No step of a thread that is alone changes the watchdog but as it should.
LEMMA WatchdogStep ==
  ASSUME TypeOK, SafeInv, Alone, WatchdogExact, [Next]_vars
  PROVE  WatchdogExact'
<1> USE DEF At, Goto
<1>1. ASSUME UNCHANGED <<watchdog, pc, dumpType>> PROVE WatchdogExact'
  BY <1>1 DEF WatchdogExact, IsWatched
<1>2. CASE UNCHANGED vars
  BY <1>1, <1>2 DEF vars, dumpVars
<1>3. CASE Environment
  BY <1>1, <1>3 DEF Environment, HostClears, Raise, Cancel, DumpCompletes, SetConfig,
                    Alone, dumpVars
<1>4. ASSUME NEW t \in Thread, DumpRequest(t) PROVE WatchdogExact'
  <2>1. pc[t] = "dump" /\ cont[t] \notin DumpLabel /\ dumpType' = dumpType
    BY <1>4 DEF DumpRequest, SafeInv, OrderInv, DumpLabel, dumpVars
  <2>2. CASE pc' = [pc EXCEPT ![t] = cont[t]] /\ watchdog' = watchdog
    BY <2>1, <2>2, WatchdogOutside DEF InHand, TypeOK, ControlTypeOK
  <2>3. CASE pc' = [pc EXCEPT ![t] = "dumpCall"] /\ ~IsWatched(t) /\ watchdog' = watchdog
    <3>1. watchdog
      BY <2>1 DEF WatchdogExact, Alone, TypeOK, HwTypeOK
    <3>2. \A s \in Thread : ~IsWatched(s)'
      BY <2>1, <2>3 DEF Alone, IsWatched
    <3>3. QED
      BY <2>3, <3>1, <3>2 DEF WatchdogExact
  <2>4. CASE pc' = [pc EXCEPT ![t] = "dumpCall"] /\ IsWatched(t) /\ watchdog' = FALSE
    <3>1. pc'[t] = "dumpCall" /\ IsWatched(t)'
      BY <2>1, <2>4 DEF IsWatched, TypeOK, ControlTypeOK
    <3>2. QED
      BY <2>4, <3>1 DEF WatchdogExact, DumpLabel
  <2>5. QED
    BY <1>4, <2>2, <2>3, <2>4 DEF DumpRequest, SetWatchdog, Alone
<1>5. ASSUME NEW t \in Thread, DumpCreate(t) \/ DumpMatch(t) \/ DumpWait(t) PROVE WatchdogExact'
  <2>1. /\ pc[t] \in InHand /\ pc'[t] \in InHand
        /\ UNCHANGED <<watchdog, dumpType>>
    BY <1>5 DEF DumpCreate, DumpMatch, DumpWait, InHand, DumpLabel, TypeOK, ControlTypeOK
  <2>2. \A s \in Thread : pc[s] \in InHand /\ pc'[s] \in InHand
    BY <2>1 DEF Alone
  <2>3. QED
    BY <2>1, <2>2 DEF WatchdogExact, IsWatched, InHand
<1>6. ASSUME NEW t \in Thread, DumpEnd(t) PROVE WatchdogExact'
  <2>1. pc[t] = "dumpEnd" /\ pc'[t] \notin InHand /\ dumpType' = dumpType
    BY <1>6 DEF DumpEnd, SafeInv, OrderInv, DumpLabel, InHand, dumpVars, TypeOK, ControlTypeOK
  <2>2. watchdog'
    <3>1. CASE IsWatched(t)
      BY <1>6, <3>1 DEF DumpEnd, SetWatchdog, Alone
    <3>2. CASE ~IsWatched(t)
      <4>1. \A s \in Thread : ~IsWatched(s)
        BY <3>2 DEF Alone
      <4>2. watchdog
        BY <4>1 DEF WatchdogExact, TypeOK, HwTypeOK
      <4>3. QED
        BY <1>6, <3>2, <4>2 DEF DumpEnd
    <3>3. QED
      BY <3>1, <3>2
  <2>3. \A s \in Thread : pc'[s] \notin InHand
    BY <2>1 DEF Alone
  <2>4. QED
    BY <2>2, <2>3 DEF WatchdogExact, InHand
<1>7. ASSUME NEW t \in Thread, Start(t) \/ Step(t),
             ~(DumpRequest(t) \/ DumpCreate(t) \/ DumpMatch(t) \/ DumpWait(t) \/ DumpEnd(t))
      PROVE  WatchdogExact'
  <2>1. watchdog' = watchdog /\ pc[t] \notin InHand /\ pc'[t] \notin InHand
    BY <1>7, OutsideSteps DEF Step
  <2>2. QED
    BY <2>1, WatchdogOutside
<1>8. QED
  BY <1>2, <1>3, <1>4, <1>5, <1>6, <1>7 DEF Next, Step

\* With one thread in attnHandler(), which is not cancelled, and no failed write,
\* the watchdog is off exactly from the request of a hardware or hostboot dump
\* until requestDump() returns, on every path out of it.
THEOREM WatchdogExactHolds == ASSUME Alone PROVE Spec => []WatchdogExact
<1>1. Init => WatchdogExact
  BY DEF Init, WatchdogExact, DumpLabel
<1>2. TypeOK /\ SafeInv /\ WatchdogExact /\ [Next]_vars => WatchdogExact'
  BY WatchdogStep
<1>3. QED
  BY <1>1, <1>2, Safe, PTL DEF Spec

--------------------------------------------------------------------------------
(* AttnHandler implements AttnService *)

\* Starting a target leaves the list of targets non-empty.
LEMMA AppendNotEmpty ==
  ASSUME EffectTypeOK, NEW t \in Thread, NEW target \in Target,
         targets' = [targets EXCEPT ![t] = Append(@, target)]
  PROVE  targets'[t] # <<>>
  BY DEF EffectTypeOK, Target

\* Initially every thread is idle and has asked for nothing.
LEMMA ServiceInit == Init => Service!Init
  BY DEF Init, Service!Init, Phases, Pendings, Askeds, PhaseOf, PendingOf,
         AskedOf, Collecting, At

\* Every step of the handler is a step of the service or leaves it unchanged.
LEMMA ServiceStep ==
  TypeOK /\ TypeOK' /\ SafeInv /\ [Next]_vars => [Service!Next]_(Service!vars)
<1> SUFFICES ASSUME TypeOK, TypeOK', SafeInv, [Next]_vars
             PROVE  [Service!Next]_(Service!vars)
  OBVIOUS
<1> USE DEF TypeOK, ControlTypeOK, AttentionTypeOK, EffectTypeOK, SafeInv,
             OrderInv, Before, Leaving, ServeLabel, DumpLabel, Phases, Pendings,
             Askeds, PhaseOf, PendingOf, AskedOf, Collecting, At, Goto, hwVars,
             loopVars, tiVars, dumpVars
<1>1. ASSUME UNCHANGED vars PROVE UNCHANGED Service!vars
  BY <1>1 DEF Service!vars, vars
<1>2. ASSUME NEW p \in Proc, NEW s \in Signal, Raise(p, s)
      PROVE  UNCHANGED Service!vars
  BY <1>2 DEF Raise, Service!vars
<1>3. ASSUME NEW p \in Proc, HostClears(p)
      PROVE  UNCHANGED Service!vars
  BY <1>3 DEF HostClears, Service!vars
<1>4. ASSUME NEW t \in Thread, NEW c \in Settings, SetConfig(t, c)
      PROVE  UNCHANGED Service!vars
  BY <1>4 DEF SetConfig, Service!vars
<1>5. ASSUME NEW t \in Thread, Cancel(t)
      PROVE  Service!Cancel(t)
  BY <1>5 DEF Cancel, Service!Cancel, Service!Enter
<1>6. ASSUME NEW t \in Thread, DumpCompletes(t)
      PROVE  UNCHANGED Service!vars
  BY <1>6 DEF DumpCompletes, Service!vars
<1>7. ASSUME NEW t \in Thread, Start(t)
      PROVE  Service!Begin(t)
  <2>1. PhaseOf(t) = "idle"
    BY <1>7 DEF Start
  <2>2. Collecting(t)' /\ PhaseOf(t)' = "collecting"
    <3>1. CASE Enabled(t, "enClrAttnIntr")
      BY <1>7, <3>1 DEF Start, CallClear, EnterLoop
    <3>2. CASE ~Enabled(t, "enClrAttnIntr")
      BY <1>7, <3>2 DEF Start, CallClear, EnterLoop
    <3>3. QED
      BY <3>1, <3>2
  <2>3. ASSUME NEW u \in Thread, u # t
        PROVE  pc'[u] = pc[u] /\ cont'[u] = cont[u] /\ attns'[u] = attns[u]
    BY <1>7, <2>3 DEF Start, CallClear, EnterLoop
  <2>4. Phases' = [Phases EXCEPT ![t] = "collecting"]
    BY <2>2, <2>3
  <2>5. Pendings' = [Pendings EXCEPT ![t] = {}]
    BY <2>2, <2>3
  <2>6. Askeds' = [Askeds EXCEPT ![t] = "nothing"]
    BY <1>7 DEF Start
  <2>7. QED
    BY <1>7, <2>1, <2>4, <2>5, <2>6 DEF Start, Service!Begin, Service!Enter
<1>8. ASSUME NEW t \in Thread, NEW p \in Proc, ClearIntr(t, p)
      PROVE  UNCHANGED Service!vars
  BY <1>8 DEF ClearIntr, Service!vars
<1>9. ASSUME NEW t \in Thread, ClearDone(t)
      PROVE  UNCHANGED Service!vars
  BY <1>9 DEF ClearDone, EnterLoop, Service!vars
<1>10. ASSUME NEW t \in Thread, NEW p \in Proc, ScanProc(t, p)
      PROVE  UNCHANGED Service!vars
  BY <1>10 DEF ScanProc, Service!vars
<1>11. ASSUME NEW t \in Thread, NEW p \in Proc, ScanUnreadable(t, p)
      PROVE  UNCHANGED Service!vars
  BY <1>11 DEF ScanUnreadable, Service!vars
<1>12. ASSUME NEW t \in Thread, ScanDone(t)
      PROVE  Service!Collect(t)
  <2>1. PhaseOf(t) = "collecting"
    BY <1>12 DEF ScanDone
  <2>2. Phases' = [Phases EXCEPT ![t] = "choosing"]
    BY <1>12 DEF ScanDone
  <2>3. Pendings' = [Pendings EXCEPT ![t] = attns[t]]
    BY <1>12 DEF ScanDone
  <2>4. UNCHANGED Askeds
    BY <1>12 DEF ScanDone
  <2>5. attns[t] \in SUBSET Attention
    BY <1>12 DEF ScanDone
  <2>6. QED
    BY <1>12, <2>1, <2>2, <2>3, <2>4, <2>5 DEF ScanDone, Service!Collect,
         Service!Enter
<1>13. ASSUME NEW t \in Thread, Pick(t)
      PROVE  Service!Choose(t)
  <2>1. PICK a \in Front(attns[t]) : cur' = [cur EXCEPT ![t] = a]
                                    /\ Goto(t, FirstLabel(a.type))
    BY <1>13 DEF Pick
  <2>2. a.type \in AttnType
    BY <2>1 DEF Front, Attention
  <2>3. FirstLabel(a.type) \in {"vStart", "cStart", "sStart"}
    BY <2>2 DEF FirstLabel, AttnType
  <2>4. pc' = [pc EXCEPT ![t] = FirstLabel(a.type)]
    BY <2>1
  <2>5. PhaseOf(t) = "choosing" /\ PendingOf(t) = attns[t]
    BY <1>13 DEF Pick
  <2>6. Phases' = [Phases EXCEPT ![t] = "serving"]
    BY <1>13, <2>3, <2>4 DEF Pick
  <2>7. UNCHANGED Pendings
    BY <1>13, <2>3, <2>4 DEF Pick
  <2>8. UNCHANGED Askeds
    BY <1>13 DEF Pick
  <2>9. QED
    BY <2>1, <2>5, <2>6, <2>7, <2>8 DEF Service!Choose, Service!Enter, Front
<1>14. ASSUME NEW t \in Thread, AllAttempted(t)
      PROVE  Service!Exhausted(t)
  BY <1>14 DEF AllAttempted, Service!Exhausted, Service!Enter
<1>15. ASSUME NEW t \in Thread, VitalStart(t)
      PROVE  Service!GiveUp(t) \/ Service!Finish(t) \/ UNCHANGED Service!vars
  <2>1. /\ PhaseOf(t) = "serving" /\ AskedOf(t) = "nothing"
        /\ PendingOf(t) = attns[t]
    BY <1>15 DEF VitalStart
  <2>2. UNCHANGED Askeds
    BY <1>15 DEF VitalStart, Handled, NotHandled
  <2>3. ASSUME NotHandled(t) PROVE Service!GiveUp(t)
    <3>1. Phases' = [Phases EXCEPT ![t] = "choosing"]
      BY <1>15, <2>3 DEF VitalStart, NotHandled
    <3>2. Pendings' = [Pendings EXCEPT ![t] = attns[t] \ {cur[t]}]
      BY <1>15, <2>3 DEF VitalStart, NotHandled
    <3>3. QED
      BY <1>15, <2>1, <2>2, <3>1, <3>2 DEF VitalStart, Service!GiveUp,
           Service!Enter
  <2>4. ASSUME Handled(t) PROVE Service!Finish(t)
    <3>1. Phases' = [Phases EXCEPT ![t] = "idle"]
      BY <1>15, <2>4 DEF VitalStart, Handled
    <3>2. UNCHANGED Pendings
      BY <1>15, <2>4 DEF VitalStart, Handled
    <3>3. QED
      BY <1>15, <2>1, <2>2, <3>1, <3>2 DEF VitalStart, Service!Finish,
           Service!Enter
  <2>5. ASSUME Goto(t, "vCheck"), UNCHANGED attns PROVE UNCHANGED Service!vars
    BY <1>15, <2>5 DEF VitalStart, Service!vars
  <2>6. QED
    BY <1>15, <2>3, <2>4, <2>5 DEF VitalStart
<1>16. ASSUME NEW t \in Thread, VitalCheck(t)
      PROVE  UNCHANGED Service!vars
  <2>1. CASE Goto(t, "vHreset")
    BY <1>16, <2>1 DEF VitalCheck, Service!vars
  <2>2. CASE Goto(t, "vFailed")
    BY <1>16, <2>2 DEF VitalCheck, Service!vars
  <2>3. QED
    BY <1>16, <2>1, <2>2 DEF VitalCheck
<1>17. ASSUME NEW t \in Thread, VitalHreset(t)
      PROVE  UNCHANGED Service!vars
  BY <1>17 DEF VitalHreset, EnterLoop, CallClear, Service!vars
<1>18. ASSUME NEW t \in Thread, NEW p \in Proc, VitalVerify(t, p)
      PROVE  UNCHANGED Service!vars
  BY <1>18 DEF VitalVerify, Service!vars
<1>19. ASSUME NEW t \in Thread, VitalRecovered(t)
      PROVE  Service!Finish(t)
  BY <1>19 DEF VitalRecovered, Handled, Service!Finish, Service!Enter
<1>20. ASSUME NEW t \in Thread, VitalFailed(t)
      PROVE  UNCHANGED Service!vars
  BY <1>20 DEF VitalFailed, CallDump, Service!vars
<1>21. ASSUME NEW t \in Thread, CheckstopIgnored(t)
      PROVE  Service!Finish(t)
  BY <1>21 DEF CheckstopIgnored, Handled, Service!Finish, Service!Enter
<1>22. ASSUME NEW t \in Thread, CheckstopNoLog(t)
      PROVE  Service!GiveUp(t)
  BY <1>22 DEF CheckstopNoLog, NotHandled, Service!GiveUp, Service!Enter
<1>23. ASSUME NEW t \in Thread, CheckstopLogged(t)
      PROVE  UNCHANGED Service!vars
  BY <1>23 DEF CheckstopLogged, CallDump, Service!vars
<1>24. ASSUME NEW t \in Thread, GetTiInfo(t)
      PROVE  UNCHANGED Service!vars
  BY <1>24 DEF GetTiInfo, Service!vars
<1>25. ASSUME NEW t \in Thread, SpecialTi(t)
      PROVE  UNCHANGED Service!vars
  BY <1>25 DEF SpecialTi, Service!vars
<1>26. ASSUME NEW t \in Thread, SpecialBp(t)
      PROVE  Service!GiveUp(t) \/ Service!Finish(t)
  <2>1. /\ PhaseOf(t) = "serving" /\ AskedOf(t) = "nothing"
        /\ PendingOf(t) = attns[t]
    BY <1>26 DEF SpecialBp
  <2>2. UNCHANGED Askeds
    BY <1>26 DEF SpecialBp, Handled, NotHandled
  <2>3. ASSUME NotHandled(t) PROVE Service!GiveUp(t)
    <3>1. Phases' = [Phases EXCEPT ![t] = "choosing"]
      BY <1>26, <2>3 DEF SpecialBp, NotHandled
    <3>2. Pendings' = [Pendings EXCEPT ![t] = attns[t] \ {cur[t]}]
      BY <1>26, <2>3 DEF SpecialBp, NotHandled
    <3>3. QED
      BY <1>26, <2>1, <2>2, <3>1, <3>2 DEF SpecialBp, Service!GiveUp,
           Service!Enter
  <2>4. ASSUME Handled(t) PROVE Service!Finish(t)
    <3>1. Phases' = [Phases EXCEPT ![t] = "idle"]
      BY <1>26, <2>4 DEF SpecialBp, Handled
    <3>2. UNCHANGED Pendings
      BY <1>26, <2>4 DEF SpecialBp, Handled
    <3>3. QED
      BY <1>26, <2>1, <2>2, <3>1, <3>2 DEF SpecialBp, Service!Finish,
           Service!Enter
  <2>5. QED
    BY <1>26, <2>3, <2>4 DEF SpecialBp
<1>27. ASSUME NEW t \in Thread, SpecialIgnored(t)
      PROVE  Service!Finish(t)
  BY <1>27 DEF SpecialIgnored, Handled, Service!Finish, Service!Enter
<1>28. ASSUME NEW t \in Thread, TiRecoverables(t)
      PROVE  UNCHANGED Service!vars
  BY <1>28 DEF TiRecoverables, Service!vars
<1>29. ASSUME NEW t \in Thread, TiNoPel(t)
      PROVE  UNCHANGED Service!vars
  BY <1>29 DEF TiNoPel, CallDump, Service!vars
<1>30. ASSUME NEW t \in Thread, TiPelFailed(t)
      PROVE  Service!Finish(t) \/ UNCHANGED Service!vars
  BY <1>30 DEF TiPelFailed, AfterTi, Service!Finish, Service!Enter, Service!vars
<1>31. ASSUME NEW t \in Thread, TiPelCreated(t)
      PROVE  UNCHANGED Service!vars
  BY <1>31 DEF TiPelCreated, CallDump, AfterTi, Service!vars
<1>32. ASSUME NEW t \in Thread, DumpRequest(t)
      PROVE  Service!Finish(t) \/ UNCHANGED Service!vars
  <2>1. CASE pc' = [pc EXCEPT ![t] = "dumpCall"]
    BY <1>32, <2>1 DEF DumpRequest, Service!vars
  <2>2. CASE pc' = [pc EXCEPT ![t] = cont[t]]
    BY <1>32, <2>2 DEF DumpRequest, Service!Finish, Service!Enter, Service!vars
  <2>3. QED
    BY <1>32, <2>1, <2>2 DEF DumpRequest
<1>33. ASSUME NEW t \in Thread, DumpCreate(t)
      PROVE  Service!AskDump(t)
  <2>1. PhaseOf(t) = "serving" /\ AskedOf(t) = "nothing"
    BY <1>33 DEF DumpCreate
  <2>2. UNCHANGED Phases
    BY <1>33 DEF DumpCreate
  <2>3. UNCHANGED Pendings
    BY <1>33 DEF DumpCreate
  <2>4. Askeds' = [Askeds EXCEPT ![t] = "dump"]
    BY <1>33 DEF DumpCreate
  <2>5. QED
    BY <1>33, <2>1, <2>2, <2>3, <2>4 DEF DumpCreate, Service!AskDump,
         Service!Enter
<1>34. ASSUME NEW t \in Thread, DumpMatch(t)
      PROVE  UNCHANGED Service!vars
  <2>1. UNCHANGED Phases
    BY <1>34 DEF DumpMatch
  <2>2. UNCHANGED Pendings
    BY <1>34 DEF DumpMatch
  <2>3. UNCHANGED Askeds
    BY <1>34 DEF DumpMatch
  <2>4. QED
    BY <1>34, <2>1, <2>2, <2>3 DEF DumpMatch, Service!vars, Service!Enter
<1>35. ASSUME NEW t \in Thread, DumpWait(t)
      PROVE  UNCHANGED Service!vars
  BY <1>35 DEF DumpWait, Service!vars
<1>36. ASSUME NEW t \in Thread, DumpEnd(t)
      PROVE  Service!Finish(t) \/ UNCHANGED Service!vars
  BY <1>36 DEF DumpEnd, Service!Finish, Service!Enter, Service!vars
<1>37. ASSUME NEW t \in Thread, Transition(t)
      PROVE  Service!AskTransition(t) \/ Service!Finish(t)
  <2>1. PhaseOf(t) = "serving"
    BY <1>37 DEF Transition
  <2>2. Phases' = [Phases EXCEPT ![t] = "idle"]
    BY <1>37 DEF Transition, Handled
  <2>3. UNCHANGED Pendings
    BY <1>37 DEF Transition, Handled
  <2>4. CASE UNCHANGED targets
    BY <1>37, <2>1, <2>2, <2>3, <2>4 DEF Transition, Service!Finish,
         Service!Enter
  <2>5. ASSUME NEW target \in Wanted(t),
               targets' = [targets EXCEPT ![t] = Append(@, target)]
        PROVE  Service!AskTransition(t)
    <3>1. EffectTypeOK /\ target \in Target
      BY DEF Wanted, Target
    <3>3. targets'[t] # <<>>
      BY <2>5, <3>1, AppendNotEmpty
    <3>4. Askeds' = [Askeds EXCEPT ![t] = "transition"]
      BY <1>37, <2>5, <3>3 DEF Transition
    <3>5. QED
      BY <1>37, <2>1, <2>2, <2>3, <3>4 DEF Transition, Service!AskTransition,
           Service!Enter
  <2>6. QED
    BY <1>37, <2>4, <2>5 DEF Transition
<1> QED
  BY <1>1, <1>2, <1>3, <1>4, <1>5, <1>6, <1>7, <1>8, <1>9, <1>10, <1>11, <1>12,
       <1>13, <1>14, <1>15, <1>16, <1>17, <1>18, <1>19, <1>20, <1>21, <1>22,
       <1>23, <1>24, <1>25, <1>26, <1>27, <1>28, <1>29, <1>30, <1>31, <1>32,
       <1>33, <1>34, <1>35, <1>36, <1>37 DEF Next, Environment, Step,
       Service!Next

\* attnHandler() implements the service: it collects, tries the attentions in
\* order of priority, gives one up only without consequences, and ends with one
\* dump and one transition of the host at most.
THEOREM Implementation == Spec => ImplementsService
<1>1. Init => Service!Init
  BY ServiceInit
<1>2. TypeOK /\ TypeOK' /\ SafeInv /\ [Next]_vars
        => [Service!Next]_(Service!vars)
  BY ServiceStep
<1>3. QED
  BY <1>1, <1>2, Safe, PTL DEF Spec, ImplementsService, Service!Spec

--------------------------------------------------------------------------------
(* The order of service, from what AttnServiceProofs says of the service *)

Order == INSTANCE AttnServiceProofs WITH
  phase <- Phases, pending <- Pendings, serving <- cur, asked <- Askeds

\* The priorities of the attention types are numbers.
LEMMA Ranked == Order!WellRanked
<1>1. \A type \in AttnType : Priority(type) \in Nat
  BY DEF AttnType, Priority
<1>2. \A a \in Attention : a.type \in AttnType
  BY DEF Attention
<1>3. Rank \in [Attention -> Nat]
  BY <1>1, <1>2 DEF Rank
<1>4. NoAttn \notin Attention
  BY <1>2 DEF NoAttn, AttnType
<1>5. QED
  BY <1>3, <1>4 DEF Order!WellRanked

\* The instance of the proof module starts and steps as the service does.
LEMMA SameService ==
  /\ Service!Init => Order!Init
  /\ [Service!Next]_(Service!vars) => [Order!Next]_(Order!vars)
<1>1. Service!Init => Order!Init
  BY DEF Service!Init, Order!Init
<1>2. Service!vars' = Service!vars => Order!vars' = Order!vars
  BY DEF Service!vars, Order!vars
<1>3. Service!Next => Order!Next
  BY DEF Service!Next, Service!Begin, Service!Collect, Service!Choose,
         Service!GiveUp, Service!AskDump, Service!AskTransition, Service!Finish,
         Service!Exhausted, Service!Cancel, Service!Enter,
         Order!Next, Order!Begin, Order!Collect, Order!Choose, Order!GiveUp,
         Order!AskDump, Order!AskTransition, Order!Finish, Order!Exhausted,
         Order!Cancel, Order!Enter
<1>4. QED
  BY <1>1, <1>2, <1>3

\* Whoever implements the service gets what is proved of it.
LEMMA Ordered == ImplementsService => [](DownInPriority /\ TriedOnce)
<1>1. Order!OrderInv => DownInPriority /\ TriedOnce
  BY DEF Order!OrderInv, DownInPriority, TriedOnce, Service!DownInPriority,
         Service!TriedOnce, Order!DownInPriority, Order!TriedOnce
<1>2. Service!Init => Order!OrderInv
  BY SameService, Order!OrderInit
<1>3. Order!OrderInv /\ [Service!Next]_(Service!vars) => Order!OrderInv'
  BY SameService, Ranked, Order!OrderStep
<1>4. QED
  BY <1>1, <1>2, <1>3, PTL DEF ImplementsService, Service!Spec

\* An invocation of attnHandler() goes down in priority.
THEOREM DownInPriorityHolds == Spec => []DownInPriority
  BY Implementation, Ordered, PTL

\* No attention is tried twice by one invocation of attnHandler().
THEOREM TriedOnceHolds == Spec => []TriedOnce
  BY Implementation, Ordered, PTL

================================================================================
