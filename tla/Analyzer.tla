-------------------------------- MODULE Analyzer --------------------------------
(***************************************************************************)
(* Hardware error analysis: the chips that are active are isolated, the    *)
(* filter blames one of the signatures found, the RAS data says what to    *)
(* call out for it, and a PEL is submitted.  One analysis runs at a time   *)
(* and many run in the life of the process; nothing of one survives it but *)
(* the parser's static stack.                                              *)
(*                                                                         *)
(* The isolator is the library openpower-libhei: it finds any list of      *)
(* signatures of the chips it is given.  The logging service may or may    *)
(* not create the PEL that is submitted to it.                             *)
(***************************************************************************)
EXTENDS RootCause, Plugins

CONSTANTS
  ChipData,   \* chip models that the isolator has a chip data file for
  Hardware,   \* states the chips may be in when an analysis starts
  Isolated,   \* lists of signatures that the isolator may find
  Readings,   \* what the hardware may answer to a plugin
  Quiet       \* the reading that stands for none

\* The elements of an action that call something out.
TargetCalloutType == {"callout_self", "callout_unit", "callout_connected", "callout_bus"}
CalloutType == TargetCalloutType \cup {"callout_clock", "callout_procedure", "callout_part"}

ASSUME AnalyzerAssumption ==
  /\ DOMAIN Files \subseteq ChipData
  /\ Quiet \in Readings
  /\ \A list \in Isolated :
       /\ list \in Seq(Range(list))
       /\ \A i \in DOMAIN list : list[i].chip \in Chip /\ list[i].attn \in AttnKind

\* RasDataParser takes no file that does not conform to the schema (an assertion
\* of initDataFiles()): what the schema has enumerated is in its set.
ASSUME SchemaAssumption ==
  \A m \in DOMAIN Files :
    /\ \A name \in DOMAIN Files[m].buses : Files[m].buses[name].type \in Bus
    /\ \A e \in Elements(m) :
         /\ e.type \in {"action", "flag", "plugin"} \cup CalloutType
         /\ e.type \in CalloutType => e.priority \in Priority
         /\ e.type \in TargetCalloutType => e.guard \in BOOLEAN
         /\ e.type = "callout_clock" => e.name \in Clock
         /\ e.type = "callout_procedure" => e.name \in Procedure
         /\ e.type = "callout_part" => e.name \in Part

VARIABLES
  phase,      \* what the analyzer is doing
  kind,       \* the type of analysis
  active,     \* the active processors
  sigs,       \* the signatures found by the isolator
  root,       \* the index of the one that is blamed, NotFound if none is
  stack,      \* names in the static variable of parseAction()
  leaves,     \* resolutions still to be made
  calls,      \* calls of the present resolution still to be made
  seen,       \* what the hardware answered to a plugin
  failed,     \* an exception ended the resolution
  callouts,   \* the callout list
  ffdc,       \* the calls that were made
  subsystem,  \* the subsystem of the SRC and its priority
  plid,       \* the ID of the PEL, zero for none
  dump        \* the parameters for a dump were set

data == <<callouts, ffdc, subsystem>>
pel == <<plid, dump>>
vars == <<phase, kind, active, sigs, root, stack, leaves, calls, seen, failed, data, pel>>

Phase == {"idle", "filter", "parse", "resolve", "commit", "done", "aborted"}

\* The service data before anything is called out, and the variables of an
\* analysis before it starts.
NoData == callouts = <<>> /\ ffdc = <<>> /\ subsystem = DefaultSubsystem

Init ==
  /\ phase = "idle"
  /\ kind = "MANUAL"
  /\ active = {}
  /\ sigs = <<>>
  /\ root = NotFound
  /\ stack = {}
  /\ leaves = <<>>
  /\ calls = <<>>
  /\ seen = Quiet
  /\ failed = FALSE
  /\ NoData
  /\ plid = 0
  /\ dump = FALSE

NextLevel == ProcedureCall("next_level_support", "HIGH")

\* The effect of a call on the service data.
MakeCall(call) ==
  /\ callouts' = CalloutList(callouts, call, kind)
  /\ ffdc' = Append(ffdc, call)
  /\ subsystem' = SetSrcSubsystem(subsystem, CallSubsystem(call), call.priority)

--------------------------------------------------------------------------------
(* Faulty variants of definitions below, which the properties must tell from them. *)

\* An exception while the callouts are made leaves them as they are.
ThrownQuietly ==
  /\ phase' = "commit"
  /\ failed' = TRUE
  /\ leaves' = <<>>
  /\ calls' = <<>>
  /\ UNCHANGED <<kind, active, sigs, root, seen, data, pel>>

\* What the filter yields for an exception is taken for a signature.
FilterThrown ==
  /\ phase = "filter"
  /\ root' = FilterRootCause(kind, sigs)
  /\ phase' = IF root' # NotFound THEN "parse" ELSE "done"
  /\ UNCHANGED <<kind, active, sigs, stack, leaves, calls, seen, failed, data, pel>>

--------------------------------------------------------------------------------
(* The analysis. *)

\* Where an active chip has no chip data file an assertion fails, and nobody
\* catches what the search for the active chips throws.
Analyze(k) ==
  /\ phase = "idle"
  /\ kind' = k
  /\ \E hw \in Hardware :
       LET chips == GetActiveChips(hw)
           known == {c \in chips : GetChipIdEc(c, hw) \in ChipData}
           told == known = chips /\ ~ActiveChipsThrow(hw)
       IN /\ active' = GetActiveProcessorChips(hw)
          /\ \/ /\ told
                /\ phase' = "filter"
                /\ sigs' \in {list \in Isolated : Range(Chips(list)) \subseteq chips}
             \/ /\ ~told
                /\ phase' = "aborted"
                /\ UNCHANGED sigs
  /\ UNCHANGED <<root, stack, leaves, calls, seen, failed, data, pel>>

\* An exception of the filter counts as no root cause.  There is nothing to
\* report without one, except for a system checkstop.
Filter ==
  /\ phase = "filter"
  /\ LET Found(r) ==
           /\ root' = IF r > 0 THEN r ELSE NotFound
           /\ phase' = CASE r > 0 /\ kind # "MANUAL"             -> "parse"
                         [] r > 0 /\ kind = "MANUAL"             -> "commit"
                         [] r <= 0 /\ kind = "SYSTEM_CHECKSTOP"  -> "commit"
                         [] OTHER                                -> "done"
           /\ IF r <= 0 /\ kind = "SYSTEM_CHECKSTOP" THEN MakeCall(NextLevel)
              ELSE UNCHANGED data
     IN Found(FilterRootCause(kind, sigs))
  /\ UNCHANGED <<kind, active, sigs, stack, leaves, calls, seen, failed, pel>>

\* An exception: the callouts made so far stay, and next level support is added.
CatchException ==
  /\ phase' = "commit"
  /\ failed' = TRUE
  /\ leaves' = <<>>
  /\ calls' = <<>>
  /\ MakeCall(NextLevel)
  /\ UNCHANGED <<kind, active, sigs, root, seen, pel>>

Abort ==
  /\ phase' = "aborted"
  /\ UNCHANGED <<kind, active, sigs, root, leaves, calls, seen, failed, data, pel>>

Parse ==
  /\ phase = "parse"
  /\ LET Found(r) ==
           /\ stack' = r.stack
           /\ CASE r.outcome = "ok"    -> /\ phase' = "resolve"
                                          /\ leaves' = r.leaves
                                          /\ UNCHANGED <<kind, active, sigs, root, calls, seen,
                                                         failed, data, pel>>
                [] r.outcome = Threw   -> CatchException
                [] OTHER               -> Abort
     IN Found(GetResolution(sigs[root], stack))

\* The next resolution decides on its calls.
Resolve ==
  /\ phase = "resolve"
  /\ calls = <<>>
  /\ leaves # <<>>
  /\ \E answer \in (IF Head(leaves).type = "plugin" THEN Readings ELSE {Quiet}) :
       LET Decided(r) ==
             CASE r.outcome = "ok"  -> /\ leaves' = Tail(leaves)
                                       /\ calls' = r.calls
                                       /\ seen' = answer
                                       /\ UNCHANGED <<phase, kind, active, sigs, root, failed,
                                                      data, pel>>
               [] r.outcome = Threw -> CatchException
               [] OTHER             -> Abort
       IN Decided(ResolutionCalls(Head(leaves), sigs[root].chip, sigs, active, answer))
  /\ UNCHANGED stack

Call ==
  /\ phase = "resolve"
  /\ calls # <<>>
  /\ CASE Outcome(Head(calls)) = "ok"  -> /\ MakeCall(Head(calls))
                                          /\ calls' = Tail(calls)
                                          /\ UNCHANGED <<phase, kind, active, sigs, root,
                                                         leaves, seen, failed, pel>>
       [] Outcome(Head(calls)) = Threw -> CatchException
       [] OTHER                        -> Abort
  /\ UNCHANGED stack

Resolved ==
  /\ phase = "resolve"
  /\ calls = <<>>
  /\ leaves = <<>>
  /\ phase' = "commit"
  /\ UNCHANGED <<kind, active, sigs, root, stack, leaves, calls, seen, failed, data, pel>>

\* The parameters of the dump are set only if the PEL was created.
CommitPel ==
  /\ phase = "commit"
  /\ plid' \in {0, 1}
  /\ dump' = (plid' # 0)
  /\ phase' = "done"
  /\ UNCHANGED <<kind, active, sigs, root, stack, leaves, calls, seen, failed, data>>

\* What was local to the analysis is gone.
Return ==
  /\ phase = "done"
  /\ phase' = "idle"
  /\ kind' = "MANUAL"
  /\ active' = {}
  /\ sigs' = <<>>
  /\ root' = NotFound
  /\ leaves' = <<>>
  /\ calls' = <<>>
  /\ seen' = Quiet
  /\ failed' = FALSE
  /\ callouts' = <<>>
  /\ ffdc' = <<>>
  /\ subsystem' = DefaultSubsystem
  /\ plid' = 0
  /\ dump' = FALSE
  /\ UNCHANGED stack

Next ==
  \/ \E k \in AnalysisType : Analyze(k)
  \/ Filter
  \/ Parse
  \/ Resolve
  \/ Call
  \/ Resolved
  \/ CommitPel
  \/ Return

Spec == Init /\ [][Next]_vars

--------------------------------------------------------------------------------
(* Properties. *)

CallSet == [op : {"target", "connected", "bus", "clock", "procedure", "part"},
            target : Target \cup {NoTarget}, name : {""} \cup Bus \cup Clock \cup Procedure \cup Part,
            priority : Priority, guard : BOOLEAN]

CalloutSet == [type : {"LocationCode", "Procedure"},
               key : Range(Code) \cup {"P0", "none"} \cup Procedure,
               priority : Priority, entity : Target \cup {NoTarget},
               guard : {"GARD_NULL", "GARD_Predictive", "GARD_Unrecoverable"}]

\* The variables stay in their types.
TypeOK ==
  /\ phase \in Phase
  /\ kind \in AnalysisType
  /\ active \subseteq Proc
  /\ sigs \in Isolated \/ sigs = <<>>
  /\ root \in 0..Len(sigs)
  /\ stack \subseteq Names
  /\ calls \in Seq(CallSet)
  /\ seen \in Readings
  /\ failed \in BOOLEAN
  /\ callouts \in Seq(CalloutSet)
  /\ ffdc \in Seq(CallSet)
  /\ subsystem.priority \in Priority
  /\ plid \in {0, 1}
  /\ dump \in BOOLEAN

\* The kinds of signature that are blamed, the best root cause first; anything
\* is of the last one.
Unblamed == 12
OfKind(s, k) ==
  CASE k = 1  -> IsP10(s) /\ s.id = "TP_LOCAL_FIR" /\ s.bit \in {42, 43}
    [] k = 2  -> IsProc(s) /\ s.id = "PLL_UNLOCK"
    [] k = 3  -> IsOcmb(s) /\ s.id = "PLL_UNLOCK"
    [] k = 4  -> IsProc(s) /\ s.id = "TOD_ERROR"
    [] k = 5  -> IsOcmb(s) /\ s.attn \in {"CHIP_CS", "UNIT_CS"}
    [] k = 6  -> ChannelFailure(s)
    [] k = 7  -> s.attn = "RECOVERABLE" /\ IsCsRootCause(s)
    [] k = 8  -> s.attn = "UNIT_CS" /\ IsCsRootCause(s)
    [] k = 9  -> IsFlagSet(s, "attn_from_ocmb")
    [] k = 10 -> IsProc(s) /\ s.attn = "CHIP_CS" /\ s.id # "PB_EXT_FIR"
    [] k = 11 -> /\ s.attn \in {"RECOVERABLE", "UNIT_CS"}
                 /\ \A flag \in SkippedForTi : ~IsFlagSet(s, flag)
    [] OTHER  -> TRUE

\* A relayed attention counts as one only where no OCMB reports anything itself.
Qualifies(s, k, list) ==
  OfKind(s, k) /\ (k = 9 => ~\E i \in DOMAIN list : IsOcmb(list[i]))

\* How good a root cause a signature of the list is: the lower the better.
RankIn(s, list) == Min({k \in 1..Unblamed : Qualifies(s, k, list)})

\* The first of the best of a list.
Best(list) ==
  LET lowest == Min({RankIn(list[i], list) : i \in DOMAIN list})
  IN SelectInSeq(list, LAMBDA s : RankIn(s, list) = lowest)

\* c is known to bring about s.
Causes(c, s) ==
  \/ FirmwareChannelFail(s) /\ <<c.id, c.bit>> \in {"RDFFIR"} \X {17, 37} \cup {"RDF_FIR"} \X {18, 38}
  \/ IsFlagSet(s, "odp_data_corrupt_side_effect") /\ IsFlagSet(c, "odp_data_corrupt_root_cause")
  \/ <<s.id, s.bit, c.id, c.bit>> = <<"RDF_FIR", 16, "RDF_FIR", 41>>

Complete == \A i \in DOMAIN sigs : HasData(sigs[i])

\* Whatever the order in which the isolator found them, the signature blamed is
\* the first of the best kind there is, the clocks before the memory channels
\* before the rest, or one that is known to cause that one
\* (findRootCause() and rootCauseSpecialCases()).
BlamesBest ==
  root # NotFound /\ Complete =>
    LET best == Best(sigs)
    IN \/ root = best /\ (kind = "MANUAL" \/ RankIn(sigs[best], sigs) < Unblamed)
       \/ Causes(sigs[root], sigs[best])

\* An analysis that ends without a root cause has found nothing to blame: there
\* is no signature of any kind the filter blames for that type of analysis.
NoneToBlame ==
  phase \in {"commit", "done"} /\ root = NotFound /\ Complete =>
    \A i \in DOMAIN sigs :
      /\ kind # "MANUAL"
      /\ RankIn(sigs[i], sigs) >= (IF kind = "SYSTEM_CHECKSTOP" THEN 11 ELSE Unblamed)

\* An attention that only relays one of an OCMB is not blamed in the service of
\* the host where an OCMB reports an attention of its own, unless it is itself
\* a checkstop or the source of one (__findOcmbAttnBits()).
RelayNotBlamed ==
  LET s == sigs[root]
  IN root # NotFound /\ kind # "MANUAL" /\ Complete
       /\ IsFlagSet(s, "attn_from_ocmb") /\ (\E i \in DOMAIN sigs : IsOcmb(sigs[i]))
     => s.attn = "CHIP_CS" \/ IsCsRootCause(s) \/ \E i \in DOMAIN sigs : Causes(s, sigs[i])

\* The entries a call stands for, and all those of the calls that were made.
EntriesOf(call, k) ==
  LET One(t) == TargetCallout(t, call.priority, call.guard, k)
      tx == TxTarget(call)
  IN CASE call.op = "target"    -> <<One(call.target)>>
       [] call.op = "connected" -> <<One(tx)>>
       [] call.op = "bus"       -> <<One(call.target), One(tx), BackplaneCallout(call.priority)>>
       [] call.op = "clock"     -> <<BackplaneCallout(call.priority)>>
       [] call.op = "procedure" -> <<ProcedureCallout(call.name, call.priority)>>
       [] OTHER                 -> <<TargetCallout(Bmc, call.priority, FALSE, k)>>

Entries == FlattenSeq([i \in DOMAIN ffdc |-> EntriesOf(ffdc[i], kind)])

\* The callout list says of each part and procedure what the first of the calls
\* of the highest level said of it, its guard included, and nothing else: no
\* order of resolutions, plugins and exceptions loses or doubles a callout
\* (addCallout()).
CalloutsExact ==
  LET made == Entries
      strongest == {i \in DOMAIN made : \A j \in DOMAIN made :
        SameCallout(made[i], made[j]) =>
          \/ Level(made[i].priority) > Level(made[j].priority)
          \/ Level(made[i].priority) = Level(made[j].priority) /\ i <= j}
  IN /\ Range(callouts) = {made[i] : i \in strongest}
     /\ Len(callouts) = Cardinality(strongest)

\* The SRC names the subsystem of the first call of the highest level
\* (setSrcSubsystem()); a low call about the default subsystem does not count.
SubsystemExact ==
  LET Counts(i) == ~(CallSubsystem(ffdc[i]) = "CEC_HARDWARE" /\ ffdc[i].priority = "LOW")
      first == {i \in DOMAIN ffdc : Counts(i) /\ \A j \in DOMAIN ffdc : Counts(j) =>
                  \/ Level(ffdc[i].priority) > Level(ffdc[j].priority)
                  \/ Level(ffdc[i].priority) = Level(ffdc[j].priority) /\ i <= j}
  IN IF first = {} THEN subsystem = DefaultSubsystem
     ELSE \A i \in first : subsystem = [name |-> CallSubsystem(ffdc[i]),
                                         priority |-> ffdc[i].priority]

\* While an analysis lasts no callout disappears, changes place or falls to a
\* lower level, not even when an exception ends the resolution.
CalloutsKept ==
  [][phase' # "idle" => \A i \in DOMAIN callouts :
       /\ i \in DOMAIN callouts'
       /\ SameCallout(callouts[i], callouts'[i])
       /\ Level(callouts[i].priority) <= Level(callouts'[i].priority)]_vars

\* A system checkstop is never reported without a callout, and an analysis that
\* threw an exception asks for next level support whatever it called out before.
SomebodyCalled ==
  phase = "done" /\ (kind = "SYSTEM_CHECKSTOP" \/ failed) =>
    /\ callouts # <<>>
    /\ failed => ProcedureCallout("next_level_support", "HIGH") \in Range(callouts)

\* Between analyses the static stack of parseAction() holds only actions that a
\* data file calls for and cannot resolve: with complete data files every walk
\* starts clean.
StackHoldsBroken ==
  phase = "idle" => \A name \in stack : \E m \in DOMAIN Files :
    /\ name \in Called(m)
    /\ ParseAction[<<m, name, {}>>].outcome = Threw

\* A signature whose only resolution is the plugin for the step check faults.
StepChecked(s) ==
  LET found == GetResolution(s, {}).leaves
  IN Len(found) = 1 /\ found[1].type = "plugin" /\ found[1].name = "tod_step_check_fault"

\* A fault of the network as a processor reports it: its own clock, if it is the
\* MDMT, or the path to an IOHS unit of it, which it names by its port.
PathFault(p, r, top) ==
  /\ Readable(r)
  /\ StepCheckFault(r, top)
  /\ \/ IsMdmt(r, top)
     \/ /\ PortInUse(r, top) \notin r.failed
        /\ \E u \in Target :
             p \in Above[u] /\ Type[u] = "iohs" /\ Pos[u] = r.port[PortInUse(r, top)]

\* For a step check fault of the TOD a processor is guarded only if its own fault is
\* internal and no processor reports a fault of the active network, be it of the
\* MDMT or of a path, or if it reported the attention and no processor reports
\* any fault, in either topology (tod_step_check_fault()).
TodGuards ==
  phase = "done" /\ root # NotFound /\ ~failed /\ StepChecked(sigs[root]) =>
    \A i \in DOMAIN callouts : callouts[i].guard # "GARD_NULL" =>
      LET c == callouts[i].entity
      IN \/ /\ c \in active /\ InternalFault(seen.tod[c])
            /\ \A p \in active : ~PathFault(p, seen.tod[p], "ACTIVE")
         \/ /\ c = sigs[root].chip
            /\ \A p \in active : /\ ~InternalFault(seen.tod[p])
                                 /\ ~PathFault(p, seen.tod[p], "ACTIVE")
                                 /\ ~PathFault(p, seen.tod[p], "BACKUP")

--------------------------------------------------------------------------------
(* What is expected of the data files. *)

\* The data files flag as relayed only signatures of the FIRs of a processor's
\* memory channels, as those of P10 do.
RelayFlags ==
  \A list \in Isolated : \A i \in DOMAIN list :
    HasData(list[i]) /\ IsFlagSet(list[i], "attn_from_ocmb") =>
      IsProc(list[i]) /\ list[i].id \in {"MC_DSTL_FIR", "MC_USTL_FIR"}

\* A resolution that asks for something whenever it does not fail, whatever the
\* active processors are and the hardware answers.
Speaks(leaf, list, i) ==
  \A procs \in SUBSET Proc, answer \in Readings :
    LET d == ResolutionCalls(leaf, list[i].chip, list, procs, answer)
    IN d.outcome = "ok" => d.calls # <<>>

\* Among the resolutions of a signature that is blamed for a system checkstop
\* there is one of those.  It is for the data files to see to that.
CheckstopsCall ==
  \A list \in Isolated :
    LET i == FilterRootCause("SYSTEM_CHECKSTOP", list)
        r == GetResolution(list[i], {})
    IN i > 0 /\ r.outcome = "ok" => \E n \in DOMAIN r.leaves : Speaks(r.leaves[n], list, i)

--------------------------------------------------------------------------------
(* What a comment says and the code does not do. *)

\* The comment at __findTiRootCause() says that signatures with the flags
\* recovered_error, informational_only and attn_from_ocmb are skipped; the data
\* files give the first two by way of the action.
DocFlags ==
  LET s == sigs[root]
      Flagged(flag) == IsFlagSet(s, flag) \/ ActionHasFlag[Model[s.chip], ParseSignature(s), flag]
  IN root # NotFound /\ kind = "TERMINATE_IMMEDIATE" /\ Complete /\ RankIn(s, sigs) = 11 =>
       \A flag \in {"recovered_error", "informational_only", "attn_from_ocmb"} : ~Flagged(flag)

\* The comment at the assertion of parseAction() says that it is there to
\* prevent cyclic recursion: it fails for a root cause only if the walk of its
\* action, started afresh, is cyclic.
DocStack ==
  phase = "aborted" /\ root # NotFound /\ leaves = <<>> /\ calls = <<>> =>
    ParseAction[<<Model[sigs[root].chip], ParseSignature(sigs[root]), {}>>].outcome = Aborted

================================================================================
