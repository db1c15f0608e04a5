-------------------------------- MODULE Plugins --------------------------------
(***************************************************************************)
(* Resolutions: the service actions of an analysis, most of them a call to *)
(* the service data, some of them plugins, functions of a chip model that  *)
(* decide on their calls from the other signatures or from the hardware.   *)
(*                                                                         *)
(* A resolution yields the calls it makes in order, or the exception or    *)
(* the failed assertion that ends it before it makes any.                  *)
(***************************************************************************)
EXTENDS ServiceData, SequencesExt, Integers

Calls(calls) == [outcome |-> "ok", calls |-> calls]
Fails(outcome) == [outcome |-> outcome, calls |-> <<>>]

\* The elements of a list at the given places, in the order of the list.
Selected(list, places) ==
  LET upTo[n \in 0 .. Len(list)] ==
        IF n = 0 THEN <<>>
        ELSE IF n \in places THEN Append(upTo[n - 1], list[n]) ELSE upTo[n - 1]
  IN upTo[Len(list)]

\* Targets in the order of the device tree.
InOrder(targets) == Selected(Order, {i \in DOMAIN Order : Order[i] \in targets})

\* The places of the PLL unlocks among the signatures.
PllUnlocks(sigs) == {i \in DOMAIN sigs : sigs[i].id = "PLL_UNLOCK"}

TargetCalls(targets, priority, guard) ==
  [i \in DOMAIN targets |-> TargetCall(targets[i], priority, guard)]

Chips(sigs) == [i \in DOMAIN sigs |-> sigs[i].chip]

OscClock(n) == IF n = 0 THEN "OSC_REF_CLOCK_0" ELSE "OSC_REF_CLOCK_1"

--------------------------------------------------------------------------------
(* P10 plugins. *)

\* The instance is the clock, which is the bit of the signature.
P10_PllUnlock(inst, sigs) ==
  LET list == Selected(sigs, {i \in PllUnlocks(sigs) : sigs[i].bit = inst})
      shared == Len(list) > 1
  IN Calls(<<ClockCall(OscClock(inst), IF shared THEN "HIGH" ELSE "MED_A")>>
           \o TargetCalls(Chips(list), IF shared THEN "MED" ELSE "MED_A", ~shared))

LpcTimeoutCallout(chip) ==
  <<PartCall("PNOR", "MED")>>
  \o (IF Pos[chip] \in {0, 1} THEN <<ClockCall(OscClock(Pos[chip]), "MED")>> ELSE <<>>)
  \o <<TargetCall(chip, "MED", FALSE)>>

\* The timeout is confirmed with the hardware.
LpcTimeout(chip, timedOut) ==
  Calls(IF timedOut THEN LpcTimeoutCallout(chip)
        ELSE <<ProcedureCall("next_level_support", "HIGH")>>)

LpcTimeoutWorkaround(chip) == Calls(LpcTimeoutCallout(chip))

CalloutAttachedDimms(inst, chip) ==
  LET omi == GetChipUnit(chip, "omi", inst)
      ocmb == GetConnectedTarget(omi, "OMI_BUS")
      dimms == {t \in Target : Type[t] = "dimm" /\ ocmb \in Above[t]}
  IN IF omi = Threw THEN Fails(Threw)
     ELSE IF omi = NoTarget THEN Calls(<<>>)
     ELSE IF ocmb \in {Threw, Aborted} THEN Fails(ocmb)
     ELSE Calls(TargetCalls(InOrder(dimms), "MED", TRUE))

\* Two timeouts on the channels of the chip point to the processor, one to the
\* OCMB.
ChannelTimeout(inst, chip, sigs) ==
  LET omi == GetChipUnit(chip, "omi", inst)
      IsTimeout(s) == s.chip = chip /\ s.id = "MC_DSTL_FIR" /\ s.bit \in {22, 23}
      several == \E i, j \in DOMAIN sigs : i # j /\ IsTimeout(sigs[i]) /\ IsTimeout(sigs[j])
  IN CASE omi = Threw    -> Fails(Threw)
       [] omi = NoTarget -> Calls(<<>>)
       [] OTHER          -> Calls(<<BusCall(omi, "OMI_BUS", "LOW", FALSE),
                                    IF several THEN TargetCall(omi, "HIGH", TRUE)
                                    ELSE ConnectedCall(omi, "OMI_BUS", "HIGH", TRUE)>>)

--------------------------------------------------------------------------------
(* Odyssey plugin. *)

\* One OCMB of the processor is at fault itself, several blame the processor.
Ody_PllUnlock(chip, sigs) ==
  LET proc == GetParentProcessor(chip)
      Below(i) == GetParentProcessor(sigs[i].chip)
      list == Selected(sigs, {i \in PllUnlocks(sigs) : Below(i) = proc})
  IN IF Threw \in {proc} \cup {Below(i) : i \in PllUnlocks(sigs)} THEN Fails(Threw)
     ELSE
     CASE list = <<>>   -> Fails(Threw)
       [] Len(list) = 1 -> Calls(<<TargetCall(list[1].chip, "HIGH", TRUE),
                                   TargetCall(proc, "LOW", FALSE)>>)
       [] OTHER         -> Calls(<<TargetCall(proc, "HIGH", TRUE)>>
                                 \o TargetCalls(Chips(list), "LOW", FALSE))

--------------------------------------------------------------------------------
(* The step check faults of the TOD network.  What a processor's registers *)
(* hold is a record: failed, the registers that cannot be read; error and  *)
(* status, the bits that are set; port, the IOHS position in each port     *)
(* control register.                                                       *)

Topology == <<"ACTIVE", "BACKUP">>

Port(primary, path) ==
  CASE primary /\ ~path -> "PRI_PORT_0"
    [] primary /\ path  -> "PRI_PORT_1"
    [] ~primary /\ ~path -> "SEC_PORT_0"
    [] OTHER            -> "SEC_PORT_1"

\* Status bits 0 to 2 tell which topology is the primary one.
IsPrimary(r, top) == (r.status \cap 0..2 = {}) <=> (top = "ACTIVE")

StatusBit(r, top, primary, secondary) ==
  (IF IsPrimary(r, top) THEN primary ELSE secondary) \in r.status

IsMdmt(r, top) == StatusBit(r, top, 13, 17) /\ StatusBit(r, top, 14, 18)

\* The path in use when the fault was seen: TRUE is path 1.
PathSelect(r, top) ==
  IF IsMdmt(r, top) THEN StatusBit(r, top, 12, 16) ELSE StatusBit(r, top, 15, 19)

StepCheckFault(r, top) ==
  (CASE IsMdmt(r, top) /\ ~PathSelect(r, top) -> 14
     [] IsMdmt(r, top) /\ PathSelect(r, top)  -> 15
     [] ~IsMdmt(r, top) /\ ~PathSelect(r, top) -> 16
     [] OTHER                                 -> 21) \in r.error

Readable(r) == r.failed \cap {"TOD_ERROR", "TOD_PSS_MSS_STATUS"} = {}

\* The chip with the IOHS at the other end, or why there is none.
SourceAt(far) == IF far \in {Threw, Aborted} THEN far ELSE GetParentChip(far)

\* The chip that drives the clock into an IOHS of this chip.
GetChipSourcingClock(iohs) ==
  IF iohs \in {NoTarget, Threw} THEN iohs ELSE SourceAt(GetConnectedTarget(iohs, "SMP_BUS"))

\* A fault on the way to a chip that is not the MDMT.
NetworkFault(r, top) == Readable(r) /\ ~IsMdmt(r, top) /\ StepCheckFault(r, top)

PortInUse(r, top) == Port(IsPrimary(r, top), PathSelect(r, top))

\* The chip called out for the fault on the way to a chip, if it has one.
NetworkSource(chip, r, port, top) ==
  IF NetworkFault(r, top) /\ port \notin r.failed
    THEN GetChipSourcingClock(GetChipUnit(chip, "iohs", r.port[port])) ELSE NoTarget

\* A port that cannot be read ends the look at the topology: the internal fault
\* goes unseen.
InternalFault(r) ==
  /\ Readable(r)
  /\ NetworkFault(r, "ACTIVE") => PortInUse(r, "ACTIVE") \notin r.failed
  /\ 17 \in r.error

--------------------------------------------------------------------------------
(* Faulty variants of definitions below, which the properties must tell from them. *)

\* Internal faults are called out before those of the paths.
TopologyCallsInternalFirst(top, mdmt, network, internal) ==
  CASE mdmt # <<>> -> <<ClockCall("TOD_CLOCK", "MED"),
                        TargetCall(mdmt[Len(mdmt)], "MED", FALSE)>>
    [] mdmt = <<>> /\ internal # <<>> -> TargetCalls(internal, "MED", TRUE)
    [] OTHER -> TargetCalls(network, "MED", FALSE)

--------------------------------------------------------------------------------

\* What is called out for one topology: the clock and its MDMT if that one is
\* at fault, else both ends of each path at fault, else the chips at fault.
TopologyCalls(top, mdmt, network, internal) ==
  CASE mdmt # <<>> -> <<ClockCall("TOD_CLOCK", "MED"),
                        TargetCall(mdmt[Len(mdmt)], "MED", FALSE)>>
    [] mdmt = <<>> /\ network # <<>> -> TargetCalls(network, "MED", FALSE)
    [] OTHER -> TargetCalls(internal, "MED", TRUE)

\* The sources of the clock on the paths at fault, by chip and topology.
ClockSources(procs, regs) ==
  [p \in ToSet(procs) \X ToSet(Topology) |->
     NetworkSource(p[1], regs[p[1]], PortInUse(regs[p[1]], p[2]), p[2])]

\* Both ends of each path at fault.
NetworkFaults(faulty, source, top) ==
  [i \in 1 .. 2 * Len(faulty) |->
     IF i % 2 = 1 THEN source[<<faulty[(i + 1) \div 2], top>>] ELSE faulty[i \div 2]]

FaultCalls(top, procs, regs, source) ==
  LET At(Test(_)) == Selected(procs, {i \in DOMAIN procs : Test(procs[i])})
  IN TopologyCalls(top,
       At(LAMBDA c : IsMdmt(regs[c], top) /\ StepCheckFault(regs[c], top)),
       NetworkFaults(At(LAMBDA c : source[<<c, top>>] # NoTarget), source, top),
       At(LAMBDA c : top = "ACTIVE" /\ InternalFault(regs[c])))

\* The chip that reported the error is called out if none shows a fault.
DefaultCalls(chip, calls) == IF calls = <<>> THEN <<TargetCall(chip, "MED", TRUE)>> ELSE calls

\* The walk over the processors ends at the first source that cannot be told.
Trouble(procs, source) ==
  LET found == [i \in 1 .. 2 * Len(procs) |->
                  source[<<procs[(i + 1) \div 2], Topology[2 - (i % 2)]>>]]
  IN Selected(found, {i \in DOMAIN found : found[i] \in {Threw, Aborted}})

TodOutcome(chip, procs, regs, source, trouble) ==
  IF trouble # <<>> THEN Fails(trouble[1])
  ELSE Calls(DefaultCalls(chip, FaultCalls("ACTIVE", procs, regs, source)
                                \o FaultCalls("BACKUP", procs, regs, source)))

TodFaults(chip, procs, regs, source) ==
  TodOutcome(chip, procs, regs, source, Trouble(procs, source))

TodWalk(chip, procs, regs) == TodFaults(chip, procs, regs, ClockSources(procs, regs))

\* All active processors are read.
TodStepCheckFault(chip, active, regs) ==
  TodWalk(chip, InOrder({c \in active : Readable(regs[c])}), regs)

--------------------------------------------------------------------------------
(* Resolutions. *)

PluginMap ==
  [m \in {"P10_10", "P10_20"} |-> {"pll_unlock", "lpc_timeout", "lpc_timeout_workaround",
                                   "callout_attached_dimms", "channel_timeout",
                                   "tod_step_check_fault"}]
  @@ ("ODYSSEY_10" :> {"pll_unlock"})

\* The plugins read the chip of the root cause, the whole list of signatures,
\* the active processors and what the hardware answers.
PluginCalls(leaf, chip, sigs, active, seen) ==
  LET model == Model[chip]
      name == leaf.name
  IN IF model \notin DOMAIN PluginMap \/ name \notin PluginMap[model] THEN Fails(Threw)
     ELSE
     CASE name = "pll_unlock" /\ model = "ODYSSEY_10" -> Ody_PllUnlock(chip, sigs)
       [] name = "pll_unlock" /\ model # "ODYSSEY_10" -> P10_PllUnlock(leaf.instance, sigs)
       [] name = "lpc_timeout"            -> LpcTimeout(chip, seen.lpc)
       [] name = "lpc_timeout_workaround" -> LpcTimeoutWorkaround(chip)
       [] name = "callout_attached_dimms" -> CalloutAttachedDimms(leaf.instance, chip)
       [] name = "channel_timeout"        -> ChannelTimeout(leaf.instance, chip, sigs)
       [] OTHER                           -> TodStepCheckFault(chip, active, seen.tod)

\* The target of a unit of a chip, the chip itself for an empty path.
UnitTarget(chip, unit) ==
  LET units == {t \in Target : chip \in Above[t] /\ <<Type[t], Pos[t]>> = unit}
  IN IF unit = <<>> THEN chip
     ELSE IF units = {} THEN Threw
     ELSE CHOOSE t \in units : TRUE

ResolutionCalls(leaf, chip, sigs, active, seen) ==
  LET t == UnitTarget(chip, leaf.unit)
  IN IF leaf.type = "plugin" THEN PluginCalls(leaf, chip, sigs, active, seen)
     ELSE IF t = Threw THEN Fails(Threw)
     ELSE
     CASE leaf.type = "callout_connected" ->
            Calls(<<ConnectedCall(t, leaf.name, leaf.priority, leaf.guard)>>)
       [] leaf.type = "callout_bus"       ->
            Calls(<<BusCall(t, leaf.name, leaf.priority, leaf.guard)>>)
       [] leaf.type = "callout_clock"     -> Calls(<<ClockCall(leaf.name, leaf.priority)>>)
       [] leaf.type = "callout_procedure" -> Calls(<<ProcedureCall(leaf.name, leaf.priority)>>)
       [] leaf.type = "callout_part"      -> Calls(<<PartCall(leaf.name, leaf.priority)>>)
       [] OTHER                           ->
            Calls(<<TargetCall(t, leaf.priority, leaf.guard)>>)

================================================================================
