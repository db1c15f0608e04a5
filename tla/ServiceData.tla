------------------------------ MODULE ServiceData ------------------------------
(***************************************************************************)
(* What an analysis asks for: the list of callouts of the PEL, with at     *)
(* most one entry for a location code and one for a procedure, and the     *)
(* subsystem of the SRC, which follows the callout of highest priority.    *)
(*                                                                         *)
(* Resolutions and plugins make calls; a call about a bus looks up the     *)
(* target at the other end and may throw an exception before it adds       *)
(* anything.                                                               *)
(***************************************************************************)
EXTENDS DevTree

Priority == {"HIGH", "MED", "MED_A", "MED_B", "MED_C", "LOW"}

\* The medium groups are on one level.
Level(priority) ==
  CASE priority = "HIGH" -> 3
    [] priority = "LOW"  -> 1
    [] OTHER             -> 2

Bus == {"SMP_BUS", "OMI_BUS"}
Clock == {"OSC_REF_CLOCK_0", "OSC_REF_CLOCK_1", "TOD_CLOCK"}
Procedure == {"next_level_support", "find_sue_root_cause"}
Part == {"PNOR"}

\* Subsystems of a bus, a clock, a procedure and a part.
SubsystemOf(name) ==
  CASE name = "SMP_BUS"                              -> "PROCESSOR_BUS"
    [] name = "OMI_BUS"                              -> "MEMORY_BUS"
    [] name \in {"OSC_REF_CLOCK_0", "OSC_REF_CLOCK_1"} -> "CEC_CLOCKS"
    [] name = "TOD_CLOCK"                            -> "CEC_TOD"
    [] name \in Procedure                            -> "OTHERS"
    [] OTHER                                         -> "CEC_HARDWARE"

GetTargetSubsystem(t) ==
  LET type == IF t = NoTarget THEN "none" ELSE Type[t]
  IN CASE type = "dimm"                                 -> "MEMORY_DIMM"
       [] type = "proc"                                 -> "PROCESSOR_FRU"
       [] type = "nx"                                   -> "PROCESSOR"
       [] type \in {"core", "eq", "pec", "nmmu", "pau", "iohs", "pauc"} -> "PROCESSOR_UNIT"
       [] type = "phb"                                  -> "PHB"
       [] type = "smpgroup"                             -> "PROCESSOR_BUS"
       [] type \in {"mc", "omi", "mcc", "omic", "mem_port"} -> "MEMORY_CTLR"
       [] type = "ocmb"                                 -> "MEMORY_FRU"
       [] OTHER                                         -> "CEC_HARDWARE"

\* What may be guarded depends on how the system went down.
QueryGuardPolicy(kind) ==
  CASE kind = "SYSTEM_CHECKSTOP"    -> "GARD_Unrecoverable"
    [] kind = "TERMINATE_IMMEDIATE" -> "GARD_Predictive"
    [] OTHER                        -> "GARD_NULL"

--------------------------------------------------------------------------------
(* Calls. *)

TargetCall(t, priority, guard) ==
  [op |-> "target", target |-> t, name |-> "", priority |-> priority, guard |-> guard]
ConnectedCall(rx, bus, priority, guard) ==
  [op |-> "connected", target |-> rx, name |-> bus, priority |-> priority, guard |-> guard]
BusCall(rx, bus, priority, guard) ==
  [op |-> "bus", target |-> rx, name |-> bus, priority |-> priority, guard |-> guard]
ClockCall(clock, priority) ==
  [op |-> "clock", target |-> NoTarget, name |-> clock, priority |-> priority, guard |-> FALSE]
ProcedureCall(procedure, priority) ==
  [op |-> "procedure", target |-> NoTarget, name |-> procedure, priority |-> priority,
   guard |-> FALSE]
PartCall(part, priority) ==
  [op |-> "part", target |-> NoTarget, name |-> part, priority |-> priority, guard |-> FALSE]

\* The far end of the bus a call is about.
TxTarget(call) ==
  IF call.op \in {"connected", "bus"} THEN GetConnectedTarget(call.target, call.name)
  ELSE NoTarget

Outcome(call) ==
  IF TxTarget(call) \in {Threw, Aborted} THEN TxTarget(call)
  ELSE IF call.op = "part" /\ call.name \notin Part THEN Threw ELSE "ok"

--------------------------------------------------------------------------------
(* Entries of the callout list. *)

\* The entry for a target: the part it is on, and the target itself if it is to
\* be guarded.
TargetCallout(t, priority, guard, kind) ==
  LET guarded == guard /\ QueryGuardPolicy(kind) # "GARD_NULL"
  IN [type |-> "LocationCode", key |-> GetLocationCode[t], priority |-> priority,
      entity |-> IF guarded THEN t ELSE NoTarget,
      guard |-> IF guarded THEN QueryGuardPolicy(kind) ELSE "GARD_NULL"]

BackplaneCallout(priority) ==
  [type |-> "LocationCode", key |-> "P0", priority |-> priority,
   entity |-> NoTarget, guard |-> "GARD_NULL"]

ProcedureCallout(procedure, priority) ==
  [type |-> "Procedure", key |-> procedure, priority |-> priority,
   entity |-> NoTarget, guard |-> "GARD_NULL"]

\* The PNOR is on the BMC card.
Bmc == IF "bmc0" \in Target THEN "bmc0" ELSE NoTarget

SameCallout(c, d) == c.type = d.type /\ c.key = d.key

--------------------------------------------------------------------------------
(* Faulty variants of definitions below, which the properties must tell from them. *)

\* Of two callouts of one level the last one wins.
AddCalloutLast(list, c) ==
  LET same == {i \in DOMAIN list : SameCallout(list[i], c)}
  IN IF same = {} THEN Append(list, c)
     ELSE [i \in DOMAIN list |->
             IF i \in same /\ Level(list[i].priority) <= Level(c.priority) THEN c ELSE list[i]]

\* The newest callout of a part takes the place of the older one.
AddCalloutNewest(list, c) ==
  LET same == {i \in DOMAIN list : SameCallout(list[i], c)}
  IN IF same = {} THEN Append(list, c)
     ELSE [i \in DOMAIN list |-> IF i \in same THEN c ELSE list[i]]

\* The default subsystem is kept like any other until a higher priority comes.
SetSrcSubsystemDefault(subsystem, name, priority) ==
  IF Level(subsystem.priority) < Level(priority)
    THEN [name |-> name, priority |-> priority] ELSE subsystem

--------------------------------------------------------------------------------
(* The callout list and the subsystem. *)

\* A callout that is in the list already is replaced by one of higher priority
\* only, which takes its place.
AddCallout(list, c) ==
  LET same == {i \in DOMAIN list : SameCallout(list[i], c)}
  IN IF same = {} THEN Append(list, c)
     ELSE [i \in DOMAIN list |->
             IF i \in same /\ Level(list[i].priority) < Level(c.priority) THEN c ELSE list[i]]

\* What a call that does not throw does to the list.
CalloutList(list, call, kind) ==
  LET One(t) == TargetCallout(t, call.priority, call.guard, kind)
  IN CASE call.op = "target"    -> AddCallout(list, One(call.target))
       [] call.op = "connected" -> AddCallout(list, One(TxTarget(call)))
       [] call.op = "bus"       -> AddCallout(AddCallout(AddCallout(list,
                                     One(call.target)), One(TxTarget(call))),
                                     BackplaneCallout(call.priority))
       [] call.op = "clock"     -> AddCallout(list, BackplaneCallout(call.priority))
       [] call.op = "procedure" -> AddCallout(list, ProcedureCallout(call.name, call.priority))
       [] OTHER                 -> AddCallout(list, TargetCallout(Bmc, call.priority, FALSE, kind))

DefaultSubsystem == [name |-> "CEC_HARDWARE", priority |-> "LOW"]

\* The first subsystem of the highest priority, where the default gives way to
\* any.
SetSrcSubsystem(subsystem, name, priority) ==
  IF Level(subsystem.priority) < Level(priority) \/ subsystem = DefaultSubsystem
    THEN [name |-> name, priority |-> priority] ELSE subsystem

CallSubsystem(call) ==
  CASE call.op = "target"    -> GetTargetSubsystem(call.target)
    [] call.op = "connected" -> GetTargetSubsystem(TxTarget(call))
    [] OTHER                 -> SubsystemOf(call.name)

================================================================================
