------------------------------- MODULE MCAnalyzer -------------------------------
(***************************************************************************)
(* An instance of Analyzer for TLC: two processors on one module, so that  *)
(* they share a location code, with a bus between them; two Explorer and   *)
(* one Odyssey OCMB, and one OCMB of a level that has no RAS data.  The    *)
(* data files are cut down to the actions that differ in kind, and keep    *)
(* what they lack: P10 and Odyssey files have no action level2_M_th1.      *)
(***************************************************************************)
EXTENDS Analyzer

\* Each target with its type, its parent and its position.
Tree ==
     "p0"   :> <<"proc", NoTarget, 0>>  @@ "p1"   :> <<"proc", NoTarget, 1>>
  @@ "i0"   :> <<"iohs", "p0", 0>>      @@ "i1"   :> <<"iohs", "p1", 1>>
  @@ "i2"   :> <<"iohs", "p0", 2>>      @@ "c0"   :> <<"core", "p0", 0>>
  @@ "m0"   :> <<"mcc", "p0", 0>>       @@ "m1"   :> <<"mcc", "p1", 0>>
  @@ "omi0" :> <<"omi", "m0", 0>>       @@ "omi1" :> <<"omi", "m0", 1>>
  @@ "omi2" :> <<"omi", "m1", 0>>       @@ "omi3" :> <<"omi", "m1", 1>>
  @@ "e0"   :> <<"ocmb", "omi0", 0>>    @@ "o0"   :> <<"ocmb", "omi1", 1>>
  @@ "e1"   :> <<"ocmb", "omi2", 8>>    @@ "x0"   :> <<"ocmb", "omi3", 9>>
  @@ "mp0"  :> <<"mem_port", "e0", 0>>  @@ "d0"   :> <<"dimm", "mp0", 0>>
  @@ "bmc0" :> <<"bmc", NoTarget, 0>>

MCTarget == DOMAIN Tree
MCType == [t \in MCTarget |-> Tree[t][1]]
MCParent == [t \in MCTarget |-> Tree[t][2]]
MCPos == [t \in MCTarget |-> Tree[t][3]]
MCOrder == <<"p0", "i0", "i2", "c0", "m0", "omi0", "e0", "mp0", "d0", "omi1", "o0",
             "p1", "i1", "m1", "omi2", "e1", "omi3", "x0", "bmc0">>
MCCode == [t \in {"p0", "p1"} |-> "P0-C15"] @@ "e0" :> "P0-C22" @@ "o0" :> "P0-C23"
          @@ "e1" :> "P0-C24" @@ "x0" :> "P0-C25" @@ "d0" :> "P0-C22-C1" @@ "bmc0" :> "P0-C5"

\* The peer of i2 is on a processor that this machine does not have.
MCPeer == "i0" :> "i1" @@ "i1" :> "i0" @@ "i2" :> NoTarget
MCModel == [c \in {"p0", "p1"} |-> "P10_20"] @@ [c \in {"e0", "e1"} |-> "EXPLORER_20"]
           @@ "o0" :> "ODYSSEY_10" @@ "x0" :> "EXPLORER_30"

E(type, name, priority, guard) ==
  [type |-> type, name |-> name, priority |-> priority, guard |-> guard, instance |-> 0]
Do(name) == E("action", name, "LOW", FALSE)
Mark(flag) == E("flag", flag, "LOW", FALSE)
Plugin(name, inst) ==
  [type |-> "plugin", name |-> name, priority |-> "LOW", guard |-> FALSE, instance |-> inst]
Level2 == <<E("callout_procedure", "next_level_support", "MED", FALSE)>>

P10File == [
  flags |-> <<"EQ_CORE_FIR", 1>> :> {"cs_possible"} @@ <<"MC_DSTL_FIR", 0>> :> {"attn_from_ocmb"}
         @@ <<"MC_USTL_FIR", 5>> :> {"sue_source"},
  signatures |-> <<"TP_LOCAL_FIR", 42, 0>> :> "rcs_osc_error_0"
         @@ <<"PLL_UNLOCK", 0, 0>> :> "pll_unlock_0"
         @@ <<"TOD_ERROR", 14, 0>> :> "tod_step_check_fault"
         @@ <<"MC_DSTL_FIR", 0, 0>> :> "downstream_attn"
         @@ <<"MC_DSTL_FIR", 22, 0>> :> "channel_timeout_omi0_th_1"
         @@ <<"MC_DSTL_FIR", 23, 0>> :> "channel_timeout_omi1_th_1"
         @@ <<"MC_USTL_FIR", 5, 0>> :> "ocmb0_and_attached_dimms"
         @@ <<"MC_OMI_DL_ERR_RPT", 0, 0>> :> "omi_bus0"
         @@ <<"EQ_CORE_FIR", 1, 0>> :> "core0_M_th_1_sue"
         @@ <<"PB_FIR", 3, 0>> :> "bus_endpoints_iohs0_th_1"
         @@ <<"PB_FIR", 4, 0>> :> "bus_endpoints_iohs2_th_1"
         @@ <<"PB_EXT_FIR", 0, 0>> :> "level2_M_th_1"
         @@ <<"N0_LOCAL_FIR", 1, 0>> :> "ncu_timeout"
         @@ <<"N0_LOCAL_FIR", 2, 0>> :> "host_detected_lpc_timeout"
         @@ <<"EQ_L3_FIR", 2, 0>> :> "th_32perDay",
  units |-> "core0" :> <<"core", 0>> @@ "omi0" :> <<"omi", 0>>
         @@ "iohs0" :> <<"iohs", 0>> @@ "iohs2" :> <<"iohs", 2>>,
  buses |-> "omi0" :> [type |-> "OMI_BUS", unit |-> "omi0"]
         @@ "iohs0" :> [type |-> "SMP_BUS", unit |-> "iohs0"]
         @@ "iohs2" :> [type |-> "SMP_BUS", unit |-> "iohs2"],
  actions |-> "level2_M_th_1" :> Level2
         @@ "th_1" :> <<>>
         @@ "th_32perDay" :> <<Mark("recovered_error")>>
         @@ "self_L" :> <<E("callout_self", "", "LOW", FALSE)>>
         @@ "rcs_osc_error_0" :> <<E("callout_clock", "OSC_REF_CLOCK_0", "HIGH", TRUE),
                                   Do("self_L"), Do("th_1")>>
         @@ "pll_unlock_0" :> <<Plugin("pll_unlock", 0)>>
         @@ "tod_step_check_fault" :> <<Plugin("tod_step_check_fault", 0)>>
         @@ "downstream_attn" :> <<Do("level2_M_th_1"), Mark("recovered_error")>>
         @@ "channel_timeout_omi0_th_1" :> <<Plugin("channel_timeout", 0), Do("th_1")>>
         @@ "channel_timeout_omi1_th_1" :> <<Plugin("channel_timeout", 1), Do("th_1")>>
         @@ "ocmb0_and_attached_dimms" :>
              <<E("callout_connected", "omi0", "MED", TRUE), Plugin("callout_attached_dimms", 0)>>
         @@ "omi_bus0" :> <<E("callout_unit", "omi0", "MED_A", TRUE),
                            E("callout_connected", "omi0", "MED_A", TRUE),
                            E("callout_bus", "omi0", "LOW", FALSE)>>
         @@ "core0_M_th_1_sue" :> <<Do("sue_seen_H"), E("callout_unit", "core0", "MED", FALSE),
                                    E("callout_self", "", "HIGH", TRUE)>>
         @@ "sue_seen_H" :> <<E("callout_procedure", "find_sue_root_cause", "HIGH", FALSE),
                              Mark("sue_seen")>>
         @@ "bus_endpoints_iohs0_th_1" :> <<E("callout_unit", "iohs0", "MED_A", TRUE),
                                            E("callout_connected", "iohs0", "MED_A", TRUE)>>
         @@ "bus_endpoints_iohs2_th_1" :> <<E("callout_unit", "iohs2", "MED_A", TRUE),
                                            E("callout_connected", "iohs2", "MED_A", TRUE)>>
         @@ "ncu_timeout" :> <<Plugin("lpc_timeout", 0)>>
         @@ "host_detected_lpc_timeout" :> <<Plugin("lpc_timeout_workaround", 0)>>]

MCFiles == "P10_20" :> P10File
  @@ "EXPLORER_20" :> [
       flags |-> <<"RDFFIR", 17>> :> {"sue_source"},
       signatures |-> <<"SRQFIR", 25, 0>> :> "omi_bus" @@ <<"RDFFIR", 17, 0>> :> "dimm_H"
                   @@ <<"MMIOFIR", 0, 0>> :> "downstream_attn",
       units |-> "dimm" :> <<"dimm", 0>> @@ "mem_port" :> <<"mem_port", 0>>,
       buses |-> "omi_bus" :> [type |-> "OMI_BUS", unit |-> NoUnit],
       actions |-> "level2_M_th1" :> Level2
                @@ "downstream_attn" :> <<Do("level2_M_th1")>>
                @@ "dimm_H" :> <<E("callout_unit", "dimm", "HIGH", TRUE),
                                 E("callout_unit", "mem_port", "LOW", FALSE)>>
                @@ "omi_bus" :> <<E("callout_self", "", "MED_A", TRUE),
                                  E("callout_connected", "omi_bus", "MED_A", TRUE),
                                  E("callout_bus", "omi_bus", "LOW", FALSE)>>]
  @@ "ODYSSEY_10" :> [
       flags |-> <<"RDF_FIR", 16>> :> {"sue_source", "odp_data_corrupt_side_effect"}
              @@ <<"RDF_FIR", 18>> :> {"sue_source"}
              @@ <<"ODP_FIR", 1>> :> {"odp_data_corrupt_root_cause"},
       signatures |-> <<"PLL_UNLOCK", 0, 0>> :> "pll_unlock" @@ <<"RDF_FIR", 16, 0>> :> "level2_M_th_1"
                   @@ <<"RDF_FIR", 18, 0>> :> "ocmb_M" @@ <<"RDF_FIR", 41, 0>> :> "ocmb_M"
                   @@ <<"ODP_FIR", 1, 0>> :> "ocmb_M",
       units |-> <<>>, buses |-> <<>>,
       actions |-> "level2_M_th_1" :> Level2 @@ "pll_unlock" :> <<Plugin("pll_unlock", 0)>>
                @@ "ocmb_M" :> <<E("callout_self", "", "MED", TRUE),
                                 E("callout_part", "PNOR", "LOW", FALSE)>>]

MCChipData == {"P10_20", "EXPLORER_20", "ODYSSEY_10", "EXPLORER_30"}

--------------------------------------------------------------------------------
(* Everything is up; before Hostboot has synced the attributes; with a     *)
(* channel masked and a processor down.                                    *)

Up == [probed |-> MCTarget, attr |-> [c \in Chip |-> "both"], cfam |-> Proc, scom |-> Proc,
       masked |-> {}]
MCHardware ==
  {Up,
   [Up EXCEPT !.attr = [c \in Chip |-> IF c = "e1" THEN "one" ELSE "none"]],
   [Up EXCEPT !.probed = @ \ {"p1"}, !.masked = {<<"m0", 0>>}]}

\* Signatures, in no order.
S(chip, id, bit, attn) == [chip |-> chip, id |-> id, bit |-> bit, inst |-> 0, attn |-> attn]

Clocks == {S("p0", "TP_LOCAL_FIR", 42, "RECOVERABLE"), S("p0", "PLL_UNLOCK", 0, "RECOVERABLE"),
  S("p1", "PLL_UNLOCK", 0, "RECOVERABLE"), S("o0", "PLL_UNLOCK", 0, "RECOVERABLE"),
  S("p1", "TOD_ERROR", 14, "CHIP_CS")}

Memory == {S("e0", "SRQFIR", 25, "UNIT_CS"), S("e0", "MMIOFIR", 0, "RECOVERABLE"),
  S("e1", "RDFFIR", 17, "RECOVERABLE"), S("o0", "RDF_FIR", 16, "RECOVERABLE"),
  S("o0", "RDF_FIR", 18, "RECOVERABLE"), S("o0", "RDF_FIR", 41, "RECOVERABLE"),
  S("o0", "ODP_FIR", 1, "RECOVERABLE"), S("x0", "RDFFIR", 17, "RECOVERABLE"),
  S("p0", "MC_DSTL_FIR", 0, "UNIT_CS"), S("p0", "MC_DSTL_FIR", 22, "UNIT_CS"),
  S("p0", "MC_DSTL_FIR", 23, "UNIT_CS"), S("p0", "MC_USTL_FIR", 5, "UNIT_CS"),
  S("p0", "MC_OMI_DL_ERR_RPT", 0, "RECOVERABLE")}

Others == {S("p0", "EQ_CORE_FIR", 1, "RECOVERABLE"), S("p0", "PB_FIR", 3, "CHIP_CS"),
  S("p0", "PB_FIR", 4, "UNIT_CS"), S("p1", "PB_EXT_FIR", 0, "CHIP_CS"),
  S("p0", "N0_LOCAL_FIR", 1, "UNIT_CS"), S("p1", "N0_LOCAL_FIR", 2, "CHIP_CS"),
  S("p0", "EQ_L3_FIR", 2, "RECOVERABLE"), S("p1", "EQ_L3_FIR", 9, "RECOVERABLE")}

Mixed == {S("p0", "PLL_UNLOCK", 0, "RECOVERABLE"), S("e0", "SRQFIR", 25, "UNIT_CS"),
  S("e1", "RDFFIR", 17, "RECOVERABLE"), S("p0", "MC_DSTL_FIR", 0, "UNIT_CS"),
  S("p1", "PB_EXT_FIR", 0, "CHIP_CS")}

NoRepeat(list) == \A i, j \in DOMAIN list : list[i] = list[j] => i = j
Lists(set, n) == {list \in [1..n -> set] : NoRepeat(list)}
MCIsolated ==
  {list : list \in UNION {Lists(Clocks \cup Memory \cup Others, n) : n \in 0..2} \cup Lists(Mixed, 3)}

\* No fault; the MDMT of the active topology at fault; a fault on the path to
\* the other processor, seen by it; the same with an internal fault behind it, in
\* the backup topology only, and with a port that cannot be read; internal
\* faults; a register that cannot be read.
R(status, error, lost) ==
  [status |-> status, error |-> error, failed |-> lost,
   port |-> [p \in {"PRI_PORT_0", "PRI_PORT_1", "SEC_PORT_0", "SEC_PORT_1"} |->
               IF p \in {"PRI_PORT_0", "SEC_PORT_1"} THEN 1 ELSE 0]]
Regs(r0, r1) == [lpc |-> FALSE, tod |-> "p0" :> r0 @@ "p1" :> r1]
Master(error) == R({13, 14}, error, {})
Slave(error, lost) == R({}, error, lost)
MCQuiet == Regs(Master({}), Slave({}, {}))
MCReadings ==
  {MCQuiet, [MCQuiet EXCEPT !.lpc = TRUE],
   Regs(Master({14}), Slave({16}, {})), Regs(Master({}), Slave({16}, {})),
   Regs(Master({17}), Slave({16}, {})), Regs(Master({}), R({19}, {21}, {})),
   Regs(Master({17}), Slave({16, 17}, {"PRI_PORT_0"})), Regs(Master({17}), Slave({}, {})),
   Regs(Master({14, 17}), Slave({17}, {"TOD_ERROR"})), Regs(R({0, 1, 2, 17, 18}, {15, 17}, {}), Slave({21}, {})),
   Regs(Slave({16}, {}), Slave({16}, {}))}

\* The data files of the instance are among those for which RelayNotBlamed and
\* SomebodyCalled are proved.
ASSUME DataFilesMC == RelayFlags /\ CheckstopsCall

================================================================================
