------------------------------- MODULE RootCause -------------------------------
(***************************************************************************)
(* The root cause filter: which signature of the list that the isolator    *)
(* found is blamed.  Rules are tried in a fixed order, each one over the   *)
(* whole list, and the first signature a rule accepts is blamed; then a    *)
(* few signatures known as side effects give way to their cause.           *)
(*                                                                         *)
(* A rule yields an index into the list, NotFound, or Thrown where it asks *)
(* for the flags of a chip that has no RAS data.                           *)
(***************************************************************************)
EXTENDS RasData, Integers, FiniteSets

AttnKind == {"CHIP_CS", "UNIT_CS", "RECOVERABLE", "SP_ATTN", "HOST_ATTN"}
AnalysisType == {"SYSTEM_CHECKSTOP", "TERMINATE_IMMEDIATE", "MANUAL"}

NotFound == 0
Thrown == -1

IsProc(s) == Type[s.chip] = "proc"
IsOcmb(s) == Type[s.chip] = "ocmb"
IsP10(s) == Model[s.chip] \in {"P10_10", "P10_20"}

\* The first signature that passes the test; the test may need the flags of the
\* signatures for which reads holds.
Scan(list, Test(_), Reads(_)) ==
  LET Stop(i) == IF i # NotFound /\ Reads(list[i]) /\ ~HasData(list[i]) THEN Thrown ELSE i
  IN Stop(SelectInSeq(list, LAMBDA s : (Reads(s) /\ ~HasData(s)) \/ Test(s)))

Find(list, Test(_)) == Scan(list, Test, LAMBDA s : FALSE)

FirstOf(results) ==
  LET At(i) == IF i = 0 THEN NotFound ELSE results[i]
  IN At(SelectInSeq(results, LAMBDA r : r # NotFound))

--------------------------------------------------------------------------------
(* The rules. *)

LookForBits(list, models, id, bits) ==
  Find(list, LAMBDA s : Model[s.chip] \in models /\ s.id = id /\ s.bit \in bits)

\* Of the processors first, then of the OCMBs.
FindPllUnlock(list) ==
  FirstOf(<<Find(list, LAMBDA s : s.id = "PLL_UNLOCK" /\ IsProc(s)),
            Find(list, LAMBDA s : s.id = "PLL_UNLOCK" /\ IsOcmb(s))>>)

FindTodError(list) == Find(list, LAMBDA s : s.id = "TOD_ERROR" /\ IsProc(s))

\* A unit checkstop of a memory channel on the processor side, whose flags tell
\* whether it only relays an attention of the OCMB.
OnChannel(s) ==
  /\ IsProc(s)
  /\ s.attn = "UNIT_CS"
  /\ s.id \in {"MC_DSTL_FIR", "MC_USTL_FIR"}
  /\ IsP10(s)

ChannelFailure(s) ==
  \/ OnChannel(s) /\ ~IsFlagSet(s, "attn_from_ocmb")
  \/ IsProc(s) /\ s.id = "MC_OMI_DL_ERR_RPT"

\* Faulty variants of the two rules on OCMBs below, which the properties must tell
\* from them: a unit checkstop of an OCMB is not taken for fatal; the flag of an
\* attention that comes from an OCMB counts even if the OCMB itself reports one.
FindMemoryChannelFailureChip(list) ==
  FirstOf(<<Find(list, LAMBDA s : IsOcmb(s) /\ s.attn = "CHIP_CS"),
            Scan(list, ChannelFailure, OnChannel)>>)

FindOcmbAttnBitsAlways(list) ==
  Scan(list, LAMBDA s : IsFlagSet(s, "attn_from_ocmb"), LAMBDA s : TRUE)

\* Anything fatal to an OCMB, then the failures the processors see.
FindMemoryChannelFailure(list) ==
  FirstOf(<<Find(list, LAMBDA s : IsOcmb(s) /\ s.attn \in {"CHIP_CS", "UNIT_CS"}),
            Scan(list, ChannelFailure, OnChannel)>>)

IsCsRootCause(s) == IsFlagSet(s, "cs_possible") \/ IsFlagSet(s, "sue_source")

FindCsRootCause(list, attn) ==
  Scan(list, LAMBDA s : s.attn = attn /\ IsCsRootCause(s), LAMBDA s : s.attn = attn)

FindCsRootCause_RE(list) == FindCsRootCause(list, "RECOVERABLE")
FindCsRootCause_UCS(list) == FindCsRootCause(list, "UNIT_CS")

\* Only where no OCMB reports anything itself.
FindOcmbAttnBits(list) ==
  IF Find(list, IsOcmb) # NotFound THEN NotFound
  ELSE Scan(list, LAMBDA s : IsFlagSet(s, "attn_from_ocmb"), LAMBDA s : TRUE)

FindNonExternalCs(list) ==
  Find(list, LAMBDA s : IsProc(s) /\ s.attn = "CHIP_CS" /\ s.id # "PB_EXT_FIR")

SkippedForTi ==
  {"recovered_error", "informational_only", "mnfg_informational_only", "attn_from_ocmb"}

FindTiRootCause(list) ==
  LET Candidate(s) == s.attn \in {"RECOVERABLE", "UNIT_CS"}
      Blamed(s) == Candidate(s) /\ \A flag \in SkippedForTi : ~IsFlagSet(s, flag)
  IN Scan(list, Blamed, Candidate)

--------------------------------------------------------------------------------
(* Faulty variants of definitions below, which the properties must tell from them. *)

\* A memory channel is looked at before the clock of the TOD.
FindRootCauseClockLate(kind, list) ==
  IF list = <<>> THEN NotFound
  ELSE FirstOf(
    <<LookForBits(list, {"P10_10", "P10_20"}, "TP_LOCAL_FIR", {42, 43}),
      FindPllUnlock(list),
      FindMemoryChannelFailure(list),
      FindTodError(list),
      FindCsRootCause_RE(list),
      FindCsRootCause_UCS(list),
      FindOcmbAttnBits(list),
      FindNonExternalCs(list),
      IF kind # "SYSTEM_CHECKSTOP" THEN FindTiRootCause(list) ELSE NotFound,
      IF kind = "MANUAL" THEN 1 ELSE NotFound>>)

--------------------------------------------------------------------------------
(* The filter. *)

\* Without a checkstop the rule for TIs applies as well, and without either the
\* first of the list is taken.
FindRootCause(kind, list) ==
  IF list = <<>> THEN NotFound
  ELSE FirstOf(
    <<LookForBits(list, {"P10_10", "P10_20"}, "TP_LOCAL_FIR", {42, 43}),
      FindPllUnlock(list),
      FindTodError(list),
      FindMemoryChannelFailure(list),
      FindCsRootCause_RE(list),
      FindCsRootCause_UCS(list),
      FindOcmbAttnBits(list),
      FindNonExternalCs(list),
      IF kind # "SYSTEM_CHECKSTOP" THEN FindTiRootCause(list) ELSE NotFound,
      IF kind = "MANUAL" THEN 1 ELSE NotFound>>)

FindIueTh(list) ==
  Find(list, LAMBDA s : \/ s.id = "RDFFIR" /\ s.bit \in {17, 37}
                        \/ s.id = "RDF_FIR" /\ s.bit \in {18, 38})

\* A channel that firmware made fail.
FirmwareChannelFail(s) == <<s.id, s.bit>> \in {<<"SRQFIR", 25>>, <<"SRQ_FIR", 46>>}

\* The causes are looked for in the whole list, on whichever chip they are.
RootCauseSpecialCases(list, i) ==
  LET root == list[i]
      iue == FindIueTh(list)
      odp == IF IsFlagSet(root, "odp_data_corrupt_side_effect")
               THEN Scan(list, LAMBDA s : IsFlagSet(s, "odp_data_corrupt_root_cause"),
                               LAMBDA s : TRUE)
               ELSE NotFound
      rdf == IF <<root.id, root.bit>> = <<"RDF_FIR", 16>>
               THEN Find(list, LAMBDA s : <<s.id, s.bit>> = <<"RDF_FIR", 41>>)
               ELSE NotFound
  IN IF FirmwareChannelFail(root) /\ iue # NotFound THEN iue
     ELSE IF ~HasData(root) THEN Thrown
     ELSE IF odp # NotFound THEN odp
     ELSE IF rdf # NotFound THEN rdf
     ELSE i

FilterRootCause(kind, list) ==
  LET Special(i) == IF i > 0 THEN RootCauseSpecialCases(list, i) ELSE i
  IN Special(FindRootCause(kind, list))

================================================================================
