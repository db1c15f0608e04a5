-------------------------------- MODULE DevTree --------------------------------
(***************************************************************************)
(* What the analyzer asks of the device tree and of the hardware through   *)
(* util/pdbg: the chip a unit belongs to, the other end of a bus, the      *)
(* location code of a target, and the chips that can be analyzed now.      *)
(*                                                                         *)
(* An operation that throws an exception yields Threw, one that fails an   *)
(* assertion yields Aborted, and a null target is NoTarget.                *)
(***************************************************************************)
EXTENDS Naturals, Sequences

CONSTANTS
  Target,  \* targets of the device tree
  Type,    \* ATTR_TYPE of each target
  Parent,  \* the target each one is part of, NoTarget for those at the top
  Pos,     \* ATTR_FAPI_POS of a chip, ATTR_CHIP_UNIT_POS of a unit
  Code,    \* ATTR_LOCATION_CODE of the targets that have one
  Machine, \* whether the machine type is one that has a file of peers
  Peer,    \* the other end of each SMP bus (the peer targets file)
  Model,   \* model and EC level of each chip
  Order    \* the targets as the device tree lists them

NoTarget == "null"
Threw == "threw"
Aborted == "aborted"
NoModel == "0"

ASSUME TreeAssumption ==
  /\ {NoTarget, Threw, Aborted} \cap Target = {}
  /\ Parent \in [Target -> Target \cup {NoTarget}]
  /\ DOMAIN Type = Target
  /\ Pos \in [Target -> Nat]
  /\ DOMAIN Code \subseteq Target
  /\ Machine \in BOOLEAN
  /\ DOMAIN Peer \subseteq Target
  /\ \A t \in DOMAIN Peer : Peer[t] \in Target \cup {NoTarget}
  /\ DOMAIN Model = {t \in Target : Type[t] \in {"proc", "ocmb"}}
  /\ NoModel \notin {Model[c] : c \in DOMAIN Model}

\* The device tree is read from the top down: it lists each target once, after
\* the one that it is part of.
ASSUME OrderAssumption ==
  /\ Order \in Seq(Target)
  /\ \A t \in Target : \E i \in DOMAIN Order : Order[i] = t
  /\ \A i, j \in DOMAIN Order : Order[i] = Order[j] => i = j
  /\ \A i, j \in DOMAIN Order : Order[i] = Parent[Order[j]] => i < j

Chip == DOMAIN Model
Proc == {c \in Chip : Type[c] = "proc"}

\* The targets that contain t.
Above[t \in Target] ==
  IF Parent[t] = NoTarget THEN {} ELSE {Parent[t]} \cup Above[Parent[t]]

\* pdbg_target_parent(): nothing is inside two targets of one type.
Ancestor(type, t) ==
  LET above == {u \in Above[t] : Type[u] = type}
  IN IF above = {} THEN NoTarget ELSE CHOOSE u \in above : TRUE

GetParentChip(t) ==
  IF t \in Chip THEN t
  ELSE LET chips == {Ancestor("ocmb", t), Ancestor("proc", t)} \ {NoTarget}
       IN CASE chips = {}                      -> Threw
            [] Ancestor("ocmb", t) \in chips   -> Ancestor("ocmb", t)
            [] OTHER                           -> Ancestor("proc", t)

GetParentProcessor(t) ==
  IF Type[t] = "proc" THEN t
  ELSE IF Ancestor("proc", t) = NoTarget THEN Threw ELSE Ancestor("proc", t)

ProcUnit == {"mc", "mcc", "omi", "omic", "pauc", "pau", "nmmu", "iohs", "smpgroup",
             "eq", "core", "pec", "phb", "nx"}
OcmbUnit == {"mem_port"}

\* A unit that is not there is no error here: the caller has to look.
GetChipUnit(chip, type, pos) ==
  LET units == {u \in Target : chip \in Above[u] /\ Type[u] = type /\ Pos[u] = pos}
  IN IF type \notin (IF Type[chip] = "proc" THEN ProcUnit ELSE OcmbUnit) THEN Threw
     ELSE IF units = {} THEN NoTarget
     ELSE CHOOSE u \in units : TRUE

\* The machine type selects the file of peers, and to have none fails an
\* assertion; a target the file does not name throws, a peer this machine does not
\* have is null.
GetTargetAcrossBus(t) ==
  CASE ~Machine                      -> Aborted
    [] Machine /\ t \in DOMAIN Peer  -> Peer[t]
    [] OTHER                         -> Threw

GetConnectedTarget(t, bus) ==
  LET ocmbs == {u \in Target : t \in Above[u] /\ Type[u] = "ocmb"}
      tx == CASE bus = "SMP_BUS" /\ Type[t] \in {"smpgroup", "iohs"} -> GetTargetAcrossBus(t)
              [] bus = "OMI_BUS" /\ Type[t] = "omi" ->
                   IF \E u \in ocmbs : ocmbs = {u} THEN CHOOSE u \in ocmbs : TRUE ELSE Threw
              [] bus = "OMI_BUS" /\ Type[t] = "ocmb" ->
                   IF Ancestor("omi", t) = NoTarget THEN Threw ELSE Ancestor("omi", t)
              [] OTHER -> Threw
  IN IF tx = NoTarget THEN Aborted ELSE tx

\* The location code of the nearest replaceable part.
GetLocationCode[t \in Target \cup {NoTarget}] ==
  CASE t = NoTarget     -> "none"
    [] t \in DOMAIN Code -> Code[t]
    [] OTHER             -> GetLocationCode[Parent[t]]

--------------------------------------------------------------------------------
(* The active chips.  The hardware is a record:                            *)
(*   probed  targets that answer a probe (for a processor, its PIB target) *)
(*   attr    chips whose ID and EC attributes Hostboot has synced: "both"  *)
(*           or only "one" of the two, or "none"                           *)
(*   cfam    processors whose CFAM chip ID register can be read            *)
(*   scom    processors whose DSTL_FIR_MASK registers can be read          *)
(*   masked  the channels <<mcc, 0 or 1>> whose mask bits are all set      *)

\* A model without its EC level is a type like any other, but no chip has it.
GetChipIdEc(c, hw) ==
  IF hw.attr[c] = "both" \/ c \in hw.cfam \cap Proc THEN Model[c]
  ELSE IF hw.attr[c] = "one" THEN "one only"
  ELSE NoModel

\* Probed chips, but for those of unknown type.
Present(hw) ==
  {c \in Chip :
     /\ GetParentProcessor(c) \in hw.probed
     /\ c \in hw.probed
     /\ GetChipIdEc(c, hw) # NoModel}

\* An OCMB on no MCC, or on one without an address for the mask, throws.
MaskThrows(c) ==
  LET mcc == Ancestor("mcc", c)
  IN Type[c] = "ocmb" /\ (mcc = NoTarget \/ Pos[mcc] \notin 0..7)

IsMaskedOcmb(c, hw) ==
  LET mcc == Ancestor("mcc", c)
  IN /\ Type[c] = "ocmb"
     /\ ~MaskThrows(c)
     /\ GetParentChip(mcc) \in hw.scom
     /\ <<mcc, Pos[c] % 2>> \in hw.masked

\* OCMBs that are masked are left out.
GetActiveChips(hw) == {c \in Present(hw) : ~IsMaskedOcmb(c, hw)}

ActiveChipsThrow(hw) == \E c \in Present(hw) : MaskThrows(c)

GetActiveProcessorChips(hw) == Proc \cap hw.probed

================================================================================
