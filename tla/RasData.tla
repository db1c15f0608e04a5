-------------------------------- MODULE RasData --------------------------------
(***************************************************************************)
(* The RAS data parser: what the data file of a chip's model says of a     *)
(* signature, its flags and the service actions it calls for.              *)
(*                                                                         *)
(* The resolutions of an action come from a recursive walk over the        *)
(* actions it refers to.  The walk keeps the names it is inside of in a    *)
(* static variable of the function: names stay in it when an exception     *)
(* leaves the function, and the next walk of the process finds them.       *)
(***************************************************************************)
EXTENDS DevTree, SequencesExt

CONSTANT
  Files  \* the data files that were read: one record for each chip model

\* A file has the flags of <<id, bit>>, the action of <<id, bit, instance>>,
\* the elements of each action, the unit <<type, position>> of each unit name,
\* and the type of each bus with the name of its unit, or NoUnit for the chip.
NoUnit == ""

DefaultAction == "level2_M_th1"

Elements(m) == UNION {Range(Files[m].actions[name]) : name \in DOMAIN Files[m].actions}

\* The actions that a file has are walked where a signature or another action
\* calls for them; it may call for some it lacks.
Actions == UNION {DOMAIN Files[m].actions : m \in DOMAIN Files}
Called(m) ==
  {DefaultAction} \cup Range(Files[m].signatures)
    \cup {e.name : e \in {x \in Elements(m) : x.type = "action"}}
Names == Actions \cup UNION {Called(m) : m \in DOMAIN Files}

ASSUME RasDataAssumption ==
  /\ DOMAIN Files \subseteq {Model[c] : c \in Chip}
  /\ \A m \in DOMAIN Files :
       /\ DOMAIN Files[m] = {"flags", "signatures", "actions", "units", "buses"}
       /\ NoUnit \notin DOMAIN Files[m].units
       /\ \A name \in DOMAIN Files[m].actions :
            Files[m].actions[name] \in Seq(Range(Files[m].actions[name]))
  /\ IsFiniteSet(Actions)

Flag == {"sue_source", "sue_seen", "cs_possible", "recovered_error",
  "informational_only", "mnfg_informational_only", "mask_but_dont_clear",
  "crc_related_err", "crc_root_cause", "odp_data_corrupt_side_effect",
  "odp_data_corrupt_root_cause", "attn_from_ocmb"}

HasData(s) == Model[s.chip] \in DOMAIN Files

DataOf(s) == Files[Model[s.chip]]

--------------------------------------------------------------------------------
(* Flags and actions of a signature. *)

\* The action of a signature the file does not list is the default one, which
\* the file may lack.
ParseSignature(s) ==
  LET key == <<s.id, s.bit, s.inst>>
  IN IF key \in DOMAIN DataOf(s).signatures THEN DataOf(s).signatures[key]
     ELSE DefaultAction

\* Whether an action, or one it refers to, carries the flag.
ActionHasFlag[m \in DOMAIN Files, name \in STRING, flag \in Flag] ==
  /\ name \in DOMAIN Files[m].actions
  /\ \E i \in DOMAIN Files[m].actions[name] :
       LET e == Files[m].actions[name][i]
       IN \/ e.type = "flag" /\ e.name = flag
          \/ e.type = "action" /\ ActionHasFlag[m, e.name, flag]

\* Only the flags listed with the signature count: the search through its
\* action is made, but nothing takes its result.
IsFlagSet(s, flag) ==
  /\ <<s.id, s.bit>> \in DOMAIN DataOf(s).flags
  /\ flag \in DataOf(s).flags[<<s.id, s.bit>>]

--------------------------------------------------------------------------------
(* Resolutions.  An element of an action has a type, a name, a priority    *)
(* and whether to guard; a plugin has an instance instead.                 *)

\* A unit or a bus of the file is what the element names; the unit of a bus may
\* be left out.
ParseBus(file, name) ==
  IF \/ name \notin DOMAIN file.buses
     \/ file.buses[name].unit \notin DOMAIN file.units \cup {NoUnit}
  THEN Threw ELSE "ok"

Defined(file, e) ==
  /\ e.type = "callout_unit" => e.name \in DOMAIN file.units
  /\ e.type \in {"callout_connected", "callout_bus"} => ParseBus(file, e.name) = "ok"

\* The resolution made of an element: where on the chip it starts from, and
\* which bus, clock, procedure, part or plugin it is about.
Resolution(file, e) ==
  LET bus == e.type \in {"callout_connected", "callout_bus"}
      unit == CASE e.type = "callout_unit" -> e.name
                [] bus                     -> file.buses[e.name].unit
                [] OTHER                   -> NoUnit
  IN [type     |-> e.type,
      unit     |-> IF unit = NoUnit THEN <<>> ELSE file.units[unit],
      name     |-> IF bus THEN file.buses[e.name].type ELSE e.name,
      priority |-> e.priority,
      guard    |-> e.guard,
      instance |-> e.instance]

Result(outcome, stack) == [outcome |-> outcome, leaves |-> <<>>, stack |-> stack]

\* What one element adds to the walk of an action, given the walks of the others:
\* nothing if it is a flag or one before it has failed.
Extend(parsed, m, walk, e) ==
  IF walk.outcome # "ok" \/ e.type = "flag" THEN walk
  ELSE IF e.type = "action"
    THEN LET sub == parsed[<<m, e.name, walk.stack>>]
         IN [sub EXCEPT !.leaves = walk.leaves \o @]
  ELSE IF Defined(Files[m], e)
    THEN [walk EXCEPT !.leaves = Append(@, Resolution(Files[m], e))]
  ELSE [walk EXCEPT !.outcome = Threw]

\* The walk over the elements of an action, in order.
Walk(parsed, m, name, stack) ==
  LET list == Files[m].actions[name]
      upTo[n \in 0 .. Len(list)] ==
        IF n = 0 THEN Result("ok", stack \cup {name})
        ELSE Extend(parsed, m, upTo[n - 1], list[n])
  IN upTo[Len(list)]

\* The resolutions of an action in order, how the walk ended, and what it leaves
\* on the stack.  To be inside the action already fails an assertion.
ParseAction[x \in (DOMAIN Files) \X Names \X SUBSET Names] ==
  LET m == x[1]
      name == x[2]
      stack == x[3]
      walk == Walk(ParseAction, m, name, stack)
  IN IF name \in stack THEN Result(Aborted, stack)
     ELSE IF name \notin DOMAIN Files[m].actions THEN Result(Threw, stack \cup {name})
     ELSE IF walk.outcome = "ok" THEN [walk EXCEPT !.stack = @ \ {name}]
     ELSE walk

--------------------------------------------------------------------------------
(* Faulty variants of definitions below, which the properties must tell from them. *)

\* The name of an action that was walked to its end stays on the stack.
GetResolutionLeaks(s, stack) ==
  IF HasData(s)
    THEN [ParseAction[<<Model[s.chip], ParseSignature(s), stack>>] EXCEPT
            !.stack = @ \cup {ParseSignature(s)}]
    ELSE Result(Threw, stack)

--------------------------------------------------------------------------------

\* The resolutions of a signature.
GetResolution(s, stack) ==
  IF HasData(s) THEN ParseAction[<<Model[s.chip], ParseSignature(s), stack>>]
  ELSE Result(Threw, stack)

================================================================================
