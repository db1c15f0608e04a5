---------------------------------- MODULE Cli ----------------------------------
(***************************************************************************)
(* The parser of the command line options that reach the listener.  A      *)
(* command line is a sequence of words.                                    *)
(***************************************************************************)
EXTENDS Naturals, SequencesExt, AttnConfig

GetCliOption(argv, option) == Contains(argv, option)

\* Faulty variant of GetCliSetting: the word before the option is taken.
GetCliSettingBefore(argv, setting) ==
  LET at == SelectInSeq(argv, LAMBDA word : word = setting)
  IN IF at > 1 THEN argv[at - 1] ELSE ""

\* The word after the first occurrence of an option, if there is one.
GetCliSetting(argv, setting) ==
  LET at == SelectInSeq(argv, LAMBDA word : word = setting)
  IN IF at \in 1 .. Len(argv) - 1 THEN argv[at + 1] ELSE ""

\* The option that sets or clears a flag by itself.
Option(flag) ==
  CASE flag = "enVital"       -> "--vital"
    [] flag = "enCheckstop"   -> "--checkstop"
    [] flag = "enTerminate"   -> "--terminate"
    [] flag = "enBreakpoints" -> "--breakpoints"
    [] flag = "enClrAttnIntr" -> "--clrattnintr"

\* "--all" with a value hides every other option; a value that is neither "on"
\* nor "off" changes nothing.
ParseConfig(argv, config) ==
  LET all == GetCliSetting(argv, "--all")
      asked(value) == {f \in AllFlags : GetCliSetting(argv, Option(f)) = value}
      default == IF GetCliOption(argv, "--defaultti") THEN {"dfltTi"} ELSE {}
  IN CASE all = "off" -> ClearFlagAll(config)
       [] all = "on"  -> SetFlagAll(config)
       [] all = ""    -> (config \cup asked("on") \cup default) \ asked("off")
       [] OTHER       -> config

================================================================================
