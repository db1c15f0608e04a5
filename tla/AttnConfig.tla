------------------------------ MODULE AttnConfig -------------------------------
(***************************************************************************)
(* The configuration of the attention handler: a set of flags.             *)
(***************************************************************************)

Flag == {"enVital", "enCheckstop", "enTerminate", "enBreakpoints", "dfltTi",
         "enClrAttnIntr"}

\* The flags that setFlagAll() and clearFlagAll() touch.
AllFlags == Flag \ {"dfltTi"}

SetFlagAll(config) == config \cup AllFlags
ClearFlagAll(config) == config \ AllFlags

\* Config::Config(): every flag but dfltTi is set.
DefaultConfig == SetFlagAll({})

================================================================================
