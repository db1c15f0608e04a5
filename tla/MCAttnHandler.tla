----------------------------- MODULE MCAttnHandler -----------------------------
(***************************************************************************)
(* Instances of AttnHandler for TLC: values of its constants.              *)
(***************************************************************************)
EXTENDS AttnHandler

\* Every processor reports every attention.
MCMask == [p \in Proc |-> AttnType]

\* What the listener may set: the default, everything off, TI as the default
\* special attention, TI handling off.
MCSettings ==
  {DefaultConfig, {}, Flag, DefaultConfig \ {"enTerminate"}}

\* The listener leaves the configuration alone.
MCDefault == {DefaultConfig}

================================================================================
