----------------------------- MODULE MCAttnDaemon ------------------------------
(***************************************************************************)
(* Instances of AttnDaemon for TLC: processes and their command lines.     *)
(***************************************************************************)
EXTENDS AttnDaemon, TLC

CONSTANTS a, b, c

\* A daemon is started, configured and stopped.
MCStartStop ==
  a :> <<"diags", "--start">>
    @@ b :> <<"diags", "--vital", "off", "--checkstop", "on">>
    @@ c :> <<"diags", "--stop">>

\* Two clients change different flags of a running daemon.
MCClients ==
  a :> <<"diags", "--start", "--all", "off">>
    @@ b :> <<"diags", "--vital", "off">>
    @@ c :> <<"diags", "--checkstop", "on">>

\* Two processes are started at any time; the second asks for a stop, but its words
\* are followed by one that cannot be sent.
MCTwoDaemons ==
  a :> <<"diags", "--start">>
    @@ b :> <<"diags", "--start", "--stop", "--vital", "--longer-than-a-message">>

MCLongWords == {"--longer-than-a-message"}

================================================================================
