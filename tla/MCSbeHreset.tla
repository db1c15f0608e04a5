------------------------------- MODULE MCSbeHreset -------------------------------
(***************************************************************************)
(* An instance of SbeHreset for TLC: two SBEs.  The daemon may answer with *)
(* all PDRs in any order, with one of them only, with PDRs of other states *)
(* and not at all.                                                         *)
(***************************************************************************)
EXTENDS SbeHreset, TLC

Pdr(pdrId, sets) == [id |-> pdrId, sets |-> sets]

E1 == Pdr(5, <<"other", "maintenance">>)
E2 == Pdr(9, <<"other", "maintenance">>)
S1 == Pdr(3, <<"hreset", "other">>)
S2 == Pdr(7, <<"hreset", "other">>)

MCEffecters == {<<>>, <<E1, E2>>, <<E2, E1>>, <<E2>>, <<Pdr(5, <<"other">>)>>}
MCSensors == {<<>>, <<S1, S2>>, <<S2>>, <<Pdr(3, <<"other">>)>>}
MCSensorOf == 5 :> 3 @@ 9 :> 7
MCSbeOf == 5 :> 0 @@ 9 :> 1 @@ 3 :> 0 @@ 7 :> 1
MCFd == {-1, 0, 4}

\* The daemon of the instance is one of those for which the result is proved.
ASSUME TruthfulMC == TruthfulDaemon

================================================================================
