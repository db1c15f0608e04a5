------------------------------ MODULE MCAttnMonitor ------------------------------
(***************************************************************************)
(* Constants of AttnMonitor for TLC: two processors with two attentions    *)
(* each, one of which is masked.                                           *)
(***************************************************************************)
EXTENDS AttnMonitor, TLC

CONSTANTS p1, p2, Vital, Other

MCProc == {p1, p2}

MCKind == {Vital, Other}

MCUnmasked == {<<p1, Vital>>, <<p1, Other>>, <<p2, Vital>>}

================================================================================
