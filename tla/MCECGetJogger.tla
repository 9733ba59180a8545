---------------------------- MODULE MCECGetJogger ----------------------------
(***************************************************************************)
(* Model-checking instance of ECGetJogger: three requests and a workCh of  *)
(* capacity two, so a caller can block on a full channel and stop() can    *)
(* come with requests still queued.                                        *)
(***************************************************************************)
EXTENDS ECGetJogger

CONSTANTS r1, r2, r3

MCReqs == {r1, r2, r3}
=============================================================================
