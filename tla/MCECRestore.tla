----------------------------- MODULE MCECRestore -----------------------------
(***************************************************************************)
(* Model-checking instance of ECRestore: three peers beside this target.  *)
(* The encoded object has 2 data and 1 parity slice, so the HRW list for  *)
(* SliceCnt+1 targets is the whole cluster and every peer can hold a      *)
(* slice; the replicated object has Parity 2, so two of the three peers   *)
(* are HRW targets for its copies and one is not.                         *)
(***************************************************************************)
EXTENDS ECRestore

CONSTANTS p1, p2, p3

MCPeers == {p1, p2, p3}

\* Rendezvous order of the object's uname: a peer first, this target second.
MCHrwOrder == <<p1, Self, p2, p3>>

MCGens == {1, 2}

\* A single generation, for runs about slices rather than about versions.
MCGen1 == {1}

=============================================================================
