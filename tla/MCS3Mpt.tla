------------------------------- MODULE MCS3Mpt -------------------------------
(***************************************************************************)
(* Model-checking instance of S3Mpt: three clients of one upload with two  *)
(* part numbers.  A client puts part 1 or 2 (with data "a" or "b", its      *)
(* checksums good or bad), completes with <<2, 1>> or <<1>>, or aborts, so *)
(* two clients can put the same part (an S3 client's retry) while a third  *)
(* completes or aborts.                                                    *)
(***************************************************************************)
EXTENDS S3Mpt

CONSTANTS c1, c2, c3

MCClients == {c1, c2, c3}

MCOps ==
    PutOps(1, "a") \cup PutOps(1, "b") \cup PutOps(2, "a")
    \cup {CompleteOp(<<2, 1>>), CompleteOp(<<1>>), AbortOp}

\* Clients are interchangeable: each is one HTTP connection.
MCSymmetry == Permutations(MCClients)
=============================================================================
