---------------------------- MODULE RestoreOutcome ----------------------------
(***************************************************************************)
(* What one call of getJogger.restore (src/ec/getjogger.go) promises its   *)
(* caller, ec(): it either rejects the request at once (EC disabled) or    *)
(* starts, and then finishes exactly once, with success or an error.  On   *)
(* success the main object has been written on this target; an error may  *)
(* come after the object was written (a failing copyMissingReplicas).      *)
(* Once finished nothing changes, and every call finishes.                 *)
(*                                                                         *)
(* ECRestore implements this specification (ECRestore!ImplementsOutcome);  *)
(* ECGetJogger uses it as the restore step of each request.                *)
(***************************************************************************)

VARIABLES
    phase,    \* "idle" (not called), "busy", "done" (returned)
    outcome,  \* "none", "ok" or "err": what restore returned
    written   \* the main object has been written on this target

vars == <<phase, outcome, written>>

Init == phase = "idle" /\ outcome = "none" /\ written = FALSE

\* EC is disabled for the bucket: return at once.
Reject == phase = "idle" /\ phase' = "done" /\ outcome' = "err" /\ UNCHANGED written

Begin == phase = "idle" /\ phase' = "busy" /\ UNCHANGED <<outcome, written>>

Succeed == phase = "busy" /\ phase' = "done" /\ outcome' = "ok" /\ written' = TRUE

Fail == phase = "busy" /\ phase' = "done" /\ outcome' = "err" /\ written' \in BOOLEAN

Next == Reject \/ Begin \/ Succeed \/ Fail

\* restore runs on the jogger's goroutine until it returns.
Spec == Init /\ [][Next]_vars /\ WF_vars(Next)

=============================================================================
