----------------------------- MODULE ECGetJogger -----------------------------
(***************************************************************************)
(* A mountpath getJogger of the EC GET xaction (src/ec/getjogger.go): the  *)
(* run loop, stop, ec(), newCtx / freeCtx and finalizeReq.                 *)
(*                                                                         *)
(* Callers put restore requests into the bounded channel workCh and, if    *)
(* they gave one, wait on the request's ErrCh.  The jogger's select takes  *)
(* a request or, once stopCh is closed, returns; Go picks either when both *)
(* are ready.  The restore itself is the abstract RestoreOutcome, which    *)
(* ECRestore implements.                                                   *)
(***************************************************************************)
EXTENDS Naturals, Sequences, FiniteSets

CONSTANTS
    Reqs,      \* restore requests callers submit (each once)
    QueueCap,  \* capacity of workCh
    NoReq

ASSUME QueueCap \in Nat \ {0} /\ NoReq \notin Reqs

VARIABLES
    queue,     \* workCh
    submitted, \* requests put into workCh so far
    errCh,     \* req.ErrCh != nil, fixed by the caller
    lomOK,     \* req.LIF.LOM() succeeds for the request
    stopped,   \* stopCh closed (stop())
    exited,    \* run() has returned
    cur,       \* the request ec() is processing
    jpc,       \* where the jogger is: "idle" (in select), "ctx", "restore",
               \* "persist", "free", "finalize"
    err,       \* ec()'s err
    ctxHeld,   \* a restoreCtx is allocated and not yet freed
    pending,   \* the xaction's pending counter (IncPending / DecPending)
    taken,     \* history: requests the jogger dequeued
    answered,  \* requests whose ErrCh was closed
    okReqs,    \* history: requests whose restore and Persist both succeeded
    errSent,   \* requests that received an error on ErrCh
    phase, outcome, written   \* the current restore (RestoreOutcome)

vars == <<queue, submitted, errCh, lomOK, stopped, exited, cur, jpc, err,
          ctxHeld, pending, taken, answered, okReqs, errSent,
          phase, outcome, written>>
rvars == <<phase, outcome, written>>

R == INSTANCE RestoreOutcome

-----------------------------------------------------------------------------
\* Callers' requests: each has a reply channel or not, and a LOM that can
\* be resolved or not.
Init ==
    /\ queue = <<>> /\ submitted = {}
    /\ errCh \in [Reqs -> BOOLEAN]
    /\ lomOK \in [Reqs -> BOOLEAN]
    /\ stopped = FALSE /\ exited = FALSE
    /\ cur = NoReq /\ jpc = "idle" /\ err = FALSE /\ ctxHeld = FALSE
    /\ pending = 0
    /\ taken = {} /\ answered = {} /\ okReqs = {} /\ errSent = {}
    /\ R!Init

\* A caller sends a request; the send blocks while workCh is full.
Submit(r) ==
    /\ r \notin submitted
    /\ Len(queue) < QueueCap
    /\ queue' = Append(queue, r)
    /\ submitted' = submitted \cup {r}
    /\ UNCHANGED <<errCh, lomOK, stopped, exited, cur, jpc, err, ctxHeld,
                   pending, taken, answered, okReqs, errSent, rvars>>

\* stop(): close stopCh.
Stop ==
    /\ ~stopped
    /\ stopped' = TRUE
    /\ UNCHANGED <<queue, submitted, errCh, lomOK, exited, cur, jpc, err,
                   ctxHeld, pending, taken, answered, okReqs, errSent, rvars>>

\* run(): the select takes a request from workCh; IncPending; ec(req).
Dequeue ==
    /\ jpc = "idle" /\ ~exited
    /\ queue # <<>>
    /\ cur' = Head(queue)
    /\ queue' = Tail(queue)
    /\ taken' = taken \cup {Head(queue)}
    /\ pending' = pending + 1
    /\ jpc' = "ctx"
    /\ err' = FALSE
    /\ UNCHANGED <<submitted, errCh, lomOK, stopped, exited, ctxHeld,
                   answered, okReqs, errSent, rvars>>

\* run(): the select sees stopCh closed and returns.
Exit ==
    /\ jpc = "idle" /\ ~exited
    /\ stopped
    /\ exited' = TRUE
    /\ UNCHANGED <<queue, submitted, errCh, lomOK, stopped, cur, jpc, err,
                   ctxHeld, pending, taken, answered, okReqs, errSent, rvars>>

\* Mutation: the request is done but DecPending is skipped.
DoneNoDec ==
    /\ cur' = NoReq
    /\ pending' = pending
    /\ jpc' = "idle"
    /\ phase' = "idle" /\ outcome' = "none" /\ written' = FALSE

\* The request is done: DecPending, freeReq, back to the select.
Done ==
    /\ cur' = NoReq
    /\ pending' = pending - 1
    /\ jpc' = "idle"
    /\ phase' = "idle" /\ outcome' = "none" /\ written' = FALSE

\* ec(): newCtx fails in req.LIF.LOM(); ctx is nil and ec returns.
NewCtxNoLOM ==
    /\ jpc = "ctx"
    /\ ~lomOK[cur]
    /\ Done
    /\ UNCHANGED <<queue, submitted, errCh, lomOK, stopped, exited, err,
                   ctxHeld, taken, answered, okReqs, errSent>>

\* ec(): newCtx allocates the context; lom.Load may fail (a missing object
\* is no error), and then restore and Persist are skipped.
NewCtx ==
    /\ jpc = "ctx"
    /\ lomOK[cur]
    /\ ctxHeld' = TRUE
    /\ \E loadFails \in BOOLEAN :
          /\ err' = loadFails
          /\ jpc' = IF loadFails THEN "free" ELSE "restore"
    /\ UNCHANGED <<queue, submitted, errCh, lomOK, stopped, exited, cur,
                   pending, taken, answered, okReqs, errSent, rvars>>

\* A step of restore(ctx).
RestoreStep ==
    /\ jpc = "restore"
    /\ R!Next
    /\ UNCHANGED <<queue, submitted, errCh, lomOK, stopped, exited, cur, jpc,
                   err, ctxHeld, pending, taken, answered, okReqs, errSent>>

\* Mutation: ec() persists even when restore failed, overwriting err.
RestoreReturnedAlwaysPersist ==
    /\ jpc = "restore"
    /\ phase = "done"
    /\ err' = (outcome = "err")
    /\ jpc' = "persist"
    /\ UNCHANGED <<queue, submitted, errCh, lomOK, stopped, exited, cur,
                   ctxHeld, pending, taken, answered, okReqs, errSent, rvars>>

\* restore returned: on success ec() persists the LOM, else it goes on to
\* free the context with the error.
RestoreReturned ==
    /\ jpc = "restore"
    /\ phase = "done"
    /\ err' = (outcome = "err")
    /\ jpc' = IF outcome = "err" THEN "free" ELSE "persist"
    /\ UNCHANGED <<queue, submitted, errCh, lomOK, stopped, exited, cur,
                   ctxHeld, pending, taken, answered, okReqs, errSent, rvars>>

\* err = ctx.lom.Persist().
Persist ==
    /\ jpc = "persist"
    /\ \E persistFails \in BOOLEAN :
          /\ err' = persistFails
          /\ okReqs' = IF ~persistFails /\ outcome = "ok"
                        THEN okReqs \cup {cur} ELSE okReqs
    /\ jpc' = "free"
    /\ UNCHANGED <<queue, submitted, errCh, lomOK, stopped, exited, cur,
                   ctxHeld, pending, taken, answered, errSent, rvars>>

\* freeCtx.
FreeCtx ==
    /\ jpc = "free"
    /\ ctxHeld' = FALSE
    /\ jpc' = "finalize"
    /\ UNCHANGED <<queue, submitted, errCh, lomOK, stopped, exited, cur, err,
                   pending, taken, answered, okReqs, errSent, rvars>>

\* Mutation: ErrCh is written and closed only on error.
FinalizeReqOnlyErr ==
    /\ jpc = "finalize"
    /\ answered' = IF errCh[cur] /\ err THEN answered \cup {cur} ELSE answered
    /\ errSent' = IF errCh[cur] /\ err THEN errSent \cup {cur} ELSE errSent
    /\ Done
    /\ UNCHANGED <<queue, submitted, errCh, lomOK, stopped, exited, err,
                   ctxHeld, taken, okReqs>>

\* finalizeReq: send the error, if any, then close ErrCh; then Done.
FinalizeReq ==
    /\ jpc = "finalize"
    /\ answered' = IF errCh[cur] THEN answered \cup {cur} ELSE answered
    /\ errSent' = IF errCh[cur] /\ err THEN errSent \cup {cur} ELSE errSent
    /\ Done
    /\ UNCHANGED <<queue, submitted, errCh, lomOK, stopped, exited, err,
                   ctxHeld, taken, okReqs>>

Jogger ==
    \/ Dequeue \/ Exit \/ NewCtxNoLOM \/ NewCtx \/ RestoreStep
    \/ RestoreReturned \/ Persist \/ FreeCtx \/ FinalizeReq

Next == Jogger \/ Stop \/ \E r \in Reqs : Submit(r)

\* The jogger goroutine always runs; callers and stop() are not obliged to.
Spec == Init /\ [][Next]_vars /\ WF_vars(Jogger)

-----------------------------------------------------------------------------
(* Properties                                                              *)

\* The jogger holds at most the current request and its context.
TypeOK ==
    /\ queue \in Seq(Reqs) /\ Len(queue) <= QueueCap
    /\ cur \in Reqs \cup {NoReq}
    /\ jpc \in {"idle", "ctx", "restore", "persist", "free", "finalize"}
    /\ pending \in 0..1
    /\ answered \subseteq taken /\ errSent \subseteq answered
    /\ phase \in {"idle", "busy", "done"}

\* A caller reading ErrCh learns success (the channel closed with no error)
\* only for a request whose restore succeeded and whose LOM was persisted.
SuccessMeansRestored ==
    \A r \in answered \ errSent : r \in okReqs

\* Every request the jogger takes, whose LOM resolves and that carries a
\* reply channel, is eventually answered on it, even after stop().
AnsweredWhenLomResolves ==
    \A r \in Reqs : (r \in taken /\ lomOK[r] /\ errCh[r]) ~> r \in answered

\* Every request the jogger takes with a reply channel is answered (a caller
\* blocked on ErrCh is released).
EveryTakenAnswered ==
    \A r \in Reqs : (r \in taken /\ errCh[r]) ~> r \in answered

=============================================================================
