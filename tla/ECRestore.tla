------------------------------ MODULE ECRestore ------------------------------
(***************************************************************************)
(* One restore request processed by a mountpath getJogger (src/ec/         *)
(* getjogger.go): getJogger.restore and everything it calls.               *)
(*                                                                         *)
(*  - discovery: requestMeta fans one goroutine per peer out; each reply   *)
(*    is applied under a mutex (restoreCtx.requestMeta); after wg.Wait the *)
(*    metafiles of older generations are pruned;                           *)
(*  - replica restore (meta.IsCopy): restoreReplicaFromMem / FromDsk try   *)
(*    the nodes one by one, the first non-empty replica wins, then         *)
(*    copyMissingReplicas sends it to the HRW targets that lack it;        *)
(*  - encoded restore: requestSlices registers one writer per slice        *)
(*    holder and broadcasts the request; the responders stream slices into *)
(*    the registered writers concurrently with the jogger; the wait has a  *)
(*    timeout; restoreMainObj checks and rebuilds the slices and writes    *)
(*    the main object; uploadRestoredSlices sends the rebuilt slices to    *)
(*    the HRW targets that hold none; freeDownloaded unregisters writers.  *)
(*                                                                         *)
(* Data is abstracted to what the properties tell apart: a slice or        *)
(* replica is "ok" (intact), "bad" (fails its checksum) or "none" (the     *)
(* peer streams zero bytes).  Transport sends complete asynchronously:     *)
(* their callbacks (SendDone / SendFailed) are separate steps.             *)
(***************************************************************************)
EXTENDS Integers, FiniteSets, Sequences, SequencesExt

CONSTANTS
    Self,       \* this target: core.T.SID()
    Peers,      \* the other targets of the cluster map (smap.Tmap minus Self)
    DataCnt,    \* meta.Data
    ParityCnt,  \* meta.Parity
    Gens,       \* generations a metafile may carry
    CopyModes,  \* the values meta.IsCopy may take (replicated, not encoded)
    HrwOrder,   \* all targets in rendezvous-hash order for the object's uname
    NoMD,       \* absent metafile / nil *Metadata
    NoNode,     \* absent entry of ctx.slices / ctx.idToNode
    NoObj       \* the main object is not on this target

ASSUME Self \notin Peers
ASSUME DataCnt \in Nat \ {0} /\ ParityCnt \in Nat
ASSUME CopyModes \subseteq BOOLEAN /\ CopyModes # {}
ASSUME Gens \subseteq Nat /\ Gens # {}
ASSUME ToSet(HrwOrder) = {Self} \cup Peers /\ Len(HrwOrder) = Cardinality(Peers) + 1

SliceCnt == DataCnt + ParityCnt
SliceIdx == 1..SliceCnt
\* A slice writer: not allocated, registered and empty (n == 0), holding an
\* intact or corrupted slice, or freed.
WriterStates == {"none", "wait", "ok", "bad", "freed"}
\* A rebuilt slice of restoreMainObj: not rebuilt, held, being sent, freed.
RestoredStates == {"none", "held", "sending", "freed"}

VARIABLES
    isCopy,       \* meta.IsCopy: fixed when the object was put, in every metafile
    pc,           \* where the jogger is in restore()
    result,       \* "none", or what ec() reports: "ok" (persisted) or "err"
    ecEnabled,    \* ctx.lom.ECEnabled()
    toDisk,       \* ctx.toDisk = useDisk(0, config)
    localDaemons, \* Daemons of the local metafile ({} if none or unreadable)
    peerMD,       \* the EC metafile each peer holds (NoMD if none)
    peerData,     \* what the peer streams for its slice or replica
    pending,      \* peers whose requestMeta goroutine has not finished
    nodes,        \* ctx.nodes: peer -> metafile (NoMD = no entry)
    meta,         \* ctx.meta
    tried,        \* replica loop: nodes already asked for the replica
    work,         \* the replica workfile tmpFQN: "none" or "held" on disk
    wr,           \* peer -> state of the slice writer registered for it
    regd,         \* peers whose writer is registered (regWriter)
    done,         \* peers whose slice response has arrived (twg.Done)
    slot,         \* ctx.slices: slice index -> peer whose writer it is
    idToNode,     \* ctx.idToNode: slice index -> peer that keeps the slice
    restored,     \* slice index -> state of the slice rebuilt for it
    local,        \* the main object written on this target
    inflight,     \* sends handed to the transport, callback not yet run
    failedSends,  \* history: slice ids whose send callback reported an error
    respondedGens \* history: generations of the metafiles peers returned

vars == <<isCopy, pc, result, ecEnabled, toDisk, localDaemons, peerMD, peerData,
          pending, nodes, meta, tried, work, wr, regd, done, slot, idToNode,
          restored, local, inflight, failedSends, respondedGens>>
peerVars == <<peerMD, peerData>>
sliceVars == <<wr, regd, done, slot, idToNode, restored>>
cfgVars == <<isCopy, ecEnabled, toDisk, localDaemons>>

\* SliceID 0 is the main replica; 1..SliceCnt are data and parity slices.
SliceIDs == IF isCopy THEN {0} ELSE 0..SliceCnt
MD == [gen : Gens, slice : SliceIDs]
Contents == IF isCopy THEN {"ok", "none"} ELSE {"ok", "bad", "none"}
Send == [to : Peers, slice : SliceIDs, idx : 0..SliceCnt, gen : Gens]

-----------------------------------------------------------------------------
(* Helpers                                                                 *)

NodesOf(f) == {p \in Peers : f[p] # NoMD}

(* Mutations of the helpers below, each the way a plausible bug in the     *)
(* code would change it; the properties must tell them apart.              *)
BroadcastTargetsWithSelf == Peers \cup {Self}
NewerMetaAny(m, md) == TRUE
EmptyTargetsShort ==
    LET holders == {idToNode[i] : i \in SliceIdx} \ {NoNode}
    IN  SelectSeq(SubSeq(HrwOrder, 1, SliceCnt),
                  LAMBDA t : t # Self /\ t \notin holders)
EmptyTargetsAll == SelectSeq(SubSeq(HrwOrder, 1, SliceCnt + 1), LAMBDA t : t # Self)
CopyTargetsShort == ToSet(SubSeq(HrwOrder, 1, ParityCnt)) \ {Self}

\* requestMeta without a usable local metafile: every target but this one.
BroadcastTargets == Peers

\* smap.HrwTargetList(uname, n): the first n targets in HRW order; it fails
\* when the cluster has fewer than n targets.
HrwOk(n) == n <= Len(HrwOrder)
HrwList(n) == SubSeq(HrwOrder, 1, n)

\* Detect the metadata with the latest generation on the fly.
NewerMeta(m, md) == m = NoMD \/ md.gen > m.gen

\* requestMeta: delete all metadatas with "obsolete" information.
Prune(ns, m) == [p \in Peers |-> IF ns[p] # NoMD /\ ns[p].gen = m.gen
                                   THEN ns[p] ELSE NoMD]

\* A slice of ctx.slices whose writer received bytes (sl.n > 0).
Present(i) == slot[i] # NoNode /\ wr[slot[i]] \in {"ok", "bad"}

\* restoreMainObj: the main object is concatenated from ctx.slices[i] when
\* its writer is set and from restored[i] otherwise.
MainData ==
    IF \E i \in 1..DataCnt : slot[i] # NoNode /\ wr[slot[i]] = "bad"
    THEN "bad" ELSE "ok"

\* emptyTargets: HRW targets for SliceCnt+1 nodes that hold no slice.
EmptyTargets ==
    LET holders == {idToNode[i] : i \in SliceIdx} \ {NoNode}
    IN  SelectSeq(HrwList(SliceCnt + 1), LAMBDA t : t # Self /\ t \notin holders)

\* The loop of uploadRestoredSlices pairs the rebuilt slices, in index
\* order, with the empty targets.  When it runs out of targets its post
\* statement has already stepped to the next slice, so freeSliceFrom starts
\* one slice further on.
UploadSent(R, E) == 1..Min({Len(R), Len(E)})
UploadFreed(R, E) ==
    IF Len(E) = 0 THEN 1..Len(R)
    ELSE IF Len(R) > Len(E) THEN (Len(E) + 2)..Len(R) ELSE {}

\* The writers ctx.slices holds are freed and every node's writer is
\* unregistered (freeDownloaded / freeSlices).
FreeDownloaded ==
    /\ wr' = [p \in Peers |-> IF \E i \in SliceIdx : slot[i] = p
                               THEN "freed" ELSE wr[p]]
    /\ regd' = {}

\* copyMissingReplicas: HRW targets for Parity+1 copies, this one excepted.
CopyTargets == ToSet(HrwList(ParityCnt + 1)) \ {Self}

Finish(r) == pc' = "finish" /\ result' = r

-----------------------------------------------------------------------------
(* Initial states: any layout of metafiles and slice contents the cluster  *)
(* can hold.  Peers of one generation hold distinct slices.                *)

LayoutOK(md) ==
    \A p, q \in Peers :
        (p # q /\ md[p] # NoMD /\ md[q] # NoMD /\ md[p].gen = md[q].gen
           /\ md[p].slice > 0) => md[p].slice # md[q].slice

Init ==
    /\ isCopy \in CopyModes
    /\ ecEnabled \in BOOLEAN
    \* toDisk only changes the encoded path's file names and I/O errors,
    \* which are not modelled; it selects the replica variant.
    /\ toDisk \in IF isCopy THEN BOOLEAN ELSE {FALSE}
    \* The local metafile is missing (broadcast) or lists the peers.
    /\ localDaemons \in {{}, Peers}
    /\ peerMD \in [Peers -> MD \cup {NoMD}]
    /\ LayoutOK(peerMD)
    /\ peerData \in [Peers -> Contents]
    /\ \A p \in Peers : peerMD[p] = NoMD => peerData[p] = "none"
    /\ pc = "start"
    /\ result = "none"
    /\ pending = {}
    /\ nodes = [p \in Peers |-> NoMD]
    /\ meta = NoMD
    /\ tried = {}
    /\ work = "none"
    /\ wr = [p \in Peers |-> "none"]
    /\ regd = {}
    /\ done = {}
    /\ slot = [i \in SliceIdx |-> NoNode]
    /\ idToNode = [i \in SliceIdx |-> NoNode]
    /\ restored = [i \in SliceIdx |-> "none"]
    /\ local = NoObj
    /\ inflight = {}
    /\ failedSends = {}
    /\ respondedGens = {}

-----------------------------------------------------------------------------
(* restore(): EC disabled for the bucket.                                  *)
RestoreDisabled ==
    /\ pc = "start"
    /\ ~ecEnabled
    /\ Finish("err")
    /\ UNCHANGED <<cfgVars, peerVars, pending, nodes, meta, tried, work, sliceVars,
                   local, inflight, failedSends, respondedGens>>

(* requestMeta: query the Daemons of the local metafile, or broadcast.     *)
RequestMeta ==
    /\ pc = "start"
    /\ ecEnabled
    /\ pending' = IF localDaemons # {} THEN localDaemons ELSE BroadcastTargets
    /\ pc' = "meta"
    /\ UNCHANGED <<result, cfgVars, peerVars, nodes, meta, tried, work, sliceVars,
                   local, inflight, failedSends, respondedGens>>

(* restoreCtx.requestMeta: RequestECMeta fails (no metafile, I/O error).   *)
MetaReplyFailed(p) ==
    /\ pc = "meta"
    /\ p \in pending
    /\ pending' = pending \ {p}
    /\ UNCHANGED <<pc, result, cfgVars, peerVars, nodes, meta, tried, work,
                   sliceVars, local, inflight, failedSends, respondedGens>>

(* restoreCtx.requestMeta: a metafile arrives; under the mutex it is added *)
(* to ctx.nodes and becomes ctx.meta if its generation is newer.           *)
MetaReply(p) ==
    /\ pc = "meta"
    /\ p \in pending
    /\ peerMD[p] # NoMD
    /\ pending' = pending \ {p}
    /\ nodes' = [nodes EXCEPT ![p] = peerMD[p]]
    /\ meta' = IF NewerMeta(meta, peerMD[p]) THEN peerMD[p] ELSE meta
    /\ respondedGens' = respondedGens \cup {peerMD[p].gen}
    /\ UNCHANGED <<pc, result, cfgVars, peerVars, tried, work, sliceVars, local,
                   inflight, failedSends>>

(* requestMeta after wg.Wait: no peer returned a metafile.                 *)
NoMetafile ==
    /\ pc = "meta"
    /\ pending = {}
    /\ NodesOf(nodes) = {}
    /\ Finish("err")
    /\ UNCHANGED <<cfgVars, peerVars, pending, nodes, meta, tried, work, sliceVars,
                   local, inflight, failedSends, respondedGens>>

(* requestMeta prunes old generations; restore() picks replica restore.    *)
SelectReplica ==
    /\ pc = "meta"
    /\ pending = {}
    /\ NodesOf(nodes) # {}
    /\ isCopy
    /\ nodes' = Prune(nodes, meta)
    /\ pc' = "fetch"
    /\ UNCHANGED <<result, cfgVars, peerVars, pending, meta, tried, work, sliceVars,
                   local, inflight, failedSends, respondedGens>>

(* restore(): too many slices missing.                                     *)
TooFewSlices ==
    /\ pc = "meta"
    /\ pending = {}
    /\ NodesOf(nodes) # {}
    /\ ~isCopy
    /\ Cardinality(NodesOf(Prune(nodes, meta))) < DataCnt
    /\ nodes' = Prune(nodes, meta)
    /\ Finish("err")
    /\ UNCHANGED <<cfgVars, peerVars, pending, meta, tried, work, sliceVars, local,
                   inflight, failedSends, respondedGens>>

(* requestSlices: one writer per node with a valid SliceID, registered     *)
(* under its uname; the request is broadcast.  If the broadcast fails the  *)
(* slices are freed and restoreEncoded unregisters them (freeDownloaded).  *)
RequestSlices(sendOK) ==
    LET ns    == Prune(nodes, meta)
        valid == {p \in NodesOf(ns) : ns[p].slice \in SliceIdx}
        owner == [i \in SliceIdx |->
                    IF \E p \in valid : ns[p].slice = i
                    THEN CHOOSE p \in valid : ns[p].slice = i ELSE NoNode]
    IN
    /\ pc = "meta"
    /\ pending = {}
    /\ NodesOf(nodes) # {}
    /\ ~isCopy
    /\ Cardinality(NodesOf(ns)) >= DataCnt
    /\ nodes' = ns
    /\ slot' = owner
    /\ idToNode' = owner
    /\ IF sendOK
       THEN /\ wr' = [p \in Peers |-> IF p \in valid THEN "wait" ELSE "none"]
            /\ regd' = valid
            /\ pc' = "wait"
            /\ UNCHANGED result
       ELSE /\ wr' = [p \in Peers |-> IF p \in valid THEN "freed" ELSE "none"]
            /\ regd' = {}
            /\ Finish("err")
    /\ UNCHANGED <<cfgVars, peerVars, pending, meta, tried, work, done, restored,
                   local, inflight, failedSends, respondedGens>>

(* The responder of peer p streams its slice into the writer registered    *)
(* under p's uname and signals the timeout group.  It may come late, or    *)
(* never.                                                                  *)
SliceArrive(p) ==
    /\ p \in regd
    /\ p \notin done
    /\ done' = done \cup {p}
    /\ wr' = [wr EXCEPT ![p] = IF @ = "wait" /\ peerData[p] # "none"
                                 THEN peerData[p] ELSE @]
    /\ UNCHANGED <<pc, result, cfgVars, peerVars, pending, nodes, meta, tried, work,
                   regd, slot, idToNode, restored, local, inflight,
                   failedSends, respondedGens>>

(* wgSlices.WaitTimeout returns (all done, or timed out) and               *)
(* restoreMainObj's first loop runs: empty writers are freed; a rebuilt    *)
(* slice is allocated for every missing slice and for every slice that     *)
(* fails cksumSlice, and newSliceWriter deletes it from ctx.idToNode.      *)
\* Mutation: the wait on wgSlices has no timeout.
CheckSlicesNoTimeout ==
    LET keep(i) == Present(i) /\ wr[slot[i]] = "ok"
    IN
    /\ pc = "wait"
    /\ regd \subseteq done
    /\ wr' = [p \in Peers |-> IF wr[p] = "wait" THEN "freed" ELSE wr[p]]
    /\ restored' = [i \in SliceIdx |-> IF keep(i) THEN "none" ELSE "held"]
    /\ idToNode' = [i \in SliceIdx |-> IF keep(i) THEN idToNode[i] ELSE NoNode]
    /\ pc' = "decode"
    /\ UNCHANGED <<result, cfgVars, peerVars, pending, nodes, meta, tried, work,
                   regd, done, slot, local, inflight, failedSends,
                   respondedGens>>

CheckSlices ==
    LET keep(i) == Present(i) /\ wr[slot[i]] = "ok"
    IN
    /\ pc = "wait"
    /\ wr' = [p \in Peers |-> IF wr[p] = "wait" THEN "freed" ELSE wr[p]]
    /\ restored' = [i \in SliceIdx |-> IF keep(i) THEN "none" ELSE "held"]
    /\ idToNode' = [i \in SliceIdx |-> IF keep(i) THEN idToNode[i] ELSE NoNode]
    /\ pc' = "decode"
    /\ UNCHANGED <<result, cfgVars, peerVars, pending, nodes, meta, tried, work,
                   regd, done, slot, local, inflight, failedSends,
                   respondedGens>>

(* stream.Reconstruct fails: fewer than Data intact slices.  The caller    *)
(* frees the downloaded and the rebuilt slices.                            *)
ReconstructFailed ==
    /\ pc = "decode"
    /\ Cardinality({i \in SliceIdx : restored[i] = "none"}) < DataCnt
    /\ FreeDownloaded
    /\ restored' = [i \in SliceIdx |-> IF restored[i] = "held" THEN "freed"
                                       ELSE restored[i]]
    /\ Finish("err")
    /\ UNCHANGED <<cfgVars, peerVars, pending, nodes, meta, tried, work, done, slot,
                   idToNode, local, inflight, failedSends, respondedGens>>

(* The rest of restoreMainObj (Reconstruct, assemble and write the main    *)
(* object with SliceID 0), then uploadRestoredSlices, freeDownloaded, and  *)
(* ec()'s lom.Persist.                                                     *)
RebuildAndUpload ==
    LET R    == SetToSortSeq({i \in SliceIdx : restored[i] = "held"}, <)
        E    == IF HrwOk(SliceCnt + 1) THEN EmptyTargets ELSE <<>>
        sent == UploadSent(R, E)
        gone == {R[j] : j \in UploadFreed(R, E)}
    IN
    /\ pc = "decode"
    /\ Cardinality({i \in SliceIdx : restored[i] = "none"}) >= DataCnt
    /\ local' = [gen |-> meta.gen, data |-> MainData]
    /\ inflight' = inflight \cup
         {[to |-> E[j], slice |-> R[j], idx |-> R[j], gen |-> meta.gen] : j \in sent}
    /\ restored' = [i \in SliceIdx |->
                      IF \E j \in sent : R[j] = i THEN "sending"
                      ELSE IF i \in gone THEN "freed" ELSE restored[i]]
    /\ FreeDownloaded
    /\ Finish("ok")
    /\ UNCHANGED <<cfgVars, peerVars, pending, nodes, meta, tried, work, done, slot,
                   idToNode, failedSends, respondedGens>>

(* restoreReplicaFromMem/FromDsk: readRemote of one node fails or returns  *)
(* an empty replica; when no node is left the restore fails.               *)
FetchReplicaMiss(p) ==
    /\ pc = "fetch"
    /\ p \in NodesOf(nodes) \ tried
    /\ tried' = tried \cup {p}
    /\ IF tried' = NodesOf(nodes) THEN Finish("err") ELSE UNCHANGED <<pc, result>>
    /\ UNCHANGED <<cfgVars, peerVars, pending, nodes, meta, work, sliceVars, local,
                   inflight, failedSends, respondedGens>>

(* restoreReplicaFromDsk: the workfile cannot be created: break the loop.  *)
FetchReplicaCreateFailed ==
    /\ pc = "fetch"
    /\ toDisk
    /\ Finish("err")
    /\ UNCHANGED <<cfgVars, peerVars, pending, nodes, meta, tried, work, sliceVars,
                   local, inflight, failedSends, respondedGens>>

(* copyMissingReplicas: lom.Load, HrwTargetList or the second handle may  *)
(* fail; otherwise the replica goes to the HRW targets for Parity+1 copies *)
(* that are not in ctx.nodes (none: the reader is freed, nil returned).    *)
CopyMissingReplicas(loaded) ==
    LET daemons == {t \in CopyTargets : nodes[t] = NoMD}
    IN
    IF loaded /\ HrwOk(ParityCnt + 1)
    THEN /\ inflight' = inflight \cup
              {[to |-> t, slice |-> 0, idx |-> 0, gen |-> meta.gen] : t \in daemons}
         /\ Finish("ok")
    ELSE /\ UNCHANGED inflight
         /\ Finish("err")

ReplicaObj(p) == [gen |-> meta.gen, data |-> peerData[p]]

Fetchable(p) ==
    /\ pc = "fetch"
    /\ p \in NodesOf(nodes) \ tried
    /\ peerData[p] = "ok"

(* restoreReplicaFromMem: a node returns the replica into an SGL; then     *)
(* WriteReplicaAndMeta (which may fail, having written the object or not)  *)
(* and copyMissingReplicas.                                                *)
FetchReplica(p) ==
    /\ Fetchable(p)
    /\ ~toDisk
    /\ \/ /\ local' \in {local, ReplicaObj(p)}
          /\ UNCHANGED inflight
          /\ Finish("err")
       \/ /\ local' = ReplicaObj(p)
          /\ \E loaded \in BOOLEAN : CopyMissingReplicas(loaded)
    /\ UNCHANGED <<cfgVars, peerVars, pending, nodes, meta, tried, work, sliceVars,
                   failedSends, respondedGens>>

(* restoreReplicaFromDsk: the replica is streamed into the workfile, but   *)
(* fsync or Close fails (the loop breaks with a nil writer: "failed to     *)
(* discover"), or RenameFinalize fails: the error is returned and the      *)
(* workfile is left on disk.                                               *)
FetchReplicaUnfinalized(p) ==
    /\ Fetchable(p)
    /\ toDisk
    /\ work' = "held"
    /\ Finish("err")
    /\ UNCHANGED <<cfgVars, peerVars, pending, nodes, meta, tried, sliceVars,
                   local, inflight, failedSends, respondedGens>>

(* restoreReplicaFromDsk: RenameFinalize turns the workfile into the       *)
(* object; then Persist, writing the metafile, the bucket check (a bucket  *)
(* being destroyed removes the metafile), lom.NewHandle may each fail,     *)
(* else copyMissingReplicas runs under the read lock.                      *)
FetchReplicaToDisk(p) ==
    /\ Fetchable(p)
    /\ toDisk
    /\ work' = "none"
    /\ local' = ReplicaObj(p)
    /\ \/ /\ UNCHANGED inflight
          /\ Finish("err")
       \/ \E loaded \in BOOLEAN : CopyMissingReplicas(loaded)
    /\ UNCHANGED <<cfgVars, peerVars, pending, nodes, meta, tried, sliceVars,
                   failedSends, respondedGens>>

(* The transport delivers a send and runs its callback, which frees the    *)
(* rebuilt slice (uploadRestoredSlices) or the replica reader.             *)
SendDone(m) ==
    /\ m \in inflight
    /\ peerMD' = [peerMD EXCEPT ![m.to] = [gen |-> m.gen, slice |-> m.slice]]
    /\ peerData' = [peerData EXCEPT ![m.to] = "ok"]
    /\ restored' = IF m.idx > 0 THEN [restored EXCEPT ![m.idx] = "freed"]
                   ELSE restored
    /\ inflight' = inflight \ {m}
    /\ UNCHANGED <<pc, result, cfgVars, pending, nodes, meta, tried, work, wr, regd,
                   done, slot, idToNode, local, failedSends, respondedGens>>

(* The send fails; the callback logs the error and frees just the same.    *)
SendFailed(m) ==
    /\ m \in inflight
    /\ restored' = IF m.idx > 0 THEN [restored EXCEPT ![m.idx] = "freed"]
                   ELSE restored
    /\ inflight' = inflight \ {m}
    /\ failedSends' = failedSends \cup {m.slice}
    /\ UNCHANGED <<pc, result, cfgVars, peerVars, pending, nodes, meta, tried, work,
                   wr, regd, done, slot, idToNode, local, respondedGens>>

-----------------------------------------------------------------------------
Jogger ==
    \/ RestoreDisabled
    \/ RequestMeta
    \/ NoMetafile
    \/ SelectReplica
    \/ TooFewSlices
    \/ \E ok \in BOOLEAN : RequestSlices(ok)
    \/ CheckSlices
    \/ ReconstructFailed
    \/ RebuildAndUpload
    \/ FetchReplicaCreateFailed
    \/ \E p \in Peers : \/ FetchReplicaMiss(p) \/ FetchReplica(p)
                         \/ FetchReplicaUnfinalized(p) \/ FetchReplicaToDisk(p)

Environment ==
    \/ \E p \in Peers : MetaReplyFailed(p) \/ MetaReply(p) \/ SliceArrive(p)
    \/ \E m \in inflight : SendDone(m) \/ SendFailed(m)

Next == Jogger \/ Environment

\* The jogger goroutine always runs on; the transport always calls back.
Spec == Init /\ [][Next]_vars /\ WF_vars(Jogger)
             /\ \A p \in Peers : WF_vars(MetaReplyFailed(p) \/ MetaReply(p))
             /\ WF_vars(\E m \in inflight : SendDone(m) \/ SendFailed(m))

-----------------------------------------------------------------------------
(* Properties                                                              *)

\* Every variable keeps the shape of the restoreCtx field it models; in
\* particular requestMeta only ever waits on peers, never on this target.
TypeOK ==
    /\ pc \in {"start", "meta", "fetch", "wait", "decode", "finish"}
    /\ result \in {"none", "ok", "err"}
    /\ peerMD \in [Peers -> MD \cup {NoMD}]
    /\ peerData \in [Peers -> Contents]
    /\ pending \subseteq Peers /\ tried \subseteq Peers
    /\ work \in {"none", "held"}
    /\ nodes \in [Peers -> MD \cup {NoMD}]
    /\ meta \in MD \cup {NoMD}
    /\ wr \in [Peers -> WriterStates]
    /\ regd \subseteq Peers /\ done \subseteq Peers
    /\ slot \in [SliceIdx -> Peers \cup {NoNode}]
    /\ idToNode \in [SliceIdx -> Peers \cup {NoNode}]
    /\ restored \in [SliceIdx -> RestoredStates]
    /\ local \in [gen : Gens, data : Contents] \cup {NoObj}
    /\ inflight \subseteq Send
    /\ failedSends \subseteq SliceIDs
    /\ respondedGens \subseteq Gens

\* The replies to requestMeta race each other; whatever their order, a
\* restored object carries the newest generation any peer returned.
RestoresNewestGeneration ==
    result = "ok" => \A g \in respondedGens : local.gen >= g

\* uploadRestoredSlices and its send callbacks free every slice that
\* restoreMainObj rebuilt: once the request is finished no rebuilt slice is
\* still held by the jogger.
RestoredSlicesReleased ==
    pc = "finish" => \A i \in SliceIdx : restored[i] # "held"

Quiescent == pc = "finish" /\ result = "ok" /\ inflight = {}

\* Encoded restore re-publishes the slices: once it succeeded and every send
\* completed, each slice of the restored generation is intact on some peer,
\* unless its send failed.
SliceCoverage ==
    ~isCopy /\ Quiescent =>
        \A i \in SliceIdx :
            \/ i \in failedSends
            \/ \E t \in Peers : /\ peerMD[t] = [gen |-> local.gen, slice |-> i]
                                /\ peerData[t] = "ok"

\* Replica restore fans the replica out: once it succeeded and every send
\* completed, each HRW target for Parity+1 copies other than this one holds
\* a metafile of the restored generation, unless a send failed.
ReplicaCoverage ==
    isCopy /\ Quiescent =>
        \/ 0 \in failedSends
        \/ \A t \in ToSet(HrwList(ParityCnt + 1)) \ {Self} :
               peerMD[t] # NoMD /\ peerMD[t].gen = local.gen

\* restore() implements RestoreOutcome: after it starts it finishes exactly
\* once, whatever peers and the transport do, even if a slice never comes
\* (the wait times out); it succeeds only after writing the main object,
\* and nothing it reports changes afterwards.
Outcome == INSTANCE RestoreOutcome WITH
    phase   <- IF pc = "start" THEN "idle" ELSE IF pc = "finish" THEN "done" ELSE "busy",
    outcome <- result,
    written <- local # NoObj

ImplementsOutcome == Outcome!Spec

\* The spec (checksum gating): a slice whose checksum fails is not used; the
\* restored main object is intact whenever the restore succeeds.
MainObjIntact ==
    result = "ok" => local.data = "ok"

\* The spec: on timeout pending slice writers are unregistered so that late
\* arrivals are dropped without corrupting state.  No slice response may be
\* written into a writer restoreMainObj has already freed.
LateSliceDropped ==
    [][\A p \in Peers : (p \in done' /\ p \notin done) => wr[p] # "freed"]_vars

=============================================================================
