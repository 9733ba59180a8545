-------------------------------- MODULE S3Mpt --------------------------------
(***************************************************************************)
(* The S3 multipart-upload handlers of a target (src/ais/tgts3mpt.go):     *)
(* startMpt, putMptPart, completeMpt and abortMpt, for one upload.         *)
(*                                                                         *)
(* The handlers of one upload run concurrently, each on its own HTTP       *)
(* goroutine, and share two things: the upload registry of package s3     *)
(* (InitUpload, AddPart, CheckParts, ObjSize, CleanupUpload; each call is  *)
(* atomic under the registry's lock, and modelled from the spec, §4.6)    *)
(* and the workfiles on the mountpath.  fs.CSM.Gen (not under src/) makes *)
(* every workfile name unique, and spec §4.6 has a re-uploaded part       *)
(* replace the registered path and delete the prior workfile, so each     *)
(* handler writes a workfile of its own: a put's part workfile and a      *)
(* completion's .complete workfile are indexed by the client.  A part's   *)
(* data is a value of Data, and MD5 is the value the handler streamed;     *)
(* every part has the same size, so ObjSize counts registered parts.       *)
(*                                                                         *)
(* Each client sends one request, fixed in Init: a put of a part, a        *)
(* completion with a list of part numbers, or an abort.  The bucket is     *)
(* local or mirrored to a remote S3 backend, whose calls may fail, and so  *)
(* may creating, writing and copying a workfile.                           *)
(***************************************************************************)
EXTENDS Naturals, Sequences, FiniteSets, TLC

CONSTANTS
    Clients,    \* HTTP clients of the upload, one request each
    PartNums,   \* part numbers (1..MaxPartsPerUpload abstracted)
    Data,       \* contents a put can stream
    Ops,        \* the requests clients may send
    Remotes     \* the bucket modes: subsets of {FALSE, TRUE} (isRemoteS3)

NoFile == "nofile"  \* no workfile at that path
Empty  == "empty"   \* a created, not yet written part workfile; no part

\* A part number with no part registered.
NoPart == [md5 |-> Empty, fqn |-> NoFile]

\* No .complete workfile.
NoCwf == [ex |-> FALSE, data |-> <<>>]

ASSUME NoFile \notin Data /\ Empty \notin Data

\* A request: kind "put" (part n, data d, cksumOK: the SHA-256 / ETag checks
\* pass), "complete" (list: the part numbers of the XML body) or "abort".
PutOps(n, d) ==
    {[kind |-> "put", n |-> n, d |-> d, cksumOK |-> ok, list |-> <<>>] : ok \in BOOLEAN}
CompleteOp(l) == [kind |-> "complete", n |-> 0, d |-> Empty, cksumOK |-> TRUE, list |-> l]
AbortOp == [kind |-> "abort", n |-> 0, d |-> Empty, cksumOK |-> TRUE, list |-> <<>>]

VARIABLES
    remote,   \* isRemoteS3(bck)
    up,       \* the upload in the registry: "init" (not started), "failed",
              \* "active", "gone" (CleanupUpload removed it)
    parts,    \* the registered parts: part number -> [md5, fqn], or NoPart;
              \* fqn is the client whose put wrote the workfile
    pwf,      \* part workfiles: client -> its data, Empty, or NoFile
    cwf,      \* .complete workfiles: client -> [ex: it exists, data appended]
    obj,      \* the published object: its data, size, the part numbers and
              \* MD5s it was assembled from, and its completer; or <<>>
    op,       \* the request of each client
    pc,       \* where each handler is
    snap,     \* completeMpt: the parts CheckParts returned, [n, md5, fqn]
    copied,   \* completeMpt: the part numbers appended so far
    size,     \* completeMpt: the size ObjSize returned
    answered  \* history: client -> "ok", "err", "404", or "none"

vars == <<remote, up, parts, pwf, cwf, obj, op, pc, snap, copied, size, answered>>

-----------------------------------------------------------------------------
(* The registry of package s3, from the spec (§4.6).                        *)

\* AddPart: append; idempotent on an identical (part number, MD5), the new
\* workfile being left to the janitor; otherwise replace the part's path
\* and delete the prior workfile.
AddPart(n, md5, c) ==
    IF parts[n].md5 = md5 THEN <<parts, pwf>>
    ELSE <<[parts EXCEPT ![n] = [md5 |-> md5, fqn |-> c]],
           IF parts[n] = NoPart THEN pwf ELSE [pwf EXCEPT ![parts[n].fqn] = NoFile]>>

\* CheckParts: every declared part number has a registered part; returns
\* them in the declared (sorted) order.
CheckParts(l) == up = "active" /\ \A i \in DOMAIN l : parts[l[i]] # NoPart

\* ObjSize: the sum of the sizes of every part registered for the upload.
ObjSize == Cardinality({n \in PartNums : parts[n] # NoPart})

\* CleanupUpload: remove the upload and every registered part's workfile.
CleanupDisk ==
    [c \in Clients |-> IF \E n \in PartNums : parts[n] # NoPart /\ parts[n].fqn = c
                       THEN NoFile ELSE pwf[c]]

\* Sort by part number (sort.Slice in completeMpt).
SortParts(l) == SortSeq(l, <)

-----------------------------------------------------------------------------
Init ==
    /\ remote \in Remotes
    /\ up = "init"
    /\ parts = [n \in PartNums |-> NoPart]
    /\ pwf = [c \in Clients |-> NoFile]
    /\ cwf = [c \in Clients |-> NoCwf]
    /\ obj = <<>>
    /\ op \in [Clients -> Ops]
    /\ pc = [c \in Clients |-> "start"]
    /\ snap = [c \in Clients |-> <<>>]
    /\ copied = [c \in Clients |-> <<>>]
    /\ size = [c \in Clients |-> 0]
    /\ answered = [c \in Clients |-> "none"]

\* startMpt: backend.StartMpt (remote) may fail; else InitUpload.  Clients
\* learn the upload id only from its answer.
StartMpt ==
    /\ up = "init"
    /\ \E ok \in BOOLEAN :
          /\ ok \/ remote
          /\ up' = IF ok THEN "active" ELSE "failed"
    /\ UNCHANGED <<remote, parts, pwf, cwf, obj, op, pc, snap, copied, size, answered>>

Reply(c, r) ==
    /\ pc' = [pc EXCEPT ![c] = "done"]
    /\ answered' = [answered EXCEPT ![c] = r]

\* A client sends its request once the upload id is known.
Send(c) ==
    /\ pc[c] = "start" /\ up \notin {"init", "failed"}
    /\ pc' = [pc EXCEPT ![c] = op[c].kind]
    /\ UNCHANGED <<remote, up, parts, pwf, cwf, obj, op, snap, copied, size, answered>>

\* putMptPart, 2: CreateFileRW of the handler's workfile, which may fail.
PutCreate(c) ==
    /\ pc[c] = "put"
    /\ \/ /\ pwf' = [pwf EXCEPT ![c] = Empty]
          /\ pc' = [pc EXCEPT ![c] = "write"]
          /\ UNCHANGED answered
       \/ Reply(c, "err") /\ UNCHANGED pwf
    /\ UNCHANGED <<remote, up, parts, cwf, obj, op, snap, copied, size>>

\* putMptPart, 3-5: write the body, PutMptPart (remote), close; on an error
\* remove the workfile and return; then the MD5/ETag and SHA-256 checks,
\* whose failures return without removing the workfile.
PutWrite(c) ==
    /\ pc[c] = "write"
    /\ \E ioOK, remoteOK \in BOOLEAN :
          /\ remoteOK \/ remote
          /\ IF ioOK /\ remoteOK
             THEN /\ pwf' = [pwf EXCEPT ![c] = op[c].d]
                  /\ IF op[c].cksumOK THEN pc' = [pc EXCEPT ![c] = "addpart"] /\ UNCHANGED answered
                     ELSE Reply(c, "err")
             ELSE /\ pwf' = [pwf EXCEPT ![c] = NoFile]
                  /\ Reply(c, "err")
    /\ UNCHANGED <<remote, up, parts, cwf, obj, op, snap, copied, size>>

\* putMptPart: AddPart fails when the upload is gone; the workfile stays.
PutAddPart(c) ==
    /\ pc[c] = "addpart"
    /\ IF up = "active"
       THEN LET r == AddPart(op[c].n, op[c].d, c)
            IN  parts' = r[1] /\ pwf' = r[2] /\ Reply(c, "ok")
       ELSE UNCHANGED <<parts, pwf>> /\ Reply(c, "err")
    /\ UNCHANGED <<remote, up, cwf, obj, op, snap, copied, size>>

\* The parts CheckParts returns for the list l.
Resolved(l) == [i \in DOMAIN l |-> [n |-> l[i], md5 |-> parts[l[i]].md5, fqn |-> parts[l[i]].fqn]]

\* Mutation: the declared parts are checked and copied unsorted.
CompleteCheckNoSort(c) ==
    LET l == op[c].list IN
    /\ pc[c] = "complete"
    /\ \E remoteOK, createOK \in BOOLEAN :
          /\ remoteOK \/ remote
          /\ IF remoteOK /\ CheckParts(l) /\ createOK
             THEN /\ snap' = [snap EXCEPT ![c] = Resolved(l)]
                  /\ cwf' = [cwf EXCEPT ![c] = [ex |-> TRUE, data |-> <<>>]]
                  /\ pc' = [pc EXCEPT ![c] = "copy"]
                  /\ UNCHANGED answered
             ELSE Reply(c, "err") /\ UNCHANGED <<snap, cwf>>
    /\ UNCHANGED <<remote, up, parts, pwf, obj, op, copied, size>>

\* completeMpt: CompleteMpt (remote) may fail; sort the declared parts and
\* CheckParts them; CreateFile of the .complete workfile, which may fail.
\* Ops hold non-empty part lists only, so the empty-list return is not
\* enabled.
CompleteCheck(c) ==
    LET l == SortParts(op[c].list) IN
    /\ pc[c] = "complete"
    /\ \E remoteOK, createOK \in BOOLEAN :
          /\ remoteOK \/ remote
          /\ IF remoteOK /\ CheckParts(l) /\ createOK
             THEN /\ snap' = [snap EXCEPT ![c] = Resolved(l)]
                  /\ cwf' = [cwf EXCEPT ![c] = [ex |-> TRUE, data |-> <<>>]]
                  /\ pc' = [pc EXCEPT ![c] = "copy"]
                  /\ UNCHANGED answered
             ELSE Reply(c, "err") /\ UNCHANGED <<snap, cwf>>
    /\ UNCHANGED <<remote, up, parts, pwf, obj, op, copied, size>>

\* Mutation: the errors of os.Open and io.CopyBuffer are not checked, and
\* whatever is at the path is appended.
CompleteCopyNoOpenErr(c) ==
    LET k == Len(copied[c]) + 1
        f == snap[c][k].fqn
    IN
    /\ pc[c] = "copy"
    /\ k <= Len(snap[c])
    /\ cwf' = [cwf EXCEPT ![c].data = Append(@, pwf[f])]
    /\ copied' = [copied EXCEPT ![c] = Append(@, snap[c][k].n)]
    /\ UNCHANGED <<remote, up, parts, pwf, obj, op, pc, snap, size, answered>>

\* Mutation: the part is opened by the path now registered for its number.
CompleteCopyByNum(c) ==
    LET k == Len(copied[c]) + 1
        n == snap[c][k].n
        f == IF parts[n] = NoPart THEN snap[c][k].fqn ELSE parts[n].fqn
    IN
    /\ pc[c] = "copy"
    /\ k <= Len(snap[c])
    /\ \E copyOK \in BOOLEAN :
          IF pwf[f] = NoFile \/ ~copyOK
          THEN Reply(c, "err") /\ UNCHANGED <<cwf, copied>>
          ELSE /\ cwf' = [cwf EXCEPT ![c].data = Append(@, pwf[f])]
               /\ copied' = [copied EXCEPT ![c] = Append(@, n)]
               /\ UNCHANGED <<pc, answered>>
    /\ UNCHANGED <<remote, up, parts, pwf, obj, op, snap, size>>

\* completeMpt, .3: open the next part's workfile, by the path CheckParts
\* returned, and append it; a failed os.Open or io.CopyBuffer closes the
\* .complete workfile and returns, leaving it behind.
CompleteCopy(c) ==
    LET k == Len(copied[c]) + 1
        f == snap[c][k].fqn
    IN
    /\ pc[c] = "copy"
    /\ k <= Len(snap[c])
    /\ \E copyOK \in BOOLEAN :
          IF pwf[f] = NoFile \/ ~copyOK
          THEN Reply(c, "err") /\ UNCHANGED <<cwf, copied>>
          ELSE /\ cwf' = [cwf EXCEPT ![c].data = Append(@, pwf[f])]
               /\ copied' = [copied EXCEPT ![c] = Append(@, snap[c][k].n)]
               /\ UNCHANGED <<pc, answered>>
    /\ UNCHANGED <<remote, up, parts, pwf, obj, op, snap, size>>

\* completeMpt, .4-.5: the ETag from the snapshot's MD5s; ObjSize fails when
\* the upload is gone, and the handler returns, leaving the workfile.
CompleteSize(c) ==
    /\ pc[c] = "copy"
    /\ Len(copied[c]) = Len(snap[c])
    /\ IF up = "active"
       THEN /\ size' = [size EXCEPT ![c] = ObjSize]
            /\ pc' = [pc EXCEPT ![c] = "finalize"]
            /\ UNCHANGED answered
       ELSE Reply(c, "err") /\ UNCHANGED size
    /\ UNCHANGED <<remote, up, parts, pwf, cwf, obj, op, snap, copied>>

\* completeMpt, .5: poi.finalize renames the .complete workfile into the
\* object with the size set (its failure paths are in code outside src/
\* and not modelled).
CompleteFinalize(c) ==
    /\ pc[c] = "finalize"
    /\ obj' = [data |-> cwf[c].data, size |-> size[c], parts |-> copied[c],
               md5s |-> [i \in DOMAIN snap[c] |-> snap[c][i].md5], by |-> c]
    /\ cwf' = [cwf EXCEPT ![c] = NoCwf]
    /\ pc' = [pc EXCEPT ![c] = "cleanup"]
    /\ UNCHANGED <<remote, up, parts, pwf, op, snap, copied, size, answered>>

\* completeMpt, .6-.7: CleanupUpload; debug.Assert(exists) is compiled out
\* of release builds, so the handler answers success either way.
CompleteCleanup(c) ==
    /\ pc[c] = "cleanup"
    /\ up' = "gone"
    /\ pwf' = CleanupDisk
    /\ parts' = [n \in PartNums |-> NoPart]
    /\ Reply(c, "ok")
    /\ UNCHANGED <<remote, cwf, obj, op, snap, copied, size>>

\* abortMpt: AbortMpt (remote) may fail; CleanupUpload, 404 if not found.
AbortMpt(c) ==
    /\ pc[c] = "abort"
    /\ \E remoteOK \in BOOLEAN :
          /\ remoteOK \/ remote
          /\ IF remoteOK /\ up = "active"
             THEN /\ up' = "gone"
                  /\ pwf' = CleanupDisk
                  /\ parts' = [n \in PartNums |-> NoPart]
                  /\ Reply(c, "ok")
             ELSE /\ Reply(c, IF remoteOK THEN "404" ELSE "err")
                  /\ UNCHANGED <<up, pwf, parts>>
    /\ UNCHANGED <<remote, cwf, obj, op, snap, copied, size>>

Handler(c) ==
    \/ PutCreate(c) \/ PutWrite(c) \/ PutAddPart(c)
    \/ CompleteCheck(c) \/ CompleteCopy(c) \/ CompleteSize(c)
    \/ CompleteFinalize(c) \/ CompleteCleanup(c)
    \/ AbortMpt(c)

Next == StartMpt \/ \E c \in Clients : Send(c) \/ Handler(c)

\* A handler's goroutine runs until it answers; clients need not send.
Spec == Init /\ [][Next]_vars /\ WF_vars(StartMpt) /\ \A c \in Clients : WF_vars(Handler(c))

-----------------------------------------------------------------------------
(* Properties                                                              *)

\* Type of the registry, the workfiles and the handlers.
TypeOK ==
    /\ up \in {"init", "failed", "active", "gone"}
    /\ parts \in [PartNums -> [md5 : Data, fqn : Clients] \cup {NoPart}]
    /\ pwf \in [Clients -> Data \cup {Empty, NoFile}]
    /\ \A c \in Clients : cwf[c].ex \in BOOLEAN /\ cwf[c].data \in Seq(Data)
    /\ pc \in [Clients -> {"start", "put", "write", "addpart", "complete", "copy",
                           "finalize", "cleanup", "abort", "done"}]
    /\ answered \in [Clients -> {"none", "ok", "err", "404"}]

\* completeMpt assembles the object from every declared part exactly once,
\* in ascending part-number order, whatever order the XML body lists them,
\* and only from parts registered for the upload.
CompletedInPartOrder ==
    obj # <<>> =>
        /\ obj.parts = SortParts(op[obj.by].list)
        /\ \A i \in DOMAIN obj.md5s : obj.md5s[i] \in Data

\* The published object is the parts its ETag describes: the i-th piece
\* of its data is the part whose MD5 CheckParts returned, even when a put
\* re-uploads that part, and AddPart deletes its prior workfile, while a
\* completion is copying.
ObjectMatchesParts ==
    obj # <<>> => obj.data = obj.md5s

\* The size completeMpt sets on the object (lom.SetSize(ObjSize)) is the
\* size of the data it published: the parts the client declared (spec S1,
\* and S6's part offsets as prefix sums of the declared part sizes).
ObjSizeMatchesData ==
    obj # <<>> => obj.size = Len(obj.data)

\* completeMpt and abortMpt of one upload never both answer success: once
\* an abort has removed the upload, the CleanupUpload of a completion
\* finds nothing, and the completion is to fail rather than report an
\* object the client was told is aborted.
CompleteAbortExclusive ==
    ~\E c, a \in Clients :
        /\ op[c].kind = "complete" /\ answered[c] = "ok"
        /\ op[a].kind = "abort" /\ answered[a] = "ok"

====
