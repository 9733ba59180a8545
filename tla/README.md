# TLA+ models of the aistore EC restore path and its neighbours

This directory holds TLA+ specifications of parts of `src/`, the TLC
configurations that check them, and `PROJECT.json`. PROJECT.json lists the
components, the runs, the mutants, the map from definitions to source lines,
the findings and the hazards.

## 1. Inventory of the system

| Component | Source | State | Operations | Concurrency / hard behaviour |
|---|---|---|---|---|
| EC restore | `src/ec/getjogger.go` (`restore`, `requestMeta`, `restoreReplicaFromMem/Dsk`, `copyMissingReplicas`, `requestSlices`, `restoreMainObj`, `emptyTargets`, `uploadRestoredSlices`, `freeDownloaded`, `restoreEncoded`) | `restoreCtx`: `nodes`, `meta`, `slices`, `idToNode`, `toDisk`; the registered writers of the xaction; the metafiles and slices held by peers | metadata fan-out and merge; replica restore; slice request, timeout wait, checksum check and rebuild, main-object write, redistribution, cleanup | one goroutine per peer under a mutex; slice responders stream concurrently into registered writers; timeout; asynchronous transport callbacks; send failures |
| EC jogger loop | `src/ec/getjogger.go` (`run`, `stop`, `ec`, `newCtx`, `finalizeReq`) | `workCh`, `stopCh`, the request's `ErrCh` | take a request, restore, persist, reply | the caller blocks on `ErrCh`; an early return on the `newCtx` error path never closes it |
| S3 multipart | `src/ais/tgts3mpt.go` | the upload registry (in `ais/s3`, not under src/), part workfiles, the `.complete` workfile | start, put part, complete, abort, list parts / uploads, get part | handlers of one upload run concurrently; a re-upload deletes a part a completion is about to copy; workfiles leak on error paths; `completeMpt` asserts that no abort ran; the size counts undeclared parts |
| List merge | `src/cmn/objlist_utils.go` | lists of `LsoEnt` | `appSorted`, `DedupLso`, `MergeLso` | a pure algorithm; the loop that grows the capacity does not terminate when the first list is empty |
| List string helpers | `src/cmn/objlist_utils.go` | none | custom-metadata formatting and parsing (`CustomMD2S`, `CustomProps2S`, `S2CustomMD`, `S2CustomVal`), prefix checks of the walk | pure; Go map order in the formatter; no escaping of delimiters |
| Archive MIME | `src/cmn/archive/mime.go` | none | `normalize`, `byExt`, `Mime`, `Strict`; detection by magic bytes (`MimeFile`, `_detect`), `DetectCompression`, `EqExt` | pure; substring matching depends on the order of its cases; `_detect` reads a reused slab buffer past the bytes read |
| Backend helpers | `src/cmn/backend.go` | none | header conversions | pure |
| Prefix test | `src/dfc/tests/prefix_test.go` | — | integration test | not a model target |

Properties each component should have:

- **EC restore:**
  - The newest generation wins, whatever order the replies come in.
  - A restored object is intact.
  - Late slices never touch freed writers.
  - Every rebuilt slice is released.
  - After the redistribution, every slice, and every HRW replica target, holds the restored generation unless a send failed.
- **Jogger loop:** every accepted request is eventually answered on `ErrCh`.
- **S3 multipart:**
  - No workfile outlives its upload.
  - A completed object is exactly the listed parts.
  - Complete and abort of the same upload do not both succeed.
- **List merge:**
  - The merged list is sorted, has no duplicates, keeps at most `maxSize` entries and is the union of its inputs.
  - The merge terminates.
- **List string helpers:** formatting then parsing custom metadata gives the bag back; a directory the walk skips holds nothing with the prefix.
- **Archive MIME:** an archive created under a name and MIME is read back as the same format; a format is detected only from the file's own bytes.

## 2. Plan

1. **ECRestore** (done): one restore request, the most intricate concurrent code of the repository.
2. **RestoreOutcome and the refinement** (done): what `restore` promises `ec()`. `ECRestore` is checked to implement it.
3. **ECGetJogger** (done): the `run` loop, `stop`, `ec`, `newCtx`, `freeCtx` and `finalizeReq`. The restore of each request is `RestoreOutcome`.
4. **LsoMerge** (done): `appSorted`, `DedupLso` and `MergeLso`.
5. **S3Mpt** (done): the multipart handlers as concurrent processes over the registry and the workfiles.
6. **LsoStrings** (done): the custom-metadata codec and the prefix checks, against reference definitions.
7. **ArchiveMime** (done, extension path only): `normalize`, `byExt`, `Mime` and `Strict`, checked in the same run as LsoStrings.

## 3. ECRestore: how the model corresponds to the code

`ECRestore.tla` models one restore request on this target (`Self`) with three peers.

**Variables and the code they model:**

| Variables | Code |
|---|---|
| `isCopy` | `ctx.meta.IsCopy`: fixed when the object was put, so chosen in `Init` |
| `nodes`, `meta` | `ctx.nodes`, `ctx.meta` |
| `tried`, `work` | the nodes the replica loop has asked; the replica workfile `tmpFQN` of `restoreReplicaFromDsk` |
| `slot`, `idToNode` | `ctx.slices`, indexed by slice, and `ctx.idToNode` |
| `wr[p]` | the state of the writer registered for peer `p` |
| `regd` | the writers still registered |
| `done` | the responders that have finished |
| `restored` | the slices `restoreMainObj` rebuilds |
| `local` | the main object written on this target |
| `inflight` | the transport sends whose callback has not run yet |

`failedSends` and `respondedGens` are history variables, used only by the properties.

**Data abstraction.** A slice or replica is `"ok"`, `"bad"` (it fails its checksum) or `"none"` (the peer streams zero bytes). A metafile is a record of its generation and slice id.

**Actions**, in the order the code runs them:

| Action | Code |
|---|---|
| `RestoreDisabled` | the EC-disabled return of `restore` |
| `RequestMeta` | the fan-out of `requestMeta`, to the local metafile's daemons or a broadcast |
| `MetaReply`, `MetaReplyFailed` | one goroutine of `restoreCtx.requestMeta` |
| `NoMetafile` | the `ErrorNoMetafile` return after `wg.Wait` |
| `SelectReplica`, `TooFewSlices` | the branches of `restore` |
| `RequestSlices(sendOK)` | `requestSlices`; on a failed broadcast also `restoreEncoded`'s `freeDownloaded` |
| `SliceArrive(p)` | a slice responder writing into the registered writer; it may come after the timeout |
| `CheckSlices` | `WaitTimeout` returning, and the first loop of `restoreMainObj` (empty writers freed, `cksumSlice`, `newSliceWriter`) |
| `ReconstructFailed` | the `restoreMainObj` error path of `restoreEncoded` |
| `RebuildAndUpload` | the rest of `restoreMainObj`, `uploadRestoredSlices` (via `EmptyTargets`, `UploadSent`, `UploadFreed`), `freeDownloaded` and `ec`'s `Persist` |
| `FetchReplicaMiss` | a node of the replica loop fails or returns an empty replica; on disk the workfile is closed and removed |
| `FetchReplica` | `restoreReplicaFromMem`: `WriteReplicaAndMeta` (which may fail) and `copyMissingReplicas` |
| `FetchReplicaCreateFailed` | `CreateWork` fails and the loop breaks |
| `FetchReplicaUnfinalized` | `fsync`/`Close` fails (writer nil, "failed to discover") or `RenameFinalize` fails; the workfile stays |
| `FetchReplicaToDisk` | `RenameFinalize`, then `Persist`, the metafile write, the bucket-destroyed check and `NewHandle`, each of which may fail, then `copyMissingReplicas` |
| `CopyMissingReplicas(loaded)` | `lom.Load`, `HrwTargetList`, the second handle, then the sends to the HRW targets missing from `ctx.nodes` |
| `SendDone`, `SendFailed` | the transport callbacks, which free the slice or reader |

**Fairness.** The jogger is weakly fair, because its goroutine always runs on. Each metadata reply and each transport callback is weakly fair, because the RPC and the transport always complete or fail. `SliceArrive` is not fair: a responder may never answer, which is what the timeout is for.

**Not modelled:**

- The HRW order itself. `HrwOrder` is one fixed order, since every order is a relabelling of the peers.
- Nodes in maintenance.
- Disk I/O errors on the encoded path (`CreateSlice`; `freeDownloaded` cleans up after it).
- `regWriter` failure: it refuses only a uname that already has a writer. That needs a second concurrent restore of the same object, and one jogger serves an object's requests one after another. So the `wgSlices.Add` before it (`:401`) is not a hazard.
- Duplicate slice ids.
- The bytes of a slice.

`HrwOk`/`HrwList`, `LayoutOK` and `SliceArrive` model code outside `src/` and are modelled from the spec.

## 4. RestoreOutcome: what restore promises, and the refinement

`RestoreOutcome.tla` is the abstract restore with three variables:

- `phase` is `"idle"`, `"busy"` or `"done"`.
- `outcome` is `"none"`, `"ok"` or `"err"`.
- `written` says whether the main object has been written.

Its actions are `Reject` (the EC-disabled return), `Begin`, `Succeed` (the object is written) and `Fail` (the object may or may not be written, for example when `copyMissingReplicas` fails after the write). Its fairness says that `restore` returns.

`ECRestore!ImplementsOutcome` is `Outcome!Spec` for `Outcome == INSTANCE RestoreOutcome WITH` this mapping:

- `phase` is `"idle"` at `pc = "start"`, `"done"` at `pc = "finish"`, and `"busy"` otherwise.
- `outcome` is `result`.
- `written` is `local # NoObj`.

The property is checked in `ec_wide`, over encoded and replicated objects. It shows three things:

- Every restore returns under the fairness of section 3.
- It returns once and nothing changes afterwards.
- Success implies a written object.

Its mutant is a slice check that waits for every registered writer, with no timeout: it can block for ever.

## 5. ECGetJogger: the jogger loop

`ECGetJogger.tla` models one mountpath jogger:

- **Callers.** `Submit(r)` puts a request into `workCh` (`queue`, capacity `QueueCap`). The send blocks while the channel is full. The sender is the xaction, which is outside `src/`, so `Submit` is modelled from the spec.
- **Request parameters.** `errCh[r]` (the caller passed an `ErrCh`) and `lomOK[r]` (`req.LIF.LOM()` succeeds) are chosen in `Init`.
- **`run`'s `select`.** It either takes a request (`Dequeue`, which also does `IncPending`) or, once `stop` (`Stop`) has closed `stopCh`, returns (`Exit`). Go chooses either when both are ready, so both are enabled.
- **`ec`.** Its steps are the actions `NewCtxNoLOM`, `NewCtx`, `RestoreStep`, `RestoreReturned`, `Persist`, `FreeCtx` and `FinalizeReq`, in the code's order. `jpc` is the position in `ec`.
  - `NewCtxNoLOM` is the early return on a failed `LOM()`.
  - In `NewCtx`, `lom.Load` may fail, and then restore and Persist are skipped.
  - `RestoreStep` is a step of `RestoreOutcome`.
  - `Done` is `DecPending` and `freeReq`.
- **History variables.** `taken`, `answered`, `errSent` and `okReqs` record what happened to each request.

**Fairness.** Only the jogger goroutine (`Jogger`) is weakly fair. Callers need not send, and `stop` need not be called.

| Run | Checks | Result |
|---|---|---|
| `ec_jogger` | `TypeOK`; `SuccessMeansRestored` (a closed `ErrCh` with no error means the restore succeeded and `Persist` succeeded); `AnsweredWhenLomResolves` (a taken request with a resolvable LOM is answered, even after `stop`) | pass, 57k states |
| `ec_jogger_noreply` | `EveryTakenAnswered` | **violation** |

The instance has three requests and `QueueCap = 2`, so the channel fills and `stop` can come with requests still queued. `CHECK_DEADLOCK FALSE` is set because the jogger really stops after `stop`.

**Finding (`ec_jogger_noreply`).** When `req.LIF.LOM()` fails, `newCtx` returns `nil` and `ec()` returns at `getjogger.go:135` without calling `finalizeReq`. So `ErrCh` is never closed and the caller blocks. Every other path of `ec` ends in `finalizeReq`.

**Not checked.** Requests still in `workCh` when `run` returns are never answered (`getjogger.go:104`). Whether the xaction drains them is decided outside `src/`, so no property claims they are answered.

## 6. LsoMerge: merging list-objects pages

`LsoMerge.tla` models `MergeLso`, `DedupLso`, `SortLso` (`sort.Slice`) and `appSorted` from `src/cmn/objlist_utils.go`:

- An entry is a record of name, status, present flag, version and location.
- A page is a short sorted sequence of them.
- `MergeLso` is a state machine over `pc`:
  - `Collect` folds every entry into the map `tmp` with `AddEntry`.
  - `Grow` is the capacity loop.
  - `Clear` empties the list.
  - `Insert(n)` is one `appSorted` of the map's range, in any order, because Go randomises map iteration.
  - `Truncate` applies `maxSize`.
- The one-list case is `MergeOne`: a sort and `DedupLso`, where `sort.Slice` is unstable and so gives any sorted permutation.
- `GrowCap` is the runtime's growth of a slice's capacity to a size class, modelled from the runtime.

| Run | Checks | Result |
|---|---|---|
| `lso_merge` | `TypeOK`; `MergedInOrder` (the result is the sorted, deduplicated, truncated union of the names); `PresentPreferred`; `VersionFilled` | pass, 4.8M states |
| `lso_terminate` | `Terminates` | **violation** |

In `lso_merge`, names are `1..3`, with `1` a directory. The statuses are 0 and 1, and the version is empty or set. There are at most two lists of at most two entries each, and `maxSize` is 0 or 2. These bounds are enough for these cases:

- directories before files;
- duplicate names across pages;
- truncation;
- an empty first list next to a non-empty one.

**Findings:**

- **`lso_terminate`:** when `lists[0].Entries` is empty and its capacity is below the number of distinct names, `l = min(len, ...)` is 0 and the grow loop at `objlist_utils.go:193` never ends.
- **No longer checked: the location** (`:182`). When a present entry replaces a non-present one, the version is filled from the old entry, but the location is not; spec 4.8 says both are. An earlier run (`lso_location`) showed this. Its run slot now holds the S3 completion/abort race (section 7), which a unit test would hardly reach, while two listed entries reach this one.

## 7. S3Mpt: concurrent multipart handlers

`S3Mpt.tla` models `startMpt`, `putMptPart`, `completeMpt` and `abortMpt` of `src/ais/tgts3mpt.go` for one upload. Each HTTP handler is a goroutine, so each client's handler is a process with its own `pc`. The handlers share two things:

- **The upload registry of `ais/s3`** (`up`, `parts`). Its code is not under `src/`, so `AddPart`, `CheckParts` and `CleanupUpload` (`CleanupDisk`) are modelled from the spec, §4.6. Each call is atomic.
- **The workfiles.** `fs.CSM.Gen` (not under `src/`) gives every workfile a unique name, and spec §4.6 has a re-uploaded part replace the registered path and delete the prior workfile. So each handler writes a workfile of its own:
  - `pwf[c]` is the part workfile of client `c`'s put.
  - `cwf[c]` is the `.complete` workfile of client `c`'s completion.
  - A registered part (`parts[n]`) is its MD5 and the client whose workfile holds it (`fqn`).
  - `AddPart` leaves the registry alone on an identical MD5, leaving the new workfile to the janitor. On a different MD5 it replaces the part and deletes the prior workfile.

Actions follow the code's steps between accesses to shared state:

| Handler | Actions |
|---|---|
| `startMpt` | `StartMpt` |
| `putMptPart` | `PutCreate` (`CreateFileRW`, which may fail); `PutWrite` (write, remote put, remove on error, checksum checks); `PutAddPart` |
| `completeMpt` | `CompleteCheck` (remote complete, sort, `CheckParts`, create the workfile, which may fail); `CompleteCopy` (one part per step, by the path `CheckParts` returned; `os.Open` or the copy may fail); `CompleteSize` (`ObjSize`, the size set on the object); `CompleteFinalize`; `CompleteCleanup` |
| `abortMpt` | `AbortMpt` |

Remote backend calls may fail when the bucket is remote (`remote`). Every part has the same size, so `ObjSize` counts the registered parts. Each handler is weakly fair.

`MCS3Mpt` has three clients (clients are symmetric) and part numbers `{1, 2}`. A client puts part 1 or 2 with data `a` or `b` and good or bad checksums, completes with `<<2, 1>>` or `<<1>>`, or aborts. So two clients can put one part, which is a retry, while a third completes or aborts. Two clients can also both complete.

| Run | Checks | Result |
|---|---|---|
| `s3_mpt` | `TypeOK`; `CompletedInPartOrder` (the object is built from every declared, registered part, once, in part order); `ObjectMatchesParts` (the object's data is the parts its ETag lists, even when a re-upload replaces a part during the copy) | pass, 29k states, 5s |
| `s3_mpt_abort` | `CompleteAbortExclusive` (a completion and an abort of one upload do not both answer success) | **violation** |
| `s3_mpt_size` | `ObjSizeMatchesData` (the size set on the object is the size of its data) | **violation** |

`ObjectMatchesParts` holds because `CompleteCopy` opens the path from the `CheckParts` snapshot. When a re-upload with another MD5 has deleted that workfile, `os.Open` fails and the completion answers an error. Opening the part by its current registration instead (mutant `CompleteCopyByNum`) publishes the new data under the old MD5.

An earlier version of this model let two puts of one part, and two completions, share a workfile. That rested on `fs.CSM.Gen` returning one path per prefix, which is code outside `src/` that the spec contradicts. Its finding (a torn object) is withdrawn.

**Finding (`s3_mpt_abort`).** `completeMpt` publishes the object in `poi.finalize` (`:342`), then calls `CleanupUpload` (`:346`). An `abortMpt` between the two finds the upload, removes it and answers 204. The completion's `CleanupUpload` then returns `exists = false`. `debug.Assert(exists)` is compiled out of release builds, so the completion answers success too. The client that aborted is told the upload is gone, yet the object stays. TLC's trace is 14 steps: start, a put, the whole completion up to the finalize, the abort, then the cleanup. The spec (§9) says this case is to degrade to an error.

**Finding (`s3_mpt_size`).** `completeMpt` sets the object size to `s3.ObjSize(uploadID)` (`:325`), the sum over every part registered for the upload. It copies only the parts of the completion list. The engine accepts a list that names a subset of the parts (spec §3: sparse sequences are accepted). The trace puts parts 1 and 2 and completes with `<<1>>`: the object holds one part and records the size of two. Spec S1 and S6 take the size and the part offsets from the declared parts.

**Not checked:** workfiles left behind on the error returns of `putMptPart` and `completeMpt` (`:197`, `:298`, `:326`). The spec leaves orphaned workfiles to a janitor (§3). `listMptParts`, `listMptUploads` and `getMptPart` change no state and are not modelled. `getMptPart` lacks a `return` after its `OffsetSorted` error (`:482`).

## 8. LsoStrings: the list-objects string helpers

`LsoStrings.tla` models the pure string helpers of `src/cmn/objlist_utils.go`. A string is a sequence of one-character strings, because the properties are about where the delimiters fall. Offsets are Go's (0-based, `s[a:b]` is `Slice(s, a, b)`, -1 for not found). `IndexByte` and `IndexStr` stand for `strings.IndexByte` and `strings.Index`.

- `CustomMD2S(md)` is the set of strings the call may return: the standard keys in `stdCustomProps` order, then the other keys except `OrigFntl` in any order, because Go randomises map iteration.
- `CustomProps2S(nvs)` formats the pairs in argument order.
- `ParseFrom` is the loop of `S2CustomMD`. A missing delimiter trips a `debug.Assert`, which release builds compile out, and returns at once, before the version fill. `S2CustomMD` adds the early return for strings shorter than three bytes and the version fill.
- `S2CustomVal` searches for the name anywhere in the string with `strings.Index`.
- `DirHasOrIsPrefix` and `ObjHasPrefix` decide what the walk skips.

A behaviour is one call: `input` is chosen in `Init` and never changes. The properties compare the code with reference definitions:

| Property | States |
|---|---|
| `RoundTrip` | formatting a bag with `CustomMD2S` and parsing it gives the bag back, without `OrigFntl` and with the version filled, in every map order |
| `PropsRoundTrip` | parsing `CustomProps2S(pairs)` gives the pairs' bag, with later pairs winning |
| `ValAgrees` | `S2CustomVal` agrees with `S2CustomMD` on every name, when no name occurs inside a value or another name |
| `SkipDirSound` | no object below a directory that `DirHasOrIsPrefix` rejects has the prefix |

The run `string_helpers` covers five keys (two standard ones, `OrigFntl` and two others, so the map order has two keys to permute) and five values (empty, plain, one that spells a key, `' '` and `']'`). It covers two version arguments, every list of up to two pairs, and every directory and prefix of up to three characters over `a`, `b` and `/`. That is 17.7k inputs. The same run also checks `ArchiveMime` (next section): 179k inputs in all, in 25s.

The round trips are stated for values without `' '` or `']'`, because the format has no escaping. A probe without that precondition fails at once: `[x:]]` parses to `x` with an empty value. `RoundTrip` also leaves out bags with nothing to format. `S2CustomMD` returns early on `"[]"`, before the version fill, so such an entry gets no version (`objlist_utils.go:351`). Its callers are outside `src/`, so whether that matters is not known.

### ArchiveMime: archive formats by name

`ArchiveMime.tla` models the extension path of `src/cmn/archive/mime.go`. A string is a sequence of words: the format names, the dot, and one other word (`x`). Every extension begins and ends on a word boundary, so `strings.Contains` (`StrContains`) and `strings.HasSuffix` over words agree with the byte versions on the extension names.

- `normalize` keeps the order of the code. The `tar.gz` and `tar.lz4` cases come first, then `NormalizeLoop`, the first of `FileExtensions` that the MIME contains.
- `byExt` is the first extension the name ends with.
- `Mime` is what reading an archive uses. `Strict` is what creating one uses. `Strict` normalizes a given MIME only to reject an unknown one. It then compares the MIME *as given* with the name's extension, so `Strict("application/zip", "a.zip")` fails with a mismatch: only the extension itself is accepted as a MIME.

`MCLsoStrings.tla` instances `ArchiveMime` on the same variable `input` and checks both modules in one run. Its inputs are `Inputs \cup AM!MimeInputs`. The MIME inputs are every string of up to three words and every extension. The name inputs are the stem `x` followed by one of those strings.

| Property | States |
|---|---|
| `StrictAgreesWithMime` | what `Strict` accepts, `Mime` reads back with the same MIME and name as the same format |
| `NormalizeMostSpecific` | no extension whose name contains the chosen one's also occurs in the MIME |

Both properties guard the ordering hazard of `mime.go:96`, where the name "tar" is inside "tar.gz" and "tar.lz4". Detection by magic bytes is not modelled (see section 10).

## 9. ECRestore runs

All runs use `MCECRestore.tla`, with peers `p1, p2, p3` and HRW order `<<p1, Self, p2, p3>>`. So `Self` is second, and the HRW list for `Parity+1` copies leaves some peer out. `CHECK_DEADLOCK FALSE` is set because one request ends in `pc = "finish"`. The initial states enumerate every metafile and content layout of the peers, an EC-enabled or disabled bucket, and a local metafile that is absent or lists the peers.

| Run | Constants | Checks | Result |
|---|---|---|---|
| `ec_encoded` | Data 2, Parity 1, generations {1,2}, encoded or replicated | `RestoresNewestGeneration`, `SliceCoverage` | pass, 2.0M states, 30s |
| `ec_wide` | Data 1, Parity 2, one generation, encoded or replicated (memory or disk) | `TypeOK`, `RestoredSlicesReleased`, `ReplicaCoverage`, `SliceCoverage`, `ImplementsOutcome` | pass, 455k states, 45s |
| `ec_corrupt_slice` | as `ec_encoded`, encoded only | `MainObjIntact` | **violation** |
| `ec_late_slice` | as `ec_encoded`, encoded only | `LateSliceDropped` | **violation** |

**Why these bounds are enough:**

- With Data 2 and Parity 1, the HRW list of `SliceCnt+1` targets is the whole cluster. With Data 1 and Parity 2, up to two slices are rebuilt. That is the only case in which the early exit of the upload loop (`getjogger.go:779`) could skip a slice. `RestoredSlicesReleased` confirms it never does: `emptyTargets` always returns at least as many targets as there are rebuilt slices. So the exit is checked, but it is not listed as a hazard.
- `RestoredSlicesReleased` holds because `emptyTargets` always returns at least as many targets as there are rebuilt slices. Its mutant, an HRW list one shorter, breaks it.
- Two generations are enough to have an obsolete metafile race a newer one.
- For a replicated object only slice id 0 exists and the peers' replicas are intact or empty; the disk variant is chosen in `Init` and every I/O failure of `restoreReplicaFromDsk` is a disjunct, so both runs reach every replica path.

**Findings:**

- **`ec_corrupt_slice`:** a data slice that fails `cksumSlice` is rebuilt, but `restoreMainObj` still assembles the main object from the received, corrupted copy. This is because the writer of `ctx.slices[i]` stays set (`getjogger.go:543-551` against `:590-609`).
- **`ec_late_slice`:** writers stay registered after `WaitTimeout` until `freeDownloaded`. A slice arriving after the timeout is written into a writer that `restoreMainObj` has already freed. The spec says late arrivals are dropped.

**Mutants.** Every property of a passing run is broken by a plausible bug in a mapped definition:

| Mutant | Breaks |
|---|---|
| the last metadata reply wins (`NewerMetaAny`) | `RestoresNewestGeneration` |
| `emptyTargets` that forgets the holders | `SliceCoverage` |
| `emptyTargets` with an HRW list one shorter | `RestoredSlicesReleased` |
| `copyMissingReplicas` with an HRW list one shorter | `ReplicaCoverage` |
| a broadcast that does not skip this target | `TypeOK` |
| a slice check that waits for all writers, with no timeout (`CheckSlicesNoTimeout`) | `ImplementsOutcome` (`ec_wide`) |
| the errors of `os.Open` and `io.CopyBuffer` not checked (`CompleteCopyNoOpenErr`) | `S3Mpt!TypeOK` |
| the part opened by its current registration, not the `CheckParts` snapshot (`CompleteCopyByNum`) | `S3Mpt!ObjectMatchesParts` |
| the declared parts left unsorted (`CompleteCheckNoSort`) | `CompletedInPartOrder` |
| `DecPending` skipped (`DoneNoDec`) | `ECGetJogger!TypeOK` |
| `ec` persisting after a failed restore (`RestoreReturnedAlwaysPersist`) | `SuccessMeansRestored` |
| `ErrCh` closed only on error (`FinalizeReqOnlyErr`) | `AnsweredWhenLomResolves` |
| `appSorted` without the shift, and without the swap | `LsoMerge!TypeOK`, `MergedInOrder` |
| `AddEntry` where the first entry wins, or with no version fill | `PresentPreferred`, `VersionFilled` |
| `CustomMD2S` that does not skip `OrigFntl` | `RoundTrip` |
| `CustomProps2S` that writes no ' ' between pairs | `PropsRoundTrip` |
| `S2CustomVal` whose value starts at the ':' | `ValAgrees` |
| `DirHasOrIsPrefix` that keeps only directories inside the prefix | `SkipDirSound` |
| `normalize` that folds `tgz` into `.tar.gz` (`NormalizeTgzAsTarGz`) | `StrictAgreesWithMime` |
| `normalize` without the `tar.lz4` case (`NormalizeNoLz4`) | `NormalizeMostSpecific` |

## 10. Not modelled

- **S3 multipart read handlers** (`listMptParts`, `listMptUploads`, `getMptPart`) and `putMptCopy`: they change no state. The failure paths of `poi.finalize` are also not modelled.
- **The backend helpers:** stateless string matching with no concurrency. A model would only restate the code.
- **The prefix test:** an integration test against a live cluster.
- **`TokenGreaterEQ` and `HandleNoRecurs`** of `objlist_utils.go`: the first is one string comparison; the contract of the second (which virtual directories a non-recursive listing returns) lives in the bucket walk outside `src/`, so a reference definition would only restate the code.
- **A leftover replica workfile** (`getjogger.go:293`) is modelled (`work`) but no property forbids it: `tmpFQN` has one fixed name per object and the next restore truncates and reuses it.
- **Archive MIME detection by magic bytes** (`MimeFile`, `MimeFQN`, `_detect`, `DetectCompression`) and `EqExt`. Its one real hazard is recorded in PROJECT.json: `_detect` (`mime.go:195`) matches signatures against `buf[offset:]` of a reused slab buffer, rather than against the `n` bytes read. So a very short file can be detected as gzip, lz4 or tar from bytes the slab's previous user left behind. A model would read `n` bytes into a buffer whose tail is a nondeterministic stale value. The property it breaks would need a violation run of its own, and every run slot holds a finding or a checked pass. `DetectCompression` reads into a zeroed array, so it is safe. Also, the minimum-length checks of `_detect` (`mime.go:180`) never run. Both callers pass the MIME of a `Mime` call that failed, which is `""`.
