---------------------------- MODULE ImageService ----------------------------
(***************************************************************************)
(* BlobImageService (src/internal/svc/imagesvc/blob_image_service.go):     *)
(* the derivative cache of resized images, a blob repository of its own    *)
(* whose ids are "<hash>_<width>".                                         *)
(*                                                                         *)
(* The media service calls are single steps here: Store, Fetch and Delete  *)
(* of BlobMediaService run under its meta and data locks, and              *)
(* MediaService.tla checks that in the absence of faults they keep the     *)
(* content index exact.  What is modelled step by step is what the image   *)
(* service does after the media service returned and released its locks:   *)
(* the cache lock, the Exists/Fetch of a cache blob, the non-atomic        *)
(* storeBlob (OpenFile O_CREATE, Truncate, write) and DeleteAll (walk the  *)
(* directory, then remove each match).                                     *)
(*                                                                         *)
(* A cache blob is "absent", "partial" (created and truncated, bytes not   *)
(* yet written: zeros, or empty before the truncate) or "full".           *)
(*                                                                         *)
(* Faults, at most MaxFaults of them: a cache Lock that fails (flock's     *)
(* MkdirAll, OpenFile or flock returns an error), a write or Sync of       *)
(* storeBlob that fails after the Truncate, and a crash and restart of the *)
(* service process.                                                        *)
(***************************************************************************)
EXTENDS Naturals, FiniteSets, TLC, ImageFiletypes, BlobPaths

CONSTANTS
    Procs,     \* request tasks
    Media,     \* media ids
    Hashes,    \* content hashes
    HashOf,    \* [Media -> Hashes]
    HashName,  \* [Hashes -> string]: image.Hash(), the data id
    FileExt,   \* [Media -> extension of the uploaded filename]
    BodyOf,    \* [Hashes -> byte string]: the content of a hash
    Widths,    \* requested widths other than 0
    MaxOps,    \* requests started, over all tasks
    MaxFaults  \* injected lock errors, write errors and crashes

ASSUME HashOf \in [Media -> Hashes] /\ 0 \notin Widths

VARIABLES
    meta,     \* SUBSET Media: media with a meta blob
    data,     \* SUBSET Hashes: content blobs
    cache,    \* [Hashes \X Widths -> {"absent", "partial", "full"}]
    pc,       \* [Procs -> step]
    req,      \* [Procs -> [op, m, w]]
    held,     \* [Procs -> SUBSET CacheLock]: cache locks held
    snap,     \* [Procs -> set of paths]: files DeleteAll's walk matched
    lockfiles, \* SUBSET LockId: lock files on disk in the cache directory
    ret,      \* [Procs -> result of the last request]
    ops,
    faults    \* faults injected so far

vars == <<meta, data, cache, pc, req, held, snap, lockfiles, ret, ops, faults>>

\* Cache lock ids: a cache id "<hash>_<width>", or the bare data id that
\* Delete locks.
LockId == (Hashes \X Widths) \cup Hashes
CacheLock == [id : LockId, excl : BOOLEAN]

\* repoFactory(ctx, "cache", "bin"): the cache repository's subdir and ext.
CacheSubdir == <<"c", "a", "c", "h", "e">>
CacheExt == <<"b", "i", "n">>

\* The blob id of a lock id: the data id, or fmt.Sprintf("%s_%d", hash,
\* width) for a cache id.
IdName(id) == IF id \in Hashes THEN HashName[id]
              ELSE HashName[id[1]] \o <<"_">> \o Decimal(id[2])

\* The function [x \in S |-> F(x)], built as a table of values once.
Tabulate(S, F(_)) == FoldSet(LAMBDA x, t : (x :> F(x)) @@ t, <<>>, S)

\* The path of each id's blob and of its lock file.
BlobPath == Tabulate(LockId, LAMBDA id : GetFilename(CacheSubdir, CacheExt, IdName(id)))
LockPath == Tabulate(LockId, LAMBDA id : LockFilename(CacheSubdir, CacheExt, IdName(id)))

\* The regular files of the cache repository: its blobs and lock files.
CacheFiles ==
    {BlobPath[c] : c \in {c \in DOMAIN cache : cache[c] # "absent"}} \cup {LockPath[id] : id \in lockfiles}

\* getFilenames(dataID, "_*") of the cache repository, for every hash and
\* every set of files on disk.
WalkDerivatives ==
    Tabulate(Hashes \X SUBSET (Range(BlobPath) \cup Range(LockPath)),
             LAMBDA hfs : getFilenames(CacheSubdir, CacheExt, HashName[hfs[1]], <<"_", "*">>, hfs[2]))

Results == {"none", "ok", "original", "notfound", "error", "torn"}

M(p) == req[p].m
H(p) == HashOf[req[p].m]
CacheId(p) == <<H(p), req[p].w>>

Body(m) == BodyOf[HashOf[m]]

\* Mutant of UploadMIMEType: the re-check is passed nil, like the check
\* before the read.
UploadMIMETypeNoBody(m) == CheckUploadConstraints(FileExt[m], Len(Body(m)), Nil).type

\* processFile's second CheckUploadConstraints, on the body it read: the
\* MIME type it puts in the MediaMeta, stored in the meta blob and handed
\* back by mediaSvc.Fetch.
UploadMIMEType(m) == CheckUploadConstraints(FileExt[m], Len(Body(m)), Slice(Body(m))).type

Init ==
    /\ meta = {} /\ data = {}
    /\ cache = [c \in Hashes \X Widths |-> "absent"]
    /\ pc = [p \in Procs |-> "idle"]
    /\ req = [p \in Procs |-> [op |-> "fetch", m |-> CHOOSE m \in Media : TRUE, w |-> 0]]
    /\ held = [p \in Procs |-> {}]
    /\ snap = [p \in Procs |-> {}]
    /\ lockfiles = {}
    /\ ret = [p \in Procs |-> "none"]
    /\ ops = 0
    /\ faults = 0

Grantable(p, id, excl) ==
    \A q \in Procs \ {p} : \A l \in held[q] : l.id = id => ~l.excl /\ ~excl

\* Mutant of Finish: the unlock is called on the error returns only, not
\* deferred, so a successful return keeps the cache lock.
\* Mutant of Unlock: the deferred unlock is missing.
UnlockMissing(p, files) ==
    /\ held' = held
    /\ lockfiles' = files

\* The deferred unlock: removes the lock file and releases p's cache lock;
\* files are the lock files on disk at that moment.
Unlock(p, files) ==
    /\ held' = [held EXCEPT ![p] = {}]
    /\ lockfiles' = files \ {l.id : l \in held[p]}

\* Return, running the deferred unlock.
Finish(p, res) ==
    /\ pc' = [pc EXCEPT ![p] = "idle"]
    /\ ret' = [ret EXCEPT ![p] = res]
    /\ Unlock(p, lockfiles)

Goto(p, s) == pc' = [pc EXCEPT ![p] = s]

\* An HTTP request: upload, download with width 0 or a resize width, or
\* delete.
Begin(p) ==
    /\ pc[p] = "idle" /\ ops < MaxOps
    /\ \E op \in {"upload", "fetch", "delete"}, m \in Media, w \in Widths \cup {0} :
         /\ req' = [req EXCEPT ![p] = [op |-> op, m |-> m, w |-> w]]
         /\ Goto(p, CASE op = "upload" -> "up_store"
                      [] op = "fetch"  -> "if_media"
                      [] OTHER         -> "id_media")
    /\ ops' = ops + 1
    /\ UNCHANGED <<meta, data, cache, held, lockfiles, snap, ret, faults>>

\* Store: CheckUploadConstraints on the filename, the body's length and
\* the body rejects the image, or mediaSvc.Store stores it.
Upload(p) ==
    /\ pc[p] = "up_store"
    /\ IF CheckUploadConstraints(FileExt[M(p)], Len(Body(M(p))), Slice(Body(M(p)))).ok
         THEN meta' = meta \cup {M(p)} /\ data' = data \cup {H(p)} /\ Finish(p, "ok")
         ELSE Finish(p, "error") /\ UNCHANGED <<meta, data>>
    /\ UNCHANGED <<cache, req, snap, ops, faults>>

-----------------------------------------------------------------------------
(* Fetch(id, width) *)

\* mediaSvc.Fetch returns the image and releases the media locks; width 0
\* returns it as it is.
FetchMedia(p) ==
    /\ pc[p] = "if_media"
    /\ \/ M(p) \notin meta /\ Finish(p, "notfound")
       \/ M(p) \in meta /\ req[p].w = 0 /\ Finish(p, "original")
       \/ M(p) \in meta /\ req[p].w # 0 /\ Goto(p, "if_lock") /\ UNCHANGED <<held, lockfiles, ret>>
    /\ UNCHANGED <<meta, data, cache, req, snap, ops, faults>>

\* cacheRepo.Lock(cacheID, false).
FetchLockCache(p) ==
    /\ pc[p] = "if_lock"
    /\ Grantable(p, CacheId(p), FALSE)
    /\ held' = [held EXCEPT ![p] = @ \cup {[id |-> CacheId(p), excl |-> FALSE]}]
    /\ lockfiles' = lockfiles \cup {CacheId(p)}
    /\ Goto(p, "if_exists")
    /\ UNCHANGED <<meta, data, cache, req, snap, ret, ops, faults>>

\* blobExists: os.Stat of the blob's file succeeds, whatever its contents.
Exists(c) == cache[c] # "absent"

\* cacheRepo.Exists decides between a hit and a miss.  On a miss,
\* resizeImage decodes with the decoder of the meta's MIME type: there is
\* none for a type outside the table, and a body past its magic number may
\* still fail to decode; Fetch returns the error.
FetchExists(p) ==
    /\ pc[p] = "if_exists"
    /\ \/ Exists(CacheId(p)) /\ Goto(p, "if_read") /\ UNCHANGED <<held, lockfiles, ret>>
       \/ /\ ~Exists(CacheId(p)) /\ UploadMIMEType(M(p)) \in Decodable
          /\ Goto(p, "if_create") /\ UNCHANGED <<held, lockfiles, ret>>
       \/ ~Exists(CacheId(p)) /\ Finish(p, "error")
    /\ UNCHANGED <<meta, data, cache, req, snap, ops, faults>>

\* cacheRepo.Fetch: fetchBlob reads the file; the size checks pass for a
\* partial file, whose bytes are returned as the image.
FetchRead(p) ==
    /\ pc[p] = "if_read"
    /\ Finish(p, CASE cache[CacheId(p)] = "absent"  -> "notfound"
                   [] cache[CacheId(p)] = "partial" -> "torn"
                   [] OTHER                         -> "ok")
    /\ UNCHANGED <<meta, data, cache, req, snap, ops, faults>>

\* resizeImage, then cacheRepo.Store: storeBlob's OpenFile(O_RDWR|O_CREATE)
\* and Truncate(size).  An existing file keeps its bytes: no O_TRUNC, and
\* truncating to the same size changes nothing.
FetchCreate(p) ==
    /\ pc[p] = "if_create"
    /\ cache' = [cache EXCEPT ![CacheId(p)] = IF @ = "absent" THEN "partial" ELSE @]
    /\ Goto(p, "if_write")
    /\ UNCHANGED <<meta, data, req, held, lockfiles, snap, ret, ops, faults>>

\* storeBlob's WriteTo and Sync.  If DeleteAll unlinked the file since it
\* was opened, the bytes go to the unlinked inode and the path stays absent.
FetchWrite(p) ==
    /\ pc[p] = "if_write"
    /\ cache' = [cache EXCEPT ![CacheId(p)] = IF @ = "absent" THEN "absent" ELSE "full"]
    /\ Finish(p, "ok")
    /\ UNCHANGED <<meta, data, req, snap, ops, faults>>

-----------------------------------------------------------------------------
(* Delete(id) *)

\* mediaSvc.Delete: removes the meta blob, and the content blob when no
\* other media refers to it (pruned).
DeleteMedia(p) ==
    /\ pc[p] = "id_media"
    /\ \/ M(p) \notin meta /\ Finish(p, "notfound") /\ UNCHANGED <<meta, data>>
       \/ /\ M(p) \in meta
          /\ meta' = meta \ {M(p)}
          /\ IF \E n \in meta' : HashOf[n] = H(p)
               THEN data' = data /\ Finish(p, "ok")
               ELSE data' = data \ {H(p)} /\ Goto(p, "id_lock") /\ UNCHANGED <<held, lockfiles, ret>>
    /\ UNCHANGED <<cache, req, snap, ops, faults>>

\* pruned: cacheRepo.Lock(dataID, true).
DeleteLockCache(p) ==
    /\ pc[p] = "id_lock"
    /\ Grantable(p, H(p), TRUE)
    /\ held' = [held EXCEPT ![p] = @ \cup {[id |-> H(p), excl |-> TRUE]}]
    /\ lockfiles' = lockfiles \cup {H(p)}
    /\ Goto(p, "id_walk")
    /\ UNCHANGED <<meta, data, cache, req, snap, ret, ops, faults>>

\* DeleteAll(dataID, "_*"): getFilenames walks the directory and collects
\* the paths matching "<hash>_*.<ext>" ...
DeleteWalk(p) ==
    /\ pc[p] = "id_walk"
    /\ snap' = [snap EXCEPT ![p] = WalkDerivatives[<<H(p), CacheFiles>>]]
    /\ Goto(p, "id_remove")
    /\ UNCHANGED <<meta, data, cache, req, held, lockfiles, ret, ops, faults>>

\* Walk reads the names of a directory, then lstats each; a file another
\* task removes in between (a lock file its deferred unlock releases) makes
\* the lstat fail, the walk function returns that error, and Delete
\* returns "delete cache" through its deferred unlock, after the prune.
\* The step is taken while the other task still holds the lock whose file
\* it is about to remove.
DeleteWalkFail(p) ==
    /\ pc[p] = "id_walk"
    /\ \E q \in Procs \ {p} : \E l \in held[q] :
         /\ l.id \in lockfiles
         /\ IsPrefix(Dir(BlobPath[H(p)]) \o <<Sep>>, LockPath[l.id])
    /\ Finish(p, "error")
    /\ UNCHANGED <<meta, data, cache, req, snap, ops, faults>>

\* ... then removes each, ignoring not-exist, and Delete returns through
\* its deferred unlock.
DeleteRemove(p) ==
    /\ pc[p] = "id_remove"
    /\ cache' = [c \in DOMAIN cache |->
                   IF BlobPath[c] \in snap[p] THEN "absent" ELSE cache[c]]
    /\ snap' = [snap EXCEPT ![p] = {}]
    /\ pc' = [pc EXCEPT ![p] = "idle"]
    /\ ret' = [ret EXCEPT ![p] = "ok"]
    /\ Unlock(p, {id \in lockfiles : LockPath[id] \notin snap[p]})
    /\ UNCHANGED <<meta, data, req, ops, faults>>

-----------------------------------------------------------------------------
(* Faults *)

\* flock fails: MkdirAll or OpenFile leave no lock file behind, a failed
\* syscall.Flock removes the lock file, whoever else has it open.
LockFail(p, id) ==
    /\ faults < MaxFaults
    /\ pc' = [pc EXCEPT ![p] = "idle"]
    /\ ret' = [ret EXCEPT ![p] = "error"]
    /\ lockfiles' \in {lockfiles, lockfiles \ {id}}
    /\ faults' = faults + 1
    /\ UNCHANGED <<meta, data, cache, req, held, snap, ops>>

\* cacheRepo.Lock returns an error: Fetch answers "lock cache" before it
\* read the cache ...
FetchLockFail(p) == pc[p] = "if_lock" /\ LockFail(p, CacheId(p))

\* ... and Delete answers it after mediaSvc.Delete has removed the media
\* and pruned its content, leaving the derivatives in the cache.
DeleteLockFail(p) == pc[p] = "id_lock" /\ LockFail(p, H(p))

\* storeBlob's WriteTo or Sync fails after the Truncate: Store returns the
\* error and the file keeps its truncated, unwritten bytes.
FetchWriteFail(p) ==
    /\ pc[p] = "if_write" /\ faults < MaxFaults
    /\ Finish(p, "error")
    /\ faults' = faults + 1
    /\ UNCHANGED <<meta, data, cache, req, snap, ops>>

\* The service process dies and is restarted: in-flight requests get no
\* answer, the kernel releases their flocks, the cache files stay as they
\* are on disk, lock files included.
Crash ==
    /\ faults < MaxFaults /\ \E p \in Procs : pc[p] # "idle"
    /\ pc' = [p \in Procs |-> "idle"]
    /\ held' = [p \in Procs |-> {}]
    /\ snap' = [p \in Procs |-> {}]
    /\ ret' = [p \in Procs |-> IF pc[p] = "idle" THEN ret[p] ELSE "none"]
    /\ faults' = faults + 1
    /\ UNCHANGED <<meta, data, cache, req, lockfiles, ops>>

Terminated ==
    /\ ops = MaxOps /\ \A p \in Procs : pc[p] = "idle"
    /\ UNCHANGED vars

\* The steps of a request once it has begun.
Progress(p) ==
    \/ Upload(p)
    \/ FetchMedia(p) \/ FetchLockCache(p) \/ FetchExists(p) \/ FetchRead(p)
    \/ FetchCreate(p) \/ FetchWrite(p)
    \/ DeleteMedia(p) \/ DeleteLockCache(p) \/ DeleteWalk(p) \/ DeleteRemove(p)
    \/ DeleteWalkFail(p)

Fault(p) == FetchLockFail(p) \/ DeleteLockFail(p) \/ FetchWriteFail(p)

Next ==
    \/ \E p \in Procs : Begin(p) \/ Progress(p) \/ Fault(p)
    \/ Crash
    \/ Terminated

\* Each request task is a goroutine the Go scheduler keeps running while it
\* can take a step; a blocked flock returns once the conflicting holders
\* have closed.  New requests and faults are not bound to happen.
Spec == Init /\ [][Next]_vars /\ \A p \in Procs : WF_vars(Progress(p))

-----------------------------------------------------------------------------
(* Properties *)

(* No derivative outlives its content (spec 6, test 3: after the delete    *)
(* that prunes hash H, no "H_<width>" is left): once every request has     *)
(* returned, each cache blob is of a content blob that exists.             *)
DerivativesOnlyOfStoredContent ==
    (\A p \in Procs : pc[p] = "idle") =>
        \A c \in Hashes \X Widths : cache[c] # "absent" => c[1] \in data

(* A resized download is the whole derivative: no Fetch returns the bytes *)
(* of a cache blob another Fetch is still writing.                         *)
NoTornRead == \A p \in Procs : ret[p] # "torn"

(* The content's type, by the magic numbers of spec 5, as the reference:  *)
(* the types one of whose magic numbers the body starts with.              *)
ContentTypes(b) ==
    {t \in DOMAIN imageExtHeaders :
        \E hd \in imageExtHeaders[t] : Len(hd) <= Len(b) /\ \A i \in 1..Len(hd) : b[i] = hd[i]}

(* Only images of the type their name says are stored, under that type     *)
(* (spec 5, test 4: a JPEG renamed .png is rejected and no blob written):  *)
(* every media with a meta blob has a body whose magic number is of the    *)
(* type its lower-cased extension names, and the MIME type recorded in its *)
(* meta, with which resizeImage picks a decoder, is that type.            *)
(* processFile checks before reading, re-checks after, and Store checks a  *)
(* third time; only the second check's type is recorded.                  *)
StoredImagesMatchTheirType ==
    \A m \in meta :
        /\ ContentTypes(Body(m)) = {imageExtTypes[ToLower(FileExt[m])]}
        /\ UploadMIMEType(m) = imageExtTypes[ToLower(FileExt[m])]

(* DeleteAll wipes derivatives only (spec 6): the files the walk of the    *)
(* cache's shared prefix directory selects for removal are cache blobs of *)
(* the pruned hash, never the lock file a concurrent Fetch or the Delete   *)
(* itself holds there, which "<hash>_*.bin" must not match.                *)
WipeSelectsOnlyDerivatives ==
    \A p \in Procs : pc[p] = "id_remove" =>
        snap[p] \subseteq {BlobPath[<<H(p), w>>] : w \in Widths}

(* Every request returns (the handler answers, or the process dies): the   *)
(* cache lock Fetch and Delete wait for is released by the deferred        *)
(* unlock of every return path, the error returns of Fetch, Delete and     *)
(* storeBlob included, and no task holds one lock while waiting for        *)
(* another.                                                                *)
RequestsReturn == \A p \in Procs : pc[p] # "idle" ~> pc[p] = "idle"
=============================================================================
