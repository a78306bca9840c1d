---------------------------- MODULE MediaService ----------------------------
(***************************************************************************)
(* BlobMediaService (src/internal/svc/mediasvc/media_config.go): content-  *)
(* addressed media storage over three blob repositories.                  *)
(*                                                                         *)
(*   metaRepo    ("meta","json")  meta blob per media id                   *)
(*   dataRepo    ("data","bin")   content blob per content hash            *)
(*   backrefRepo ("data","txt")   newline list of media ids per hash      *)
(*                                                                         *)
(* Every request runs on its own task (a process of Procs).  Each         *)
(* repository call that reads or changes the store is one step; a step    *)
(* that the code performs under a lock is atomic with respect to every    *)
(* other task honouring that lock.  Locks are the blob.Repository.Lock    *)
(* contract: per (repository, id) a reader/writer lock (LOCK_SH /         *)
(* LOCK_EX).  Their filesystem realisation is modelled in Flock.tla.       *)
(*                                                                         *)
(* A meta blob's content is a function of its id (MediaMeta.update        *)
(* derives id from hash, filename, mime type and owner), so a meta blob   *)
(* is represented by its id and HashOf / OwnerOf give its fields.  The     *)
(* backref blob is held as its lines (bytes.Split of its bytes on LF);     *)
(* its bytes are computed where a partial write matters.  Media ids have   *)
(* one fixed length; each is one byte here.                                *)
(*                                                                         *)
(* Faults: a repository call at a step named in FailAt may return an I/O   *)
(* error (at most MaxFailures times), and the whole service process may    *)
(* crash and restart (at most MaxCrashes times): the kernel drops every    *)
(* flock, the files stay.  A backref store that fails or is cut short by   *)
(* a crash leaves what storeBlob's Truncate and partial write left.        *)
(***************************************************************************)
EXTENDS Naturals, Sequences, FiniteSets, SequencesExt

CONSTANTS
    Procs,        \* request tasks running concurrently
    Media,        \* media ids (MediaMeta.ID)
    Hashes,       \* content hashes (MediaMeta.Hash, id of data and backref blobs)
    Users,        \* usernames attached to a request context
    HashOf,       \* [Media -> Hashes]: the hash stored in a media's meta blob
    OwnerOf,      \* [Media -> Users]: the owner stored in a media's meta blob
    TooLarge,     \* media whose body exceeds MediaConfig.MaxSize
    FailAt,       \* steps whose repository call may fail with an I/O error
    MaxOps,       \* requests started, over all tasks
    MaxFailures,  \* I/O errors injected
    MaxCrashes,   \* process crashes
    NoBlob        \* a backref blob that does not exist

ASSUME HashOf \in [Media -> Hashes] /\ OwnerOf \in [Media -> Users]
\* The bytes of a backref blob: one-byte media ids, the line separator, and
\* the zero bytes a Truncate that extends a file fills it with.
LF  == "LF"
NUL == "NUL"
Byte == Media \cup {LF, NUL}

ASSUME TooLarge \subseteq Media /\ NoBlob \notin Seq(Seq(Byte))

VARIABLES
    metaRepo,     \* SUBSET Media: meta blobs on disk
    dataRepo,     \* SUBSET Hashes: content blobs on disk
    backrefRepo,  \* [Hashes -> Seq(Seq(Byte)) \cup {NoBlob}]: backref blobs' lines
    pc,           \* [Procs -> step]: where each task is
    req,          \* [Procs -> request]: operation, media id, caller
    held,         \* [Procs -> SUBSET LockSlot]: locks each task holds
    pruned,       \* [Procs -> BOOLEAN]: Delete's pruned result so far
    ret,          \* [Procs -> reply]: the reply of each task's last request
    ops, failures, crashes

storeVars == <<metaRepo, dataRepo, backrefRepo>>
procVars  == <<pc, req, held, pruned, ret>>
vars      == <<storeVars, procVars, ops, failures, crashes>>

Ops     == {"store", "delete", "fetch", "lock"}
Results == {"ok", "notfound", "unauthorized", "io", "toolarge"}
NoReply == [op |-> "none", m |-> CHOOSE m \in Media : TRUE, res |-> "ok", pruned |-> FALSE]

\* First step of each operation.
Entry == [store |-> "st_lockMeta", delete |-> "dl_lockMeta",
          fetch |-> "fe_lockMeta", lock |-> "lk_lockMeta"]

Steps == {"idle", "lk_lockMeta", "lk_held",
          "st_lockMeta", "st_lockData", "st_data", "st_meta", "st_backref",
          "dl_lockMeta", "dl_fetchMeta", "dl_lockData", "dl_prune",
          "dl_delBackref", "dl_delMeta",
          "fe_lockMeta", "fe_fetchMeta", "fe_lockData", "fe_fetchData"}

LockSlot == [repo : {"meta", "data"}, id : Media \cup Hashes, excl : BOOLEAN]

Request == [op : Ops, m : Media, u : Users]
Reply   == [op : Ops, m : Media, res : Results, pruned : BOOLEAN] \cup {NoReply}

TypeOK ==
    /\ metaRepo \subseteq Media
    /\ dataRepo \subseteq Hashes
    /\ backrefRepo \in [Hashes -> Seq(Seq(Byte) \ {<<>>}) \cup {NoBlob}]
    /\ pc \in [Procs -> Steps]
    /\ req \in [Procs -> Request]
    /\ held \in [Procs -> SUBSET LockSlot]
    /\ pruned \in [Procs -> BOOLEAN]
    /\ ret \in [Procs -> Reply]
    /\ ops \in 0..MaxOps /\ failures \in 0..MaxFailures /\ crashes \in 0..MaxCrashes

-----------------------------------------------------------------------------
(* Helpers *)

M(p) == req[p].m
H(p) == HashOf[req[p].m]

\* bytes.Split(b, "\n"): the pieces between separators, one more than there
\* are separators (so an empty body is one empty id).
RECURSIVE SplitLines(_)
SplitLines(b) ==
    LET i == SelectInSeq(b, LAMBDA x : x = LF)
    IN IF i = 0 THEN <<b>> ELSE <<SubSeq(b, 1, i - 1)>> \o SplitLines(SubSeq(b, i + 1, Len(b)))

\* storeBackrefs: bytes.Join(ids, "\n").
JoinLines(ids) ==
    IF ids = <<>> THEN <<>> ELSE FoldLeft(LAMBDA acc, id : acc \o <<LF>> \o id, Head(ids), Tail(ids))

\* Mutant of Backrefs: an absent list read as bytes.Split of an empty
\* body, which yields one empty id.
BackrefsSplitEmpty(h) == IF backrefRepo[h] = NoBlob THEN <<<<>>>> ELSE backrefRepo[h]

\* fetchBackrefs: an absent backref blob reads as the empty list, a present
\* one as its lines.
Backrefs(h) == IF backrefRepo[h] = NoBlob THEN <<>> ELSE backrefRepo[h]

\* The media a list names: its lines that are a media id.
Named(h) == {m \in Media : <<m>> \in ToSet(Backrefs(h))}

\* The lines of the file after storeBlob of the lines new over the lines
\* old has Truncated it to the new length (zero-filling past the old end)
\* and written the first k bytes.
Written(old, new, k) ==
    LET o == IF old = NoBlob THEN <<>> ELSE JoinLines(old)
        n == JoinLines(new)
    IN SplitLines([i \in 1..Len(n) |-> IF i <= k THEN n[i] ELSE IF i <= Len(o) THEN o[i] ELSE NUL])

\* The length in bytes of the stored lines.
ByteLen(lines) == Len(JoinLines(lines))

\* What a storeBlob that returns an error, or is cut short by a crash,
\* leaves: the old file (MkdirAll, OpenFile or Truncate failed), or the
\* truncated file with a prefix of the new bytes (WriteTo failed after k
\* bytes; Sync or Stat failed after all of them).
TornStores(old, new) == {old} \cup {Written(old, new, k) : k \in 0..ByteLen(new)}

\* addBackrefs: the list with the media id appended.
AddedBackrefs(p) == Append(Backrefs(H(p)), <<M(p)>>)

\* pruneMedia: the list without the lines equal to the media id.
Rest(p) == Remove(Backrefs(H(p)), <<M(p)>>)

\* The backref bytes p's current step stores, if it stores any.
BackrefStore(p) ==
    CASE pc[p] = "st_backref"                   -> AddedBackrefs(p)
      [] pc[p] = "dl_prune" /\ Rest(p) # <<>>   -> Rest(p)
      [] OTHER                                  -> NoBlob

Writing(p) == BackrefStore(p) # NoBlob

\* FileSystemRepository.Lock under the Repository contract: a shared lock
\* coexists with shared locks, an exclusive one with none.
Grantable(p, repo, id, excl) ==
    \A q \in Procs \ {p} : \A l \in held[q] :
        (l.repo = repo /\ l.id = id) => (~l.excl /\ ~excl)

Acquire(p, repo, id, excl, next) ==
    /\ Grantable(p, repo, id, excl)
    /\ held' = [held EXCEPT ![p] = @ \cup {[repo |-> repo, id |-> id, excl |-> excl]}]
    /\ pc' = [pc EXCEPT ![p] = next]
    /\ UNCHANGED <<storeVars, req, pruned, ret, ops, failures, crashes>>

\* Mutant of Finish: a return path that skips the deferred unlocks.
FinishKeepLocks(p, res, pr) ==
    /\ pc' = [pc EXCEPT ![p] = "idle"]
    /\ held' = held
    /\ ret' = [ret EXCEPT ![p] = [op |-> req[p].op, m |-> req[p].m,
                                  res |-> res, pruned |-> pr]]
    /\ pruned' = [pruned EXCEPT ![p] = FALSE]

\* Return from the operation: the deferred unlocks release every lock.
Finish(p, res, pr) ==
    /\ pc' = [pc EXCEPT ![p] = "idle"]
    /\ held' = [held EXCEPT ![p] = {}]
    /\ ret' = [ret EXCEPT ![p] = [op |-> req[p].op, m |-> req[p].m,
                                  res |-> res, pruned |-> pr]]
    /\ pruned' = [pruned EXCEPT ![p] = FALSE]

Goto(p, next) == pc' = [pc EXCEPT ![p] = next]

\* The step performs a repository call that can fail: flock's open/flock,
\* or a Store, Fetch or Delete of a blob (Exists reports false on error).
Fallible(p) ==
    CASE pc[p] = "st_lockMeta"   -> M(p) \notin TooLarge
      [] pc[p] = "st_data"       -> H(p) \notin dataRepo
      [] pc[p] = "st_meta"       -> M(p) \notin metaRepo
      [] pc[p] \in {"dl_fetchMeta", "dl_delMeta", "fe_fetchMeta"} -> M(p) \in metaRepo
      [] pc[p] = "dl_delBackref" -> backrefRepo[H(p)] # NoBlob
      [] pc[p] = "fe_fetchData"  -> H(p) \in dataRepo
      [] OTHER                   -> pc[p] \notin {"idle", "lk_held"}

\* A repository call at the current step returns an I/O error; the
\* operation wraps it and returns (every error path returns at once).
IOError(p) ==
    /\ pc[p] \in FailAt
    /\ Fallible(p)
    /\ failures < MaxFailures
    /\ failures' = failures + 1
    /\ Finish(p, "io", pruned[p])
    /\ IF Writing(p)
         THEN \E b \in TornStores(backrefRepo[H(p)], BackrefStore(p)) :
                backrefRepo' = [backrefRepo EXCEPT ![H(p)] = b]
         ELSE UNCHANGED backrefRepo
    /\ UNCHANGED <<metaRepo, dataRepo, req, ops, crashes>>

-----------------------------------------------------------------------------
(* Requests *)

Init ==
    /\ metaRepo = {}
    /\ dataRepo = {}
    /\ backrefRepo = [h \in Hashes |-> NoBlob]
    /\ pc = [p \in Procs |-> "idle"]
    /\ req = [p \in Procs |-> [op |-> "fetch", m |-> CHOOSE m \in Media : TRUE,
                               u |-> CHOOSE u \in Users : TRUE]]
    /\ held = [p \in Procs |-> {}]
    /\ pruned = [p \in Procs |-> FALSE]
    /\ ret = [p \in Procs |-> NoReply]
    /\ ops = 0 /\ failures = 0 /\ crashes = 0

\* A request arrives on task p.  An upload's owner is the uploader
\* (processFile puts the context username into MediaMeta.Owner).
Begin(p) ==
    /\ pc[p] = "idle"
    /\ ops < MaxOps
    /\ \E op \in Ops, m \in Media, u \in Users :
         /\ op = "store" => u = OwnerOf[m]
         /\ req' = [req EXCEPT ![p] = [op |-> op, m |-> m, u |-> u]]
         /\ Goto(p, Entry[op])
    /\ ops' = ops + 1
    /\ UNCHANGED <<storeVars, held, pruned, ret, failures, crashes>>

(* Lock(mediaID): shared lock on the meta blob, held until unlock. *)
LockMedia(p) ==
    /\ pc[p] = "lk_lockMeta"
    /\ Acquire(p, "meta", M(p), FALSE, "lk_held")

UnlockMedia(p) ==
    /\ pc[p] = "lk_held"
    /\ Finish(p, "ok", FALSE)
    /\ UNCHANGED <<storeVars, req, ops, failures, crashes>>

(* Store(media) *)
StoreTooLarge(p) ==
    /\ pc[p] = "st_lockMeta"
    /\ M(p) \in TooLarge
    /\ Finish(p, "toolarge", FALSE)
    /\ UNCHANGED <<storeVars, req, ops, failures, crashes>>

StoreLockMeta(p) ==
    /\ pc[p] = "st_lockMeta"
    /\ M(p) \notin TooLarge
    /\ Acquire(p, "meta", M(p), TRUE, "st_lockData")

StoreLockData(p) ==
    /\ pc[p] = "st_lockData"
    /\ Acquire(p, "data", H(p), TRUE, "st_data")

\* if !dataRepo.Exists(hash) { dataRepo.Store(dataBlob) }
StoreData(p) ==
    /\ pc[p] = "st_data"
    /\ dataRepo' = dataRepo \cup {H(p)}
    /\ Goto(p, "st_meta")
    /\ UNCHANGED <<metaRepo, backrefRepo, req, held, pruned, ret, ops, failures, crashes>>

\* if !metaRepo.Exists(id) { metaRepo.Store(metaBlob); addBackrefs(...) }
StoreMetaExists(p) ==
    /\ pc[p] = "st_meta"
    /\ M(p) \in metaRepo
    /\ Finish(p, "ok", FALSE)
    /\ UNCHANGED <<storeVars, req, ops, failures, crashes>>

StoreMeta(p) ==
    /\ pc[p] = "st_meta"
    /\ M(p) \notin metaRepo
    /\ metaRepo' = metaRepo \cup {M(p)}
    /\ Goto(p, "st_backref")
    /\ UNCHANGED <<dataRepo, backrefRepo, req, held, pruned, ret, ops, failures, crashes>>

\* Mutant of StoreBackrefs: the list is written without reading it first.
StoreBackrefsOverwrite(p) ==
    /\ pc[p] = "st_backref"
    /\ backrefRepo' = [backrefRepo EXCEPT ![H(p)] = <<<<M(p)>>>>]
    /\ Finish(p, "ok", FALSE)
    /\ UNCHANGED <<metaRepo, dataRepo, req, ops, failures, crashes>>

\* addBackrefs: fetch the list, append the media id, store the list.
StoreBackrefs(p) ==
    /\ pc[p] = "st_backref"
    /\ backrefRepo' = [backrefRepo EXCEPT ![H(p)] = AddedBackrefs(p)]
    /\ Finish(p, "ok", FALSE)
    /\ UNCHANGED <<metaRepo, dataRepo, req, ops, failures, crashes>>

(* Delete(mediaID) -> (pruned, dataID) *)
DeleteLockMeta(p) ==
    /\ pc[p] = "dl_lockMeta"
    /\ Acquire(p, "meta", M(p), FALSE, "dl_fetchMeta")

\* fetchMeta, then the owner check against the context username.
DeleteFetchMeta(p) ==
    /\ pc[p] = "dl_fetchMeta"
    /\ \/ /\ M(p) \notin metaRepo
          /\ Finish(p, "notfound", FALSE)
       \/ /\ M(p) \in metaRepo
          /\ OwnerOf[M(p)] # req[p].u
          /\ Finish(p, "unauthorized", FALSE)
       \/ /\ M(p) \in metaRepo
          /\ OwnerOf[M(p)] = req[p].u
          /\ Goto(p, "dl_lockData")
          /\ UNCHANGED <<held, pruned, ret>>
    /\ UNCHANGED <<storeVars, req, ops, failures, crashes>>

\* Mutant of DeleteLockData: the data blob locked shared, as Fetch does.
DeleteLockDataShared(p) ==
    /\ pc[p] = "dl_lockData"
    /\ Acquire(p, "data", H(p), FALSE, "dl_prune")

DeleteLockData(p) ==
    /\ pc[p] = "dl_lockData"
    /\ Acquire(p, "data", H(p), TRUE, "dl_prune")

\* Mutants of DeletePrune: the content is pruned while one other id is
\* still listed (len <= 1), and the entries are compared with the hash
\* instead of the media id.
DeletePruneOffByOne(p) ==
    LET rest == Remove(Backrefs(H(p)), <<M(p)>>) IN
    /\ pc[p] = "dl_prune"
    /\ \/ /\ Len(rest) <= 1
          /\ H(p) \notin dataRepo
          /\ Finish(p, "notfound", FALSE)
          /\ UNCHANGED storeVars
       \/ /\ Len(rest) <= 1
          /\ H(p) \in dataRepo
          /\ dataRepo' = dataRepo \ {H(p)}
          /\ Goto(p, "dl_delBackref")
          /\ UNCHANGED <<metaRepo, backrefRepo, held, pruned, ret>>
       \/ /\ Len(rest) > 1
          /\ backrefRepo' = [backrefRepo EXCEPT ![H(p)] = rest]
          /\ Goto(p, "dl_delMeta")
          /\ UNCHANGED <<metaRepo, dataRepo, held, pruned, ret>>
    /\ UNCHANGED <<req, ops, failures, crashes>>

DeletePruneByHash(p) ==
    LET rest == Remove(Backrefs(H(p)), <<H(p)>>) IN
    /\ pc[p] = "dl_prune"
    /\ \/ /\ rest = <<>>
          /\ H(p) \notin dataRepo
          /\ Finish(p, "notfound", FALSE)
          /\ UNCHANGED storeVars
       \/ /\ rest = <<>>
          /\ H(p) \in dataRepo
          /\ dataRepo' = dataRepo \ {H(p)}
          /\ Goto(p, "dl_delBackref")
          /\ UNCHANGED <<metaRepo, backrefRepo, held, pruned, ret>>
       \/ /\ rest # <<>>
          /\ backrefRepo' = [backrefRepo EXCEPT ![H(p)] = rest]
          /\ Goto(p, "dl_delMeta")
          /\ UNCHANGED <<metaRepo, dataRepo, held, pruned, ret>>
    /\ UNCHANGED <<req, ops, failures, crashes>>

\* pruneMedia: drop the id from the backref list (slices.DeleteFunc); an
\* empty list deletes the data blob (then the backref blob), otherwise the
\* list is stored back.
DeletePrune(p) ==
    LET rest == Rest(p) IN
    /\ pc[p] = "dl_prune"
    /\ \/ /\ rest = <<>>
          /\ H(p) \notin dataRepo
          /\ Finish(p, "notfound", FALSE)
          /\ UNCHANGED storeVars
       \/ /\ rest = <<>>
          /\ H(p) \in dataRepo
          /\ dataRepo' = dataRepo \ {H(p)}
          /\ Goto(p, "dl_delBackref")
          /\ UNCHANGED <<metaRepo, backrefRepo, held, pruned, ret>>
       \/ /\ rest # <<>>
          /\ backrefRepo' = [backrefRepo EXCEPT ![H(p)] = rest]
          /\ Goto(p, "dl_delMeta")
          /\ UNCHANGED <<metaRepo, dataRepo, held, pruned, ret>>
    /\ UNCHANGED <<req, ops, failures, crashes>>

DeleteBackrefBlob(p) ==
    /\ pc[p] = "dl_delBackref"
    /\ \/ /\ backrefRepo[H(p)] = NoBlob
          /\ Finish(p, "notfound", FALSE)
          /\ UNCHANGED backrefRepo
       \/ /\ backrefRepo[H(p)] # NoBlob
          /\ backrefRepo' = [backrefRepo EXCEPT ![H(p)] = NoBlob]
          /\ pruned' = [pruned EXCEPT ![p] = TRUE]
          /\ Goto(p, "dl_delMeta")
          /\ UNCHANGED <<held, ret>>
    /\ UNCHANGED <<metaRepo, dataRepo, req, ops, failures, crashes>>

DeleteMeta(p) ==
    /\ pc[p] = "dl_delMeta"
    /\ \/ /\ M(p) \notin metaRepo
          /\ Finish(p, "notfound", pruned[p])
          /\ UNCHANGED metaRepo
       \/ /\ M(p) \in metaRepo
          /\ metaRepo' = metaRepo \ {M(p)}
          /\ Finish(p, "ok", pruned[p])
    /\ UNCHANGED <<dataRepo, backrefRepo, req, ops, failures, crashes>>

(* Fetch(mediaID) *)
FetchLockMeta(p) ==
    /\ pc[p] = "fe_lockMeta"
    /\ Acquire(p, "meta", M(p), FALSE, "fe_fetchMeta")

FetchMeta(p) ==
    /\ pc[p] = "fe_fetchMeta"
    /\ \/ /\ M(p) \notin metaRepo
          /\ Finish(p, "notfound", FALSE)
       \/ /\ M(p) \in metaRepo
          /\ OwnerOf[M(p)] # req[p].u
          /\ Finish(p, "unauthorized", FALSE)
       \/ /\ M(p) \in metaRepo
          /\ OwnerOf[M(p)] = req[p].u
          /\ Goto(p, "fe_lockData")
          /\ UNCHANGED <<held, pruned, ret>>
    /\ UNCHANGED <<storeVars, req, ops, failures, crashes>>

FetchLockData(p) ==
    /\ pc[p] = "fe_lockData"
    /\ Acquire(p, "data", H(p), FALSE, "fe_fetchData")

FetchData(p) ==
    /\ pc[p] = "fe_fetchData"
    /\ \/ /\ H(p) \notin dataRepo
          /\ Finish(p, "notfound", FALSE)
       \/ /\ H(p) \in dataRepo
          /\ Finish(p, "ok", FALSE)
    /\ UNCHANGED <<storeVars, req, ops, failures, crashes>>

-----------------------------------------------------------------------------
(* Faults and termination *)

\* The service process dies and is restarted: every in-flight request is
\* lost, the kernel releases every flock, the blob files stay as written.
\* A task storing a backref list may die before its Truncate (k < 0) or
\* after it, with k bytes written.
Crash ==
    /\ crashes < MaxCrashes
    /\ \E p \in Procs : pc[p] # "idle"
    /\ LET store == [p \in Procs |-> BackrefStore(p)]
           cut(p) == IF store[p] = NoBlob THEN {-1} ELSE -1..ByteLen(store[p])
       IN \E k \in [Procs -> UNION {cut(p) : p \in Procs}] :
            /\ \A p \in Procs : k[p] \in cut(p)
            /\ backrefRepo' =
                 [h \in Hashes |->
                    IF \E p \in Procs : k[p] >= 0 /\ H(p) = h
                      THEN LET p == CHOOSE p \in Procs : k[p] >= 0 /\ H(p) = h
                           IN Written(backrefRepo[h], store[p], k[p])
                      ELSE backrefRepo[h]]
    /\ crashes' = crashes + 1
    /\ pc' = [p \in Procs |-> "idle"]
    /\ held' = [p \in Procs |-> {}]
    /\ pruned' = [p \in Procs |-> FALSE]
    /\ ret' = [p \in Procs |-> IF pc[p] = "idle" THEN ret[p] ELSE NoReply]
    /\ UNCHANGED <<metaRepo, dataRepo, req, ops, failures>>

\* Every request has returned and no more arrive.
Terminated ==
    /\ ops = MaxOps
    /\ \A p \in Procs : pc[p] = "idle"
    /\ UNCHANGED vars

Step(p) ==
    \/ Begin(p)
    \/ LockMedia(p) \/ UnlockMedia(p)
    \/ StoreTooLarge(p) \/ StoreLockMeta(p) \/ StoreLockData(p) \/ StoreData(p)
    \/ StoreMetaExists(p) \/ StoreMeta(p) \/ StoreBackrefs(p)
    \/ DeleteLockMeta(p) \/ DeleteFetchMeta(p) \/ DeleteLockData(p)
    \/ DeletePrune(p) \/ DeleteBackrefBlob(p) \/ DeleteMeta(p)
    \/ FetchLockMeta(p) \/ FetchMeta(p) \/ FetchLockData(p) \/ FetchData(p)
    \/ IOError(p)

Next ==
    \/ \E p \in Procs : Step(p)
    \/ Crash
    \/ Terminated

Spec == Init /\ [][Next]_vars

-----------------------------------------------------------------------------
(* Properties *)

Referrers(h) == {m \in metaRepo : HashOf[m] = h}

\* No task is inside a critical section that changes content h.
Quiescent(h) == \A p \in Procs : [repo |-> "data", id |-> h, excl |-> TRUE] \notin held[p]

(* The backreference index (spec section 3): whenever no Store or Delete   *)
(* holds the data lock of hash h, the content blob h exists exactly when  *)
(* some meta blob has hash h, the backref blob exists exactly when the     *)
(* content blob does, and it lists exactly those meta ids.  Store writes   *)
(* data, meta, backref in three calls and Delete removes them in three;    *)
(* the exclusive data lock is what keeps concurrent requests on media      *)
(* sharing one content from seeing or making a half-done state.           *)
RefIntegrity ==
    \A h \in Hashes : Quiescent(h) =>
        /\ (h \in dataRepo) <=> (Referrers(h) # {})
        /\ (backrefRepo[h] # NoBlob) <=> (h \in dataRepo)
        /\ ToSet(Backrefs(h)) = {<<m>> : m \in Referrers(h)}

BackrefsHaveMeta ==
    \A h \in Hashes : \A m \in Named(h) : m \in metaRepo /\ HashOf[m] = h

\* The lock p's current step waits for is held by another task.
Blocked(p) ==
    \/ /\ pc[p] \in {"lk_lockMeta", "dl_lockMeta", "fe_lockMeta"}
       /\ ~Grantable(p, "meta", M(p), FALSE)
    \/ /\ pc[p] = "st_lockMeta" /\ M(p) \notin TooLarge
       /\ ~Grantable(p, "meta", M(p), TRUE)
    \/ pc[p] \in {"st_lockData", "dl_lockData"} /\ ~Grantable(p, "data", H(p), TRUE)
    \/ pc[p] = "fe_lockData" /\ ~Grantable(p, "data", H(p), FALSE)

(* No circular wait (spec 4.2(c)): whenever some request is in progress,  *)
(* one of them can take its next step.  Every operation locks meta before *)
(* data and releases all its locks on every return path.                  *)
DeadlockFree ==
    (\E p \in Procs : pc[p] # "idle") => \E p \in Procs : pc[p] # "idle" /\ ~Blocked(p)

(* Content is pruned only when its last reference goes (spec 1.2): a step *)
(* that deletes content blob h leaves no meta blob with hash h other than *)
(* the one the pruning Delete is removing.                                *)
PruneOnlyUnreferenced ==
    [][\A h \in dataRepo \ dataRepo' :
          Referrers(h)' \subseteq {M(p) : p \in {q \in Procs : pc[q] = "dl_prune"}}]_vars

(* A Delete or Fetch that answers not-found (HTTP 404) leaves no meta blob *)
(* of that id behind: the client is told the media is gone, so it must be.*)
NotFoundOnlyIfAbsent ==
    [][\A p \in Procs :
          (pc[p] # "idle" /\ pc'[p] = "idle" /\ ret'[p].res = "notfound"
             /\ req[p].op \in {"delete", "fetch"})
          => M(p) \notin metaRepo']_vars

(* Lock(mediaId) holds a media stable (spec 4.2: callers use it to hold a  *)
(* media across read-then-act sequences): while a task holds the lock      *)
(* that MediaService.Lock returned, no other request creates or removes    *)
(* the meta blob of that media.                                            *)
MediaStableUnderLock ==
    [][\A p \in Procs :
          pc[p] = "lk_held" /\ pc'[p] = "lk_held"
          => (M(p) \in metaRepo <=> M(p) \in metaRepo')]_vars

=============================================================================
