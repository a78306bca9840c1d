------------------------------- MODULE Flock -------------------------------
(***************************************************************************)
(* FileSystemRepository.flock (src/internal/repo/blob/                     *)
(* filesystem_blob_repository.go): the lock of one blob id is an flock on  *)
(* the sidecar file "<blob>.lock".                                         *)
(*                                                                         *)
(*   acquire:  MkdirAll; OpenFile(lockfile, O_CREATE|O_RDWR); Flock(fd)    *)
(*   on error: Remove(lockfile); Close(fd)                                 *)
(*   release:  Remove(lockfile); Close(fd); Flock(fd) on the closed fd     *)
(*                                                                         *)
(* The kernel locks the inode an fd was opened on, not the path.  The     *)
(* state is the inode the path names (or none), the inode each task has   *)
(* open, and whether its open file description holds the flock.  Every   *)
(* syscall is one step; between them any other task may run.              *)
(***************************************************************************)
EXTENDS Naturals

CONSTANTS
    Tasks,           \* goroutines calling Lock on one blob id
    MaxCycles,       \* Lock/release cycles per task
    MaxFlockErrors   \* flock(2) calls that fail (EINTR, ENOLCK)

NoInode == 0

VARIABLES
    lockPath,    \* inode named by "<blob>.lock", or NoInode
    nextInode,   \* the inode number O_CREATE will give to a new file
    fd,          \* [Tasks -> inode the task has open, or NoInode]
    flocked,     \* [Tasks -> BOOLEAN]: the task's open file holds the flock
    pc,          \* [Tasks -> step]
    mode,        \* [Tasks -> "sh" | "ex"]: LOCK_SH or LOCK_EX
    cycles,      \* [Tasks -> Lock calls made]
    flockErrors

vars == <<lockPath, nextInode, fd, flocked, pc, mode, cycles, flockErrors>>

Steps == {"idle", "open", "flock", "cs", "close"}

TypeOK ==
    /\ lockPath \in Nat /\ nextInode \in Nat \ {NoInode}
    /\ fd \in [Tasks -> Nat] /\ flocked \in [Tasks -> BOOLEAN]
    /\ pc \in [Tasks -> Steps] /\ mode \in [Tasks -> {"sh", "ex"}]
    /\ cycles \in [Tasks -> 0..MaxCycles] /\ flockErrors \in 0..MaxFlockErrors

Init ==
    /\ lockPath = NoInode /\ nextInode = 1
    /\ fd = [t \in Tasks |-> NoInode] /\ flocked = [t \in Tasks |-> FALSE]
    /\ pc = [t \in Tasks |-> "idle"] /\ mode = [t \in Tasks |-> "sh"]
    /\ cycles = [t \in Tasks |-> 0] /\ flockErrors = 0

\* Repository.Lock(id, exclusive): LOCK_EX when exclusive, else LOCK_SH.
Lock(t) ==
    /\ pc[t] = "idle" /\ cycles[t] < MaxCycles
    /\ \E m \in {"sh", "ex"} : mode' = [mode EXCEPT ![t] = m]
    /\ cycles' = [cycles EXCEPT ![t] = @ + 1]
    /\ pc' = [pc EXCEPT ![t] = "open"]
    /\ UNCHANGED <<lockPath, nextInode, fd, flocked, flockErrors>>

\* OpenFile with O_CREATE: opens the inode the path names, or creates one.
Open(t) ==
    /\ pc[t] = "open"
    /\ IF lockPath = NoInode
         THEN /\ lockPath' = nextInode /\ nextInode' = nextInode + 1
              /\ fd' = [fd EXCEPT ![t] = nextInode]
         ELSE /\ fd' = [fd EXCEPT ![t] = lockPath]
              /\ UNCHANGED <<lockPath, nextInode>>
    /\ pc' = [pc EXCEPT ![t] = "flock"]
    /\ UNCHANGED <<flocked, mode, cycles, flockErrors>>

\* The kernel's flock table: another open file of the same inode holds a
\* lock that conflicts with the requested mode.
Conflicts(t) ==
    \E u \in Tasks \ {t} :
        fd[u] = fd[t] /\ flocked[u] /\ (mode[u] = "ex" \/ mode[t] = "ex")

\* syscall.Flock(fd, mode) blocks until no conflicting lock remains.
Flock(t) ==
    /\ pc[t] = "flock"
    /\ ~Conflicts(t)
    /\ flocked' = [flocked EXCEPT ![t] = TRUE]
    /\ pc' = [pc EXCEPT ![t] = "cs"]
    /\ UNCHANGED <<lockPath, nextInode, fd, mode, cycles, flockErrors>>

\* Flock fails: the error path removes the lock file, whoever it belongs
\* to, closes the fd and returns the error.
FlockError(t) ==
    /\ pc[t] = "flock"
    /\ flockErrors < MaxFlockErrors
    /\ flockErrors' = flockErrors + 1
    /\ lockPath' = NoInode
    /\ fd' = [fd EXCEPT ![t] = NoInode]
    /\ pc' = [pc EXCEPT ![t] = "idle"]
    /\ UNCHANGED <<nextInode, flocked, mode, cycles>>

\* Mutant of ReleaseRemove: the release leaves the lock file in place.
ReleaseKeepFile(t) ==
    /\ pc[t] = "cs"
    /\ pc' = [pc EXCEPT ![t] = "close"]
    /\ UNCHANGED <<lockPath, nextInode, fd, flocked, mode, cycles, flockErrors>>

\* The caller's critical section ends; the deferred release runs.  Its
\* first call unlinks the lock file.
ReleaseRemove(t) ==
    /\ pc[t] = "cs"
    /\ lockPath' = NoInode
    /\ pc' = [pc EXCEPT ![t] = "close"]
    /\ UNCHANGED <<nextInode, fd, flocked, mode, cycles, flockErrors>>

\* Mutant of ReleaseClose: the fd is leaked (never closed), so its flock
\* stays on the inode.
ReleaseLeakFd(t) ==
    /\ pc[t] = "close"
    /\ pc' = [pc EXCEPT ![t] = "idle"]
    /\ UNCHANGED <<lockPath, nextInode, fd, flocked, mode, cycles, flockErrors>>

\* Closing the only fd of the open file drops its flock; the Flock call
\* that follows on the closed fd fails with EBADF and changes nothing.
ReleaseClose(t) ==
    /\ pc[t] = "close"
    /\ fd' = [fd EXCEPT ![t] = NoInode]
    /\ flocked' = [flocked EXCEPT ![t] = FALSE]
    /\ pc' = [pc EXCEPT ![t] = "idle"]
    /\ UNCHANGED <<lockPath, nextInode, mode, cycles, flockErrors>>

Terminated ==
    /\ \A t \in Tasks : pc[t] = "idle" /\ cycles[t] = MaxCycles
    /\ UNCHANGED vars

\* Everything a task does once Lock has been called, the failure of flock
\* excepted: the kernel never promises that a blocked flock fails.
Progress(t) == Open(t) \/ Flock(t) \/ ReleaseRemove(t) \/ ReleaseClose(t)

Next == (\E t \in Tasks : Lock(t) \/ Progress(t) \/ FlockError(t)) \/ Terminated

(* Goroutines are scheduled, flock(2) wakes a waiter once no conflicting   *)
(* lock is left, and a holder's deferred release runs when its request    *)
(* returns: each task keeps taking its next step while one is enabled.    *)
(* An flock error may happen, but nothing forces it.                       *)
Fairness == \A t \in Tasks : WF_vars(Progress(t))

Spec == Init /\ [][Next]_vars /\ Fairness

-----------------------------------------------------------------------------
(* Properties *)

(* The sidecar file does not outlive its users: once every task has       *)
(* returned from Lock and run its release, no "<blob>.lock" is left on     *)
(* disk, although tasks unlink each other's files (every Remove is of the  *)
(* path, not of the inode the caller locked).                              *)
NoStaleLockFile == (\A t \in Tasks : pc[t] = "idle") => lockPath = NoInode

(* Every Lock call returns, granted or failed: no task waits forever on an *)
(* flock, even one it took on an inode that was unlinked under it, because *)
(* every release closes the fd it locked.                                  *)
LockReturns == \A t \in Tasks : pc[t] \in {"open", "flock"} ~> pc[t] \in {"cs", "idle"}

(* Refinement of the locking contract: the tasks between a granted Lock   *)
(* and the first call of their release are the holders of BlobLock.       *)
LockView == [t \in Tasks |-> IF pc[t] = "cs" THEN mode[t] ELSE "none"]

Contract == INSTANCE BlobLock WITH lockHeld <- LockView

ImplementsBlobLock == Contract!Spec
=============================================================================
