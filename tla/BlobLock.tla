------------------------------ MODULE BlobLock ------------------------------
(***************************************************************************)
(* The blob.Repository locking contract (spec 4.1): Lock(id, exclusive)   *)
(* blocks until granted; shared locks on one id coexist, an exclusive     *)
(* lock excludes every other lock on that id; release ends it.  One id,   *)
(* seen from the tasks that lock it.                                       *)
(***************************************************************************)
CONSTANTS Tasks

VARIABLE lockHeld   \* [Tasks -> {"none", "sh", "ex"}]

Modes == {"sh", "ex"}

Compatible(t, m) ==
    \A u \in Tasks \ {t} : lockHeld[u] = "none" \/ (lockHeld[u] = "sh" /\ m = "sh")

Init == lockHeld = [t \in Tasks |-> "none"]

Acquire(t, m) ==
    /\ lockHeld[t] = "none"
    /\ Compatible(t, m)
    /\ lockHeld' = [lockHeld EXCEPT ![t] = m]

Release(t) ==
    /\ lockHeld[t] # "none"
    /\ lockHeld' = [lockHeld EXCEPT ![t] = "none"]

Next == \E t \in Tasks : Release(t) \/ \E m \in Modes : Acquire(t, m)

Spec == Init /\ [][Next]_lockHeld

(* At most one exclusive holder, and never next to a shared one. *)
MutualExclusion ==
    \A t, u \in Tasks : t # u /\ lockHeld[t] = "ex" => lockHeld[u] = "none"
=============================================================================
