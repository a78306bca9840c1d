--------------------------- MODULE MCMediaService ---------------------------
(* Model values and bounds for MediaService.                              *)
(* m1 and m2 are the same bytes uploaded by u1 and u2 (one content h1,    *)
(* two meta blobs); m3 is other content of u1.                            *)
EXTENDS MediaService, TLC

CONSTANTS m1, m2, m3, h1, h2, u1, u2

MCMedia   == {m1, m2, m3}
MCHashes  == {h1, h2}
MCUsers   == {u1, u2}
MCHashOf  == (m1 :> h1) @@ (m2 :> h1) @@ (m3 :> h2)
MCOwnerOf == (m1 :> u1) @@ (m2 :> u2) @@ (m3 :> u1)

AllSteps == Steps \ {"idle", "lk_held"}

\* The operations that write blobs.  Fetch and Lock only read and lock, so
\* what an error or a crash leaves on disk is reached without them.
WriteOps == {"store", "delete"}

SymProcs == Permutations(Procs)
=============================================================================
