--------------------------- MODULE MCImageService ---------------------------
EXTENDS ImageService, TLC

CONSTANTS m1, m2, m3, h1, p1, p2

\* Three uploads of one JPEG body: as photo.jpg, as photo.JPEG, and renamed
\* doc.png (spec 5, test 4).  The body is exactly MaxSize long.  One resize
\* width.
MCMedia == {m1, m2, m3}
MCHashes == {h1}
MCHashOf == (m1 :> h1) @@ (m2 :> h1) @@ (m3 :> h1)
MCFileExt == (m1 :> ".jpg") @@ (m2 :> ".JPEG") @@ (m3 :> ".png")
MCBodyOf == h1 :> <<255, 216, 255>>
\* A content hash long enough for all three prefix directories.
MCHashName == h1 :> <<"5", "f", "5", "6", "6", "9", "a", "b">>
MCBasedir == <<"v">>
MCWidths == {64}

SymProcs == Permutations(Procs)
=============================================================================
