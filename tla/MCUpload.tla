----------------------------- MODULE MCUpload -----------------------------
EXTENDS Upload, TLC

CONSTANTS f1, f2, f3

\* One "upload" field holding three files.
MCFiles == {f1, f2, f3}
MCOrder == <<f1, f2, f3>>

\* Two files.
MCFiles2 == {f1, f2}
MCOrder2 == <<f1, f2>>
=============================================================================
