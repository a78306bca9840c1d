------------------------------ MODULE MCGateway ------------------------------
EXTENDS Gateway, TLC

CONSTANTS c1, c2, u1, u2, pw1, pw2, m1, m2

MCClients == {c1, c2}
SymClients == Permutations(MCClients)
MCUsers == {u1, u2}
MCPasswords == {pw1, pw2}
MCMedia == {m1, m2}
MCOwnerOf == (m1 :> u1) @@ (m2 :> u2)

\* A nine-byte hash, whose encoding overflows the 64-bit accumulator and
\* ends in a padded group, and a five-byte one that fills its groups
\* exactly.
MCIdBytes == (m1 :> <<255, 0, 165, 15, 240, 1, 2, 128, 255>>) @@ (m2 :> <<1, 2, 3, 4, 5>>)
=============================================================================
