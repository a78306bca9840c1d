------------------------------ MODULE Crockford ------------------------------
(***************************************************************************)
(* The Crockford base32 codec of src/internal/util/encoding/crockford.go:  *)
(* EncodeCrockfordB32LC, which turns content hashes and request ids into   *)
(* media ids and trace ids, and NormalizeCrockfordB32LC, which the image   *)
(* handlers apply to the id in a request path.                             *)
(*                                                                         *)
(* A string is a sequence of one-character strings.  The encoder's         *)
(* accumulator is Go's 64-bit int: it is kept as four 16-bit limbs, low    *)
(* limb first, so that "accum<<8" loses its top byte exactly as the code   *)
(* does once more than eight bytes went in.  The shift right is            *)
(* arithmetic in Go, but the five bits read lie below bit 17, so the sign  *)
(* bits it shifts in are never read.                                      *)
(***************************************************************************)
EXTENDS Naturals, Sequences

Alphabet == <<"0","1","2","3","4","5","6","7","8","9","A","B","C","D","E","F",
              "G","H","J","K","M","N","P","Q","R","S","T","V","W","X","Y","Z">>

UpperLetters == <<"A","B","C","D","E","F","G","H","I","J","K","L","M",
                  "N","O","P","Q","R","S","T","U","V","W","X","Y","Z">>
LowerLetters == <<"a","b","c","d","e","f","g","h","i","j","k","l","m",
                  "n","o","p","q","r","s","t","u","v","w","x","y","z">>

\* strings.ToLower / strings.ToUpper on one character.
ToLowerC(c) == IF \E i \in 1..26 : UpperLetters[i] = c
                 THEN LowerLetters[CHOOSE i \in 1..26 : UpperLetters[i] = c] ELSE c
ToUpperC(c) == IF \E i \in 1..26 : LowerLetters[i] = c
                 THEN UpperLetters[CHOOSE i \in 1..26 : LowerLetters[i] = c] ELSE c

MapChars(F(_), s) == [i \in DOMAIN s |-> F(s[i])]

Limb == 65536

\* accum = accum<<8 | int(b), in 64 bits: the top byte of the top limb is
\* lost.  The low byte of accum<<8 is zero, so the | is a +.
ShiftInByte(a, b) ==
    LET v1 == a[1] * 256 + b
        v2 == a[2] * 256 + v1 \div Limb
        v3 == a[3] * 256 + v2 \div Limb
        v4 == a[4] * 256 + v3 \div Limb
    IN  <<v1 % Limb, v2 % Limb, v3 % Limb, v4 % Limb>>

\* (accum >> bits) & 0x1F for bits <= 12: bits bits..bits+4 of accum,
\* which lie in the two low limbs.
GroupAt(a, bits) == ((a[2] % 32) * 2^(16 - bits) + a[1] \div 2^bits) % 32

\* The inner loop: while bits >= 5, emit the group below the top.
RECURSIVE Drain(_, _, _)
Drain(a, bits, out) ==
    IF bits >= 5 THEN Drain(a, bits - 5, Append(out, Alphabet[GroupAt(a, bits - 5) + 1]))
                 ELSE <<bits, out>>

\* The outer loop over the input bytes; returns <<accum, bits, result>>.
RECURSIVE EncodeLoop(_, _, _, _)
EncodeLoop(in, a, bits, out) ==
    IF in = <<>> THEN <<a, bits, out>>
    ELSE LET a2 == ShiftInByte(a, Head(in))
             d  == Drain(a2, bits + 8, out)
         IN  EncodeLoop(Tail(in), a2, d[1], d[2])

\* Mutant of EncodeCrockfordB32LC: the last partial group is dropped.
EncodeNoPad(input) ==
    MapChars(ToLowerC, EncodeLoop(input, <<0, 0, 0, 0>>, 0, <<>>)[3])

\* EncodeCrockfordB32LC: the loop, the last partial group shifted up
\* ((accum << (5-bits)) & 0x1F, of which only the low limb matters), and
\* strings.ToLower.
EncodeCrockfordB32LC(input) ==
    LET r   == EncodeLoop(input, <<0, 0, 0, 0>>, 0, <<>>)
        a   == r[1]
        bits == r[2]
        out == IF bits > 0 THEN Append(r[3], Alphabet[((a[1] * 2^(5 - bits)) % 32) + 1])
                           ELSE r[3]
    IN  MapChars(ToLowerC, out)

\* NormalizeCrockfordB32LC: drop spaces, upper-case, read O as 0 and I, L
\* as 1, lower-case.
\* Mutant of NormalizeChar: L is not read as 1.
NormalizeCharNoL(c) ==
    LET u == ToUpperC(c)
    IN  ToLowerC(CASE u = "O" -> "0" [] u = "I" -> "1" [] OTHER -> u)

NormalizeChar(c) ==
    LET u == ToUpperC(c)
    IN  ToLowerC(CASE u = "O" -> "0"
                   [] u = "I" -> "1"
                   [] u = "L" -> "1"
                   [] OTHER   -> u)

NormalizeCrockfordB32LC(input) ==
    MapChars(NormalizeChar, SelectSeq(input, LAMBDA c : c # " "))

-----------------------------------------------------------------------------
(* Reference definitions, from Crockford's description of the encoding     *)
(* rather than from the code.                                              *)

\* Bit i (1-based, most significant first) of a byte string, 0 past its
\* end: the zero padding of the last group.
BitOf(input, i) ==
    IF i > 8 * Len(input) THEN 0
    ELSE (input[(i - 1) \div 8 + 1] \div 2^(7 - ((i - 1) % 8))) % 2

\* Each 5-bit group of the padded bit string is one symbol, in lower case.
ReferenceEncoding(input) ==
    [k \in 1..((8 * Len(input) + 4) \div 5) |->
        ToLowerC(Alphabet[1 + 16 * BitOf(input, 5*k - 4) + 8 * BitOf(input, 5*k - 3)
                            + 4 * BitOf(input, 5*k - 2) + 2 * BitOf(input, 5*k - 1)
                            + BitOf(input, 5*k)])]

\* The ways a person may copy an id: as given; in lower case with the
\* letters o and l for 0 and 1; in capitals with O and I for 0 and 1, in
\* groups of four separated by spaces.
Confusable(c) == CASE c = "0" -> "o" [] c = "1" -> "l" [] OTHER -> c
ConfusableUpper(c) == CASE c = "0" -> "O" [] c = "1" -> "I" [] OTHER -> ToUpperC(c)

Spaced(s) ==
    LET RECURSIVE Go(_)
        Go(t) == IF Len(t) <= 4 THEN t ELSE SubSeq(t, 1, 4) \o <<" ">> \o Go(SubSeq(t, 5, Len(t)))
    IN  Go(s)

Transcriptions(id) ==
    { id, MapChars(Confusable, id), Spaced(MapChars(ConfusableUpper, id)) }
=============================================================================
