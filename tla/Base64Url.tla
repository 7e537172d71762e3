------------------------------ MODULE Base64Url ------------------------------
(***************************************************************************)
(* decode_base64url of src/gdrive_handler.cpp, the decoder of id_tokens,   *)
(* and what it should compute.  A character is a number: its place in      *)
(* base64_chars, or one of those below.                                    *)
(***************************************************************************)
EXTENDS Integers, SequencesExt

CONSTANT ValBits    \* width of val: 32 in the code

ASSUME ValBitsAssumption == ValBits \in Nat /\ ValBits >= 12

Plus == 62
Slash == 63
Minus == 64
Underscore == 65
Equals == 66

is_base64(c) == c < Minus

\* '-' and '_' replaced, '=' appended up to a multiple of four; the loop breaks
\* at the first character that is none of base64_chars.
Digits(input) ==
    LET text == ReplaceAll(ReplaceAll(input, Minus, Plus), Underscore, Slash)
        base64 == text \o [k \in 1..((4 - (Len(text) % 4)) % 4) |-> Equals]
        stop == SelectInSeq(base64, LAMBDA c : ~is_base64(c))
    IN  IF stop = 0 THEN base64 ELSE SubSeq(base64, 1, stop - 1)

\* Faulty variant of HasByte: a byte that ends with its digit is missed.
HasByteLate(valb) == valb > 0

\* valb counts the bits not yet used, less 8.
HasByte(valb) == valb >= 0

\* val is shifted and never masked: it wraps, and the bits that are read stay.
DecodeDigit(acc, digit) ==
    LET val == (acc.val * 64 + digit) % 2^ValBits
        valb == acc.valb + 6
    IN  IF HasByte(valb)
        THEN [val |-> val, valb |-> valb - 8,
              bytes |-> Append(acc.bytes, (val \div 2^valb) % 256)]
        ELSE [acc EXCEPT !.val = val, !.valb = valb]

decode_base64url(input) ==
    FoldLeft(DecodeDigit, [val |-> 0, valb |-> -8, bytes |-> <<>>],
             Digits(input)).bytes
------------------------------------------------------------------------------
\* The definition of the encoding: the digits' bits in a row, cut into bytes.
Meaning(payload) ==
    LET digit(c) == IF c >= Minus THEN c - 2 ELSE c
        bit(b) == (digit(payload[b \div 6 + 1]) \div 2^(5 - (b % 6))) % 2
        byte(b) == 128 * bit(b) + 64 * bit(b + 1) + 32 * bit(b + 2) + 16 * bit(b + 3)
                   + 8 * bit(b + 4) + 4 * bit(b + 5) + 2 * bit(b + 6) + bit(b + 7)
    IN  [k \in 1..((6 * Len(payload)) \div 8) |-> byte(8 * (k - 1))]
==============================================================================
