----------------------------- MODULE HPACKCoding -----------------------------
(* The codings HPACK and QPACK share (HPACK.swift): variable-length integers *)
(* and Huffman-coded strings, on bytes of 8 bits.  The Huffman code is any    *)
(* canonical one whose end-of-string symbol is all ones and longer than a    *)
(* byte.                                                                     *)
EXTENDS Integers, Sequences, SequencesExt

CONSTANTS
    HuffmanLength,      \* symbol -> length of its code, EOS included
    MinLength, MaxLength    \* 5 and 30

EOS == 256
Bits(byte) == [i \in 1..8 |-> (byte \div 2 ^ (8 - i)) % 2]
AllBits(bytes) == FlattenSeq([i \in DOMAIN bytes |-> Bits(bytes[i])])
Value(bits) == FoldLeft(LAMBDA v, b : 2 * v + b, 0, bits)

-----------------------------------------------------------------------------
(* Tables: symbols in order of length and then of value, and the first code *)
(* of each length.                                                          *)
Symbols == DOMAIN HuffmanLength
CountOf == [len \in 0..MaxLength |-> Len(SetToSeq({s \in Symbols : HuffmanLength[s] = len}))]
firstCode[len \in 1..MaxLength] == IF len = 1 THEN 0 ELSE 2 * (firstCode[len - 1] + CountOf[len - 1])
SymbolAt(len, offset) ==
    CHOOSE s \in Symbols :
        HuffmanLength[s] = len
        /\ offset = Len(SetToSeq({t \in Symbols : HuffmanLength[t] = len /\ t < s}))
Code(s) ==
    LET len == HuffmanLength[s]
        before == Len(SetToSeq({t \in Symbols : HuffmanLength[t] = len /\ t < s}))
        value == firstCode[len] + before
    IN [i \in 1..len |-> (value \div 2 ^ (len - i)) % 2]

(* decode, a bit at a time: [code, len, out, error].                        *)
OneBit(d, bit) ==
    LET code == 2 * d.code + bit
        len == d.len + 1
        offset == code - firstCode[len]
        on == [d EXCEPT !.code = code, !.len = len]
    IN IF d.error THEN d
       ELSE IF len > MaxLength THEN [d EXCEPT !.error = TRUE]
       ELSE IF len < MinLength \/ CountOf[len] = 0 \/ offset < 0 \/ offset >= CountOf[len] THEN on
       ELSE IF SymbolAt(len, offset) > 255 THEN [d EXCEPT !.error = TRUE]
       ELSE [code |-> 0, len |-> 0, out |-> Append(d.out, SymbolAt(len, offset)), error |-> FALSE]

Padding(d) == d.len < 8 /\ (d.len > 0 => d.code = 2 ^ d.len - 1)

HuffmanDecode(bytes) ==
    LET d == FoldLeft(OneBit, [code |-> 0, len |-> 0, out |-> <<>>, error |-> FALSE], AllBits(bytes))
    IN [ok |-> ~d.error /\ Padding(d), out |-> d.out]

encodedLength(s) == (FoldLeft(LAMBDA sum, b : sum + HuffmanLength[b], 0, s) + 7) \div 8

HuffmanEncode(s) ==
    LET bits == FlattenSeq([i \in DOMAIN s |-> Code(s[i])])
        n == encodedLength(s)
        padded == [i \in 1..(8 * n) |-> IF i <= Len(bits) THEN bits[i] ELSE 1]
    IN [k \in 1..n |-> Value(SubSeq(padded, 8 * (k - 1) + 1, 8 * k))]

-----------------------------------------------------------------------------
(* Integers: [error] or [error |-> "none", value, cursor], the cursor being *)
(* how many bytes of p have been read.                                      *)

Mask(prefixBits) == 2 ^ prefixBits - 1
Bad(e) == [error |-> e]

(* The bytes after the prefix, up to the one without the high bit.          *)
RECURSIVE Continue(_, _, _, _)
Continue(p, cursor, value, shift) ==
    IF cursor >= Len(p) THEN Bad("truncated")
    ELSE IF shift > 21 THEN Bad("integerOverflow")
    ELSE LET v == value + (p[cursor + 1] % 128) * 2 ^ shift IN
    IF v > 2 ^ 30 THEN Bad("integerOverflow")
    ELSE IF p[cursor + 1] < 128 THEN [error |-> "none", value |-> v, cursor |-> cursor + 1]
    ELSE Continue(p, cursor + 1, v, shift + 7)

hpackReadInteger(p, cursor, prefixBits) ==
    IF cursor >= Len(p) THEN Bad("truncated")
    ELSE LET v == p[cursor + 1] % 2 ^ prefixBits IN
         IF v < Mask(prefixBits) THEN [error |-> "none", value |-> v, cursor |-> cursor + 1]
         ELSE Continue(p, cursor + 1, v, 0)

RECURSIVE Groups(_)
Groups(rest) == IF rest < 128 THEN <<rest>> ELSE <<128 + (rest % 128)>> \o Groups(rest \div 128)

hpackWriteInteger(value, prefixBits, flags) ==
    IF value < Mask(prefixBits) THEN <<flags + value>>
    ELSE <<flags + Mask(prefixBits)>> \o Groups(value - Mask(prefixBits))

=============================================================================
