----------------------------- MODULE HPACKInputs -----------------------------
(* The codings of HPACKCoding on every input of a few bytes: the input grows *)
(* by a byte, and is read as an integer and as a Huffman-coded string.       *)
EXTENDS HPACKCoding

CONSTANTS
    Bytes,          \* the bytes an input is made of
    MaxInput,       \* bound: its length
    PrefixSizes,    \* the prefix sizes an integer is read and written with
    Written,        \* integers written and read back
    MaxText         \* bound: the longest string encoded and decoded back

VARIABLE input

Init == input = <<>>
Next == Len(input) < MaxInput /\ \E b \in Bytes : input' = Append(input, b)
Spec == Init /\ [][Next]_input

-----------------------------------------------------------------------------
(* The strings over the first symbols, by length.                           *)
Texts == UNION {[1..n -> {97, 98, 104, 105}] : n \in 0..MaxText}

(* Whether text is what bytes code: its codes, then fewer than 8 ones.      *)
IsCodeOf(bytes, text) ==
    LET coded == FlattenSeq([i \in DOMAIN text |-> Code(text[i])])
        all == AllBits(bytes)
    IN /\ Len(coded) <= Len(all) /\ Len(all) - Len(coded) < 8
       /\ SubSeq(all, 1, Len(coded)) = coded
       /\ \A i \in (Len(coded) + 1)..Len(all) : all[i] = 1

(* HPACKHuffman.decode accepts bytes only as the codes of what it returns,  *)
(* padded with fewer than eight ones.                                       *)
DecodesCodes ==
    LET d == HuffmanDecode(input) IN d.ok => IsCodeOf(input, d.out)

(* Whatever encode writes, decode reads back, in the length that            *)
(* encodedLength announced.                                                 *)
DecodesEncoded ==
    input = <<>> =>
        \A t \in Texts :
            /\ HuffmanDecode(HuffmanEncode(t)) = [ok |-> TRUE, out |-> t]
            /\ Len(HuffmanEncode(t)) = encodedLength(t)

(* hpackReadInteger returns the value of RFC 7541 5.1 of what it read, or   *)
(* asks for more exactly when the input has no last byte yet.               *)
IntegerIsOfBytes ==
    \A bits \in PrefixSizes :
        LET r == hpackReadInteger(input, 0, bits)
            first == input[1] % 2 ^ bits
            ends == {k \in 2..Len(input) : input[k] < 128}
            end == CHOOSE k \in ends : \A j \in ends : k <= j
        IN IF input = <<>> THEN r.error = "truncated"
           ELSE IF first < 2 ^ bits - 1
           THEN r = [error |-> "none", value |-> first, cursor |-> 1]
           ELSE CASE ends = {} /\ Len(input) <= 5 -> r.error = "truncated"
                  [] ends # {} /\ end <= 5 ->
                        /\ r.error = "none" /\ r.cursor = end
                        /\ r.value = first + FoldLeft(LAMBDA sum, k : sum + (input[k] % 128) * 128 ^ (k - 2),
                                                      0, [i \in 1..(end - 1) |-> i + 1])
                  [] OTHER -> r.error = "integerOverflow"

(* An integer written is read back, in any prefix.                          *)
ReadsWritten ==
    input = <<>> =>
        \A bits \in PrefixSizes, v \in Written :
            LET w == hpackWriteInteger(v, bits, 0)
            IN hpackReadInteger(w, 0, bits) = [error |-> "none", value |-> v, cursor |-> Len(w)]

=============================================================================
