-------------------------------- MODULE QPACK --------------------------------
(* QPACK.swift: a field section is written by QPACKEncoder and read by       *)
(* QPACKDecoder, as bytes; there is no dynamic table.  The static table, the *)
(* strings and the Huffman code are small ones.                              *)
EXTENDS HPACKCoding, FiniteSets

CONSTANTS
    Static,                     \* index from 0 -> [name, value]
    StatusName,                 \* the slot of :status, 24
    StatusSlots,                \* the statuses with a slot of their own
    FieldNames, FieldValues, Statuses,  \* what is encoded
    maximumFieldSectionSize,
    MaxFields                   \* bound: fields of a section

VARIABLES
    section,    \* the bytes written
    fields,     \* history: the fields encoded
    ends        \* history: where each field's bytes end

vars == <<section, fields, ends>>

-----------------------------------------------------------------------------
(* The encoder.                                                             *)

encodeString(s) ==
    IF encodedLength(s) < Len(s)
    THEN hpackWriteInteger(encodedLength(s), 7, 128) \o HuffmanEncode(s)
    ELSE hpackWriteInteger(Len(s), 7, 0) \o s

(* lookup: the first slot with the name, the first with the whole pair.     *)
Named(name) == {i \in DOMAIN Static : Static[i].name = name}
Paired(name, value) == {i \in Named(name) : Static[i].value = value}
First(slots) == CHOOSE i \in slots : \A j \in slots : i <= j

(* Mutant: the name's first slot is taken for the pair's.                   *)
EncodedByName(name, value) ==
    IF Named(name) # {} THEN hpackWriteInteger(First(Named(name)), 6, 192)
    ELSE hpackWriteInteger(Len(name), 3, 32) \o name \o encodeString(value)
Encoded(name, value) ==
    IF Paired(name, value) # {} THEN hpackWriteInteger(First(Paired(name, value)), 6, 192)
    ELSE IF Named(name) # {}
    THEN hpackWriteInteger(First(Named(name)), 4, 80) \o encodeString(value)
    ELSE (IF encodedLength(name) < Len(name)
          THEN hpackWriteInteger(encodedLength(name), 3, 40) \o HuffmanEncode(name)
          ELSE hpackWriteInteger(Len(name), 3, 32) \o name)
         \o encodeString(value)

begin == <<0, 0>>

EncodedStatus(status) ==
    IF status \in DOMAIN StatusSlots
    THEN hpackWriteInteger(StatusSlots[status], 6, 192)
    ELSE hpackWriteInteger(StatusName, 4, 80)
         \o hpackWriteInteger(Len(status), 7, 0) \o status

Init == section = begin /\ fields = <<>> /\ ends = <<2>>

Put(bytes, field) ==
    /\ Len(fields) < MaxFields
    /\ section' = section \o bytes
    /\ fields' = Append(fields, field)
    /\ ends' = Append(ends, Len(section'))

encode(name, value) == Put(Encoded(name, value), [name |-> name, value |-> value])
encodeStatus(status) == Put(EncodedStatus(status), [name |-> Static[StatusName].name, value |-> status])

Next ==
    \/ \E name \in FieldNames, value \in FieldValues : encode(name, value)
    \/ \E status \in Statuses : encodeStatus(status)

Spec == Init /\ [][Next]_vars

-----------------------------------------------------------------------------
(* The decoder: strings go to scratch, fields hold offsets into it, and     *)
(* nothing is emitted until all is read.  A result has an error or the rest.*)

(* Swift's try: an error ends the call, a result goes on.                   *)
Try(r, Rest(_)) == IF r.error # "none" THEN r ELSE Rest(r)

AsQPACKError(r) == IF r.error = "integerOverflow" THEN Bad("badIndex") ELSE r
readInteger(p, cursor, prefixBits) == AsQPACKError(hpackReadInteger(p, cursor, prefixBits))

Kept(text, cursor, scratch) ==
    IF ~text.ok THEN Bad("badHuffman")
    ELSE [error |-> "none", cursor |-> cursor, offset |-> Len(scratch),
          length |-> Len(text.out), scratch |-> scratch \o text.out]
TextOf(raw, huffman) == IF huffman THEN HuffmanDecode(raw) ELSE [ok |-> TRUE, out |-> raw]

readRaw(p, cursor, length, huffman, scratch) ==
    IF Len(p) - cursor < length THEN Bad("truncated")
    ELSE Kept(TextOf(SubSeq(p, cursor + 1, cursor + length), huffman), cursor + length, scratch)

readString(p, cursor, scratch) ==
    IF cursor >= Len(p) THEN Bad("truncated")
    ELSE Try(readInteger(p, cursor, 7),
             LAMBDA r : readRaw(p, r.cursor, r.value, p[cursor + 1] >= 128, scratch))

Line(cursor, scratch, size, line) ==
    [error |-> "none", cursor |-> cursor, scratch |-> scratch, size |-> size + 32, line |-> line]

(* One field line, starting at cursor.                                      *)
IndexedLine(p, cursor, scratch) ==
    IF (p[cursor + 1] \div 64) % 2 = 0 THEN Bad("dynamicTableReference")
    ELSE Try(readInteger(p, cursor, 6), LAMBDA r :
             IF r.value \notin DOMAIN Static THEN Bad("badIndex")
             ELSE Line(r.cursor, scratch, Len(Static[r.value].name) + Len(Static[r.value].value),
                       [slot |-> r.value, pair |-> TRUE]))

NamedLine(p, cursor, scratch) ==
    IF (p[cursor + 1] \div 16) % 2 = 0 THEN Bad("dynamicTableReference")
    ELSE Try(readInteger(p, cursor, 4), LAMBDA r :
             IF r.value \notin DOMAIN Static THEN Bad("badIndex")
             ELSE Try(readString(p, r.cursor, scratch), LAMBDA v :
                      Line(v.cursor, v.scratch, Len(Static[r.value].name) + v.length,
                           [slot |-> r.value, pair |-> FALSE, value |-> <<v.offset, v.length>>])))

LiteralLine(p, cursor, scratch) ==
    Try(readInteger(p, cursor, 3), LAMBDA r :
    Try(readRaw(p, r.cursor, r.value, (p[cursor + 1] \div 8) % 2 = 1, scratch), LAMBDA n :
    Try(readString(p, n.cursor, n.scratch), LAMBDA v :
        Line(v.cursor, v.scratch, n.length + v.length,
             [slot |-> -1, name |-> <<n.offset, n.length>>, value |-> <<v.offset, v.length>>]))))

FieldLine(p, cursor, scratch) ==
    LET first == p[cursor + 1] IN
    CASE first >= 128 -> IndexedLine(p, cursor, scratch)
      [] first \in 64..127 -> NamedLine(p, cursor, scratch)
      [] first \in 32..63 -> LiteralLine(p, cursor, scratch)
      [] OTHER -> Bad("dynamicTableReference")

RECURSIVE Lines(_, _, _, _, _)
Lines(p, cursor, scratch, total, lines) ==
    IF cursor >= Len(p) THEN [error |-> "none", scratch |-> scratch, lines |-> lines]
    ELSE Try(FieldLine(p, cursor, scratch), LAMBDA l :
             IF total + l.size > maximumFieldSectionSize THEN Bad("tooLarge")
             ELSE Lines(p, l.cursor, l.scratch, total + l.size, Append(lines, l.line)))

(* The field a line stands for, from the static table and scratch.          *)
Slice(scratch, at) == SubSeq(scratch, at[1] + 1, at[1] + at[2])
Emitted(line, scratch) ==
    IF line.slot >= 0 /\ line.pair THEN Static[line.slot]
    ELSE [name |-> IF line.slot >= 0 THEN Static[line.slot].name ELSE Slice(scratch, line.name),
          value |-> Slice(scratch, line.value)]

decode(p) ==
    Try(readInteger(p, 0, 8), LAMBDA r :
        IF r.value # 0 THEN Bad("dynamicTableReference")
        ELSE Try(readInteger(p, r.cursor, 7), LAMBDA b :
                 IF b.value # 0 THEN Bad("badPrefix")
                 ELSE Try(Lines(p, b.cursor, <<>>, 0, <<>>), LAMBDA read :
                          [error |-> "none",
                           emitted |-> [i \in DOMAIN read.lines |-> Emitted(read.lines[i], read.scratch)]])))

-----------------------------------------------------------------------------
SizeOf(fs) == FoldLeft(LAMBDA sum, f : sum + Len(f.name) + Len(f.value) + 32, 0, fs)

(* What the encoder writes, the decoder reads: the same fields in order, or *)
(* that they are too large, when they are.                                  *)
DecodesEncodedFields ==
    decode(section) = IF SizeOf(fields) > maximumFieldSectionSize THEN Bad("tooLarge")
                      ELSE [error |-> "none", emitted |-> fields]

(* A section cut short is never taken for other fields: the decoder reads   *)
(* the fields before a cut between two, and refuses any other cut.          *)
CutIsRefused ==
    SizeOf(fields) <= maximumFieldSectionSize =>
        \A n \in 0..Len(section) :
            LET whole == {k \in DOMAIN ends : ends[k] = n}
            IN decode(SubSeq(section, 1, n)) =
                IF whole = {} THEN Bad("truncated")
                ELSE [error |-> "none", emitted |-> SubSeq(fields, 1, (CHOOSE k \in whole : TRUE) - 1)]

=============================================================================
