------------------------------ MODULE MCCodecs ------------------------------
(* What turns bytes into values and back: buffers, WebSocket frames, UTF-8, *)
(* HPACK, QPACK and civil time.  FrameMessagesFormed, UTF8ReasonIsUTF8,     *)
(* CivilDateIsTotal and CivilParseAnswers are what comments say and the     *)
(* code does not do; README.md has the instances that show it.              *)
EXTENDS Integers, TLC

CONSTANTS
    Instances       \* the instances that are run

VARIABLES
    instance,       \* the one this behaviour is of
    heap, buffer, slots, live, process, holds, queue, written,
    frameInput, coming, header, phase, payload, sent, got,
    state, codepoint, minimum, valid, message,
    arena, liveStart, entries, tableSize, maxTableSize, permittedMaxSize, sawField,
    decodedSize, error, table, peerMax, mustUpdate, last, steps,
    codedInput,
    section, fields, ends,
    civil, number

Off == "off"        \* the variables of the modules it is not of


(* A complete Huffman code of lengths 2 to 9; nine ones (256) end a string. *)
Chain == [s \in 97..106 \cup {256} |-> IF s = 256 THEN 9 ELSE IF s < 100 THEN 2 ELSE s - 97]

(* The bytes at the ends of the ranges of RFC 3629.                         *)
EdgeBytes == {0, 127, 128, 143, 144, 159, 160, 191, 192, 193, 194, 223, 224, 225, 236, 237, 238,
              239, 240, 241, 243, 244, 245, 255}

(* The integers at the edges of the prefixes and of the groups of 7 bits.   *)
EdgeIntegers == {0, 1, 6, 7, 8, 14, 15, 30, 31, 62, 63, 126, 127, 128, 254, 255, 256, 382, 383,
                 16510, 16511, 16638, 2097278, 268435456}

(* A static table longer than the shortest prefix counts.                   *)
LongStatic == [i \in 0..70 |->
    CASE i = 3 -> [name |-> <<98>>, value |-> <<>>]
      [] i = 20 -> [name |-> <<104>>, value |-> <<97>>]
      [] i = 24 -> [name |-> <<105>>, value |-> <<97, 97>>]
      [] i = 25 -> [name |-> <<105>>, value |-> <<98, 98>>]
      [] i = 70 -> [name |-> <<104>>, value |-> <<98>>]
      [] OTHER -> [name |-> <<99>>, value |-> <<99>>]]

(* Strings that are better Huffman-coded, worse, and empty.                 *)
SectionNames == {<<98>>, <<104>>, <<97, 97, 97>>, <<104, 105, 104, 105, 104, 105, 104>>}
SectionValues == {<<>>, <<97>>, <<98>>, <<97, 98, 97, 98>>, <<104, 104>>}

(* The years around the ends of centuries and eras, on both sides of 0.     *)
EdgeYears == (-801..-799) \cup (-402..-398) \cup (-101..-99) \cup (-8..9) \cup (98..102)
             \cup (399..402) \cup (1599..1602) \cup (1898..1902) \cup (1968..2032)
             \cup (2098..2102) \cup (2398..2402) \cup (9999..10000)

-----------------------------------------------------------------------------
(* Two connections and a pool of one slot; one buffer whose sizes overflow  *)
(* six bits.                                                                *)
BufferBounds == [
    buffer_pool |-> [Conns |-> {"c", "d"}, Blocks |-> {"x", "y", "z"},
        BlockSize |-> 2, FirstCapacity |-> 1, IntBits |-> 5, Requests |-> {1, 3},
        MaxBytes |-> 2],
    buffer_bytes |-> [Conns |-> {"c"}, Blocks |-> {"x", "y"}, BlockSize |-> 3,
        FirstCapacity |-> 2, IntBits |-> 6, Requests |-> {1, 2, 4, 24, 31},
        MaxBytes |-> 5]]

bufferVars == <<heap, buffer, slots, live, process, holds, queue, written>>
BufferInstances == Instances \cap DOMAIN BufferBounds
Buffer(k) == INSTANCE ByteBuffer WITH
    MaxRetained <- 1, Conns <- BufferBounds[k].Conns, Blocks <- BufferBounds[k].Blocks,
    BlockSize <- BufferBounds[k].BlockSize, FirstCapacity <- BufferBounds[k].FirstCapacity,
    IntBits <- BufferBounds[k].IntBits, Requests <- BufferBounds[k].Requests,
    MaxBytes <- BufferBounds[k].MaxBytes

BufferOff ==
    /\ heap = Off /\ buffer = Off /\ slots = Off /\ live = Off
    /\ process = Off /\ holds = Off /\ queue = Off /\ written = Off

-----------------------------------------------------------------------------
(* Two frames with every form of length, cut anywhere; any bytes, with and  *)
(* without compression.  The last sends two frames that form no message.    *)
(* One bit stands for seven of a length, 2 and 4 bits for 16 and 64.        *)
FrameBounds == [
    ws_stream |-> [allowRSV1 |-> TRUE,
        Payloads |-> {<<>>, <<1>>, <<0, 1>>, <<1, 0, 0, 1, 1>>}, MaxFrames |-> 2,
        AnyBytes |-> FALSE],
    ws_header |-> [allowRSV1 |-> FALSE, Payloads |-> {<<1>>}, MaxFrames |-> 0,
        AnyBytes |-> TRUE],
    ws_deflate |-> [allowRSV1 |-> TRUE, Payloads |-> {<<1>>}, MaxFrames |-> 0,
        AnyBytes |-> TRUE],
    ws_messages |-> [allowRSV1 |-> FALSE, Payloads |-> {<<1>>}, MaxFrames |-> 2,
        AnyBytes |-> FALSE]]

frameVars == <<frameInput, coming, header, phase, payload, sent, got>>
FrameInstances == Instances \cap DOMAIN FrameBounds
Frame(k) == INSTANCE WebSocketFrame WITH
    Max7 <- 1, Short <- 2, Long <- 4, maxPayload <- 5, Keys <- {<<1, 0, 0, 0>>},
    allowRSV1 <- FrameBounds[k].allowRSV1, Payloads <- FrameBounds[k].Payloads,
    MaxFrames <- FrameBounds[k].MaxFrames, AnyBytes <- FrameBounds[k].AnyBytes,
    input <- frameInput

FrameOff ==
    /\ frameInput = Off /\ coming = Off /\ header = Off /\ phase = Off
    /\ payload = Off /\ sent = Off /\ got = Off

-----------------------------------------------------------------------------
(* Every message of five bytes at the ends of the ranges.  The last is of   *)
(* reasons that do not fit a close frame.                                   *)
UTF8Bounds == [
    utf8_text |-> [Bytes |-> EdgeBytes],
    utf8_reason |-> [Bytes |-> {65, 128, 195}]]

utf8Vars == <<state, codepoint, minimum, valid, message>>
UTF8Instances == Instances \cap DOMAIN UTF8Bounds
UTF8(k) == INSTANCE UTF8Validator WITH
    MaxLength <- 5, ReasonMax <- 3, Bytes <- UTF8Bounds[k].Bytes

UTF8Off ==
    /\ state = Off /\ codepoint = Off /\ minimum = Off /\ valid = Off
    /\ message = Off

-----------------------------------------------------------------------------
(* Four representations or settings over a table of two or three entries;   *)
(* eight that keep replacing the oldest.                                    *)
HPACKBounds == [
    hpack_table |-> [Names |-> {<<"a">>, <<"b", "c">>},
        Values |-> {<<>>, <<"x">>, <<"y", "z">>}, MaxTableSize |-> 8,
        Sizes |-> {0, 3, 5}, sizeLimit |-> 12, MaxSteps |-> 4],
    hpack_arena |-> [Names |-> {<<"b", "c">>}, Values |-> {<<"y", "z">>},
        MaxTableSize |-> 10, Sizes |-> {10}, sizeLimit |-> 100, MaxSteps |-> 8]]

hpackVars == <<arena, liveStart, entries, tableSize, maxTableSize, permittedMaxSize,
               sawField, decodedSize, error, table, peerMax, mustUpdate, last, steps>>
HPACKInstances == Instances \cap DOMAIN HPACKBounds
HPACK(k) == INSTANCE HPACK WITH
    Static <- <<[name |-> <<"s">>, value |-> <<>>]>>, Overhead <- 1, Slack <- 1,
    Factor <- 1, Names <- HPACKBounds[k].Names, Values <- HPACKBounds[k].Values,
    MaxTableSize <- HPACKBounds[k].MaxTableSize, Sizes <- HPACKBounds[k].Sizes,
    sizeLimit <- HPACKBounds[k].sizeLimit, MaxSteps <- HPACKBounds[k].MaxSteps

HPACKOff ==
    /\ arena = Off /\ liveStart = Off /\ entries = Off /\ tableSize = Off
    /\ maxTableSize = Off /\ permittedMaxSize = Off /\ sawField = Off /\ decodedSize = Off
    /\ error = Off /\ table = Off /\ peerMax = Off /\ mustUpdate = Off
    /\ last = Off /\ steps = Off

-----------------------------------------------------------------------------
(* Huffman-coded strings of up to three bytes; integers of up to six bytes. *)
CodingBounds == [
    huffman |-> [Bytes |-> {0, 85, 90, 127, 128, 170, 191, 219, 253, 254, 255},
        MaxInput |-> 3, PrefixSizes |-> {}, Written |-> {}, MaxText |-> 4],
    hpack_integer |-> [Bytes |-> {0, 127, 128, 255}, MaxInput |-> 6,
        PrefixSizes |-> 3..8, Written |-> EdgeIntegers, MaxText |-> 0]]

codingVars == <<codedInput>>
CodingInstances == Instances \cap DOMAIN CodingBounds
Coding(k) == INSTANCE HPACKInputs WITH
    HuffmanLength <- Chain, MinLength <- 2, MaxLength <- 9,
    Bytes <- CodingBounds[k].Bytes, MaxInput <- CodingBounds[k].MaxInput,
    PrefixSizes <- CodingBounds[k].PrefixSizes, Written <- CodingBounds[k].Written,
    MaxText <- CodingBounds[k].MaxText, input <- codedInput

CodingOff ==
    /\ codedInput = Off

-----------------------------------------------------------------------------
(* Sections of up to three fields.                                          *)
QPACKBounds == [
    qpack |-> [MaxFields |-> 3]]

qpackVars == <<section, fields, ends>>
QPACKInstances == Instances \cap DOMAIN QPACKBounds
QPACK(k) == INSTANCE QPACK WITH
    HuffmanLength <- Chain, MinLength <- 2, MaxLength <- 9, Static <- LongStatic,
    StatusName <- 24, StatusSlots <- (<<97, 97>> :> 24) @@ (<<98, 98>> :> 25),
    FieldNames <- SectionNames, FieldValues <- SectionValues, Statuses <- {<<97, 97>>,
    <<98, 98>>, <<97, 98>>}, maximumFieldSectionSize <- 100,
    MaxFields <- QPACKBounds[k].MaxFields

QPACKOff ==
    /\ section = Off /\ fields = Off /\ ends = Off

-----------------------------------------------------------------------------
(* Every day of the years at the edges.  The last two are of days and of    *)
(* years whose numbers do not fit.                                          *)
CivilBounds == [
    civil_calendar |-> [Years |-> EdgeYears, DayTicks |-> 3, IntMax |-> 20000000],
    civil_range |-> [Years |-> 2188..2192, DayTicks |-> 3, IntMax |-> 800000],
    civil_parse |-> [Years |-> 2300..2301, DayTicks |-> 10, IntMax |-> 1000000]]

civilVars == <<civil, number>>
CivilInstances == Instances \cap DOMAIN CivilBounds
Civil(k) == INSTANCE CivilTime WITH
    Offsets <- {-1, 0, 2}, Years <- CivilBounds[k].Years,
    DayTicks <- CivilBounds[k].DayTicks, IntMax <- CivilBounds[k].IntMax

CivilOff ==
    /\ civil = Off /\ number = Off

-----------------------------------------------------------------------------
Init ==
    \/ \E k \in BufferInstances :
        instance = k /\ Buffer(k)!Init /\ FrameOff /\ UTF8Off /\ HPACKOff /\ CodingOff /\ QPACKOff /\ CivilOff
    \/ \E k \in FrameInstances :
        instance = k /\ Frame(k)!Init /\ BufferOff /\ UTF8Off /\ HPACKOff /\ CodingOff /\ QPACKOff /\ CivilOff
    \/ \E k \in UTF8Instances :
        instance = k /\ UTF8(k)!Init /\ BufferOff /\ FrameOff /\ HPACKOff /\ CodingOff /\ QPACKOff /\ CivilOff
    \/ \E k \in HPACKInstances :
        instance = k /\ HPACK(k)!Init /\ BufferOff /\ FrameOff /\ UTF8Off /\ CodingOff /\ QPACKOff /\ CivilOff
    \/ \E k \in CodingInstances :
        instance = k /\ Coding(k)!Init /\ BufferOff /\ FrameOff /\ UTF8Off /\ HPACKOff /\ QPACKOff /\ CivilOff
    \/ \E k \in QPACKInstances :
        instance = k /\ QPACK(k)!Init /\ BufferOff /\ FrameOff /\ UTF8Off /\ HPACKOff /\ CodingOff /\ CivilOff
    \/ \E k \in CivilInstances :
        instance = k /\ Civil(k)!Init /\ BufferOff /\ FrameOff /\ UTF8Off /\ HPACKOff /\ CodingOff /\ QPACKOff

vars == <<instance, bufferVars, frameVars, utf8Vars, hpackVars, codingVars, qpackVars, civilVars>>

Next ==
    /\ UNCHANGED instance
    /\ \/ \E k \in BufferInstances : instance = k /\ Buffer(k)!Next /\ UNCHANGED <<frameVars, utf8Vars, hpackVars, codingVars, qpackVars, civilVars>>
       \/ \E k \in FrameInstances : instance = k /\ Frame(k)!Next /\ UNCHANGED <<bufferVars, utf8Vars, hpackVars, codingVars, qpackVars, civilVars>>
       \/ \E k \in UTF8Instances : instance = k /\ UTF8(k)!Next /\ UNCHANGED <<bufferVars, frameVars, hpackVars, codingVars, qpackVars, civilVars>>
       \/ \E k \in HPACKInstances : instance = k /\ HPACK(k)!Next /\ UNCHANGED <<bufferVars, frameVars, utf8Vars, codingVars, qpackVars, civilVars>>
       \/ \E k \in CodingInstances : instance = k /\ Coding(k)!Next /\ UNCHANGED <<bufferVars, frameVars, utf8Vars, hpackVars, qpackVars, civilVars>>
       \/ \E k \in QPACKInstances : instance = k /\ QPACK(k)!Next /\ UNCHANGED <<bufferVars, frameVars, utf8Vars, hpackVars, codingVars, civilVars>>
       \/ \E k \in CivilInstances : instance = k /\ Civil(k)!Next /\ UNCHANGED <<bufferVars, frameVars, utf8Vars, hpackVars, codingVars, qpackVars>>

Spec == Init /\ [][Next]_vars

-----------------------------------------------------------------------------
(* ByteBuffer, ByteBufferPool.take, recycle: however a buffer was           *)
(* compacted, grown, moved by realloc, truncated or recycled, what a reader *)
(* finds is what was written and not consumed, in order; every allocation   *)
(* has one owner, a buffer or a slot of the pool, and in the pool the size  *)
(* take() will claim for it; and the growth loop ends.                      *)
BufferBytesKept ==
    \A k \in BufferInstances : instance = k =>
        /\ Buffer(k)!TypeOK
        /\ Buffer(k)!BytesKept
        /\ Buffer(k)!OneOwner
        /\ Buffer(k)!NeverSpins

(* WebSocketFrame, UTF8Validator: a reader of frames that writeFrame or a   *)
(* client wrote is never out of step with the writer: however the bytes are *)
(* cut, the frames it gets are those sent, and none is refused; parseHeader *)
(* on any bytes answers with a header exactly when they begin with the      *)
(* shortest encoding of a legal one; and a message is found valid and       *)
(* complete exactly when its bytes are well-formed UTF-8, wherever its      *)
(* pieces were cut.                                                         *)
WebSocketInStep ==
    /\ \A k \in FrameInstances : instance = k =>
           /\ Frame(k)!TypeOK
           /\ Frame(k)!InStep
           /\ Frame(k)!HeaderIsOfBytes
    /\ \A k \in UTF8Instances : instance = k =>
           /\ UTF8(k)!TypeOK
           /\ UTF8(k)!ValidIsWellFormed

(* The frames accepted form messages: no continuation without a message in  *)
(* progress and no new data frame within one (WebSocketFrame.swift:15).     *)
FrameMessagesFormed == \A k \in FrameInstances : instance = k => Frame(k)!MessagesFormed

(* The reason writeClose sends for a reason that is UTF-8 is UTF-8          *)
(* (WebSocketFrame.swift:206).                                              *)
UTF8ReasonIsUTF8 == \A k \in UTF8Instances : instance = k => UTF8(k)!ReasonIsUTF8

(* HPACKDecoder, HPACKHuffman, hpackReadInteger, hpackWriteInteger: read    *)
(* through the arena, the decoder's table is the peer's, whatever was       *)
(* evicted, moved or resized, for as long as nothing was thrown; what is    *)
(* emitted is the field the peer meant, and a representation is refused     *)
(* exactly when the peer had no right to it; the table's size is the cost   *)
(* of its entries, and the arena is bounded by the largest table permitted. *)
(* Whatever is encoded is read back; Huffman bytes are accepted only as the *)
(* codes of what is returned, padded with fewer than eight ones; an integer *)
(* read has the value of RFC 7541 5.1, more being asked for exactly when    *)
(* the input has no last byte yet.                                          *)
HPACKDecodes ==
    /\ \A k \in HPACKInstances : instance = k =>
           /\ HPACK(k)!TypeOK
           /\ HPACK(k)!SameTable
           /\ HPACK(k)!EmitsWhatWasMeant
           /\ HPACK(k)!SizeIsCost
           /\ HPACK(k)!ArenaBounded
    /\ \A k \in CodingInstances : instance = k =>
           /\ Coding(k)!DecodesCodes
           /\ Coding(k)!DecodesEncoded
           /\ Coding(k)!IntegerIsOfBytes
           /\ Coding(k)!ReadsWritten

(* QPACKDecoder.decode: what the encoder writes, the decoder reads: the     *)
(* same fields in order, or that they are too large, when they are; and a   *)
(* section cut short is never taken for other fields.                       *)
QPACKDecodesEncoded ==
    \A k \in QPACKInstances : instance = k =>
        /\ QPACK(k)!DecodesEncodedFields
        /\ QPACK(k)!CutIsRefused

(* CivilTime.days, date, format, parse, HTTPDate.daysSinceEpoch: the        *)
(* conversions agree with the calendar; what is written in any layout is    *)
(* read back as the same instant, years before 1 included; and a date is    *)
(* taken exactly when it exists, its offset moving the instant by itself.   *)
CivilDaysAreCounted ==
    \A k \in CivilInstances : instance = k =>
        /\ Civil(k)!DaysAreCounted
        /\ Civil(k)!ReadsWhatIsWritten
        /\ Civil(k)!OnlyDatesThatExist

(* CivilTime.date is exact for every day number of its type                 *)
(* (CivilTime.swift:5).                                                     *)
CivilDateIsTotal == \A k \in CivilInstances : instance = k => Civil(k)!DateIsTotal

(* CivilTime.parse answers with an instant or nil for every date of at most *)
(* six digits of year (CivilTime.swift:117).                                *)
CivilParseAnswers == \A k \in CivilInstances : instance = k => Civil(k)!ParseAnswers
=============================================================================
