--------------------------- MODULE WebSocketFrame ---------------------------
(* RFC 6455 framing (WebSocketFrame.swift): a peer's frames reach a reader  *)
(* as bytes, in pieces; the reader calls parseHeader on what it has, and    *)
(* unmasks the payload as it comes.                                         *)
(*                                                                          *)
(* Scale: a byte of a length, a key or a payload is one bit, so that xor is *)
(* addition modulo 2; the seven-bit length holds 0..Max7 and the two marks, *)
(* the long forms have Short and Long bytes.  The first two bytes of a      *)
(* header are records of their bit fields.                                  *)
EXTENDS Integers, Sequences, SequencesExt

CONSTANTS
    Max7, Short, Long,      \* 125, 2 and 8
    maxPayload, allowRSV1,
    Payloads, Keys,         \* what a peer sends and masks with
    MaxFrames,              \* bound: frames a peer sends
    AnyBytes                \* whether the input is any bytes, or a peer's frames

Bit == 0..1
Control == {"close", "ping", "pong"}
Opcodes == Control \cup {"continuation", "text", "binary"}
Mark16 == Max7 + 1
Mark64 == Max7 + 2
Max16 == 2 ^ Short - 1

FirstBytes == [fin : BOOLEAN, rsv1 : BOOLEAN, rsv23 : BOOLEAN, op : Opcodes \cup {"unknown"}]
SecondBytes == [masked : BOOLEAN, len : 0..Mark64]

VARIABLES
    input,      \* the bytes that arrived and were not consumed
    coming,     \* the bytes on their way
    header,     \* the header of the frame being read, or None
    phase,      \* how many bytes of its payload were read
    payload,    \* those bytes, unmasked
    sent, got   \* history: the frames sent, and the frames read

vars == <<input, coming, header, phase, payload, sent, got>>

None == [kind |-> "none"]

Init ==
    /\ input = <<>> /\ coming = <<>>
    /\ header = None /\ phase = 0 /\ payload = <<>>
    /\ sent = <<>> /\ got = <<>>

-----------------------------------------------------------------------------
(* The codec.                                                               *)

needMore == [kind |-> "needMore"]
failure(e) == [kind |-> "failure", error |-> e]

Number(digits) == FoldLeft(LAMBDA v, d : 2 * v + d, 0, digits)

(* The refusals that the first byte decides.                                *)
BadFirst(b0) ==
    \/ b0.rsv23
    \/ b0.rsv1 /\ ~allowRSV1
    \/ b0.op = "unknown"
    \/ b0.rsv1 /\ b0.op \in Control \cup {"continuation"}

Length(bytes) ==
    LET len == bytes[2].len
        long(n, least) ==
            LET value == Number(SubSeq(bytes, 3, 2 + n)) IN
            IF value < least THEN failure("protocolError")
            ELSE [kind |-> "length", value |-> value, offset |-> 2 + n]
    IN IF len = Mark16 THEN
           IF Len(bytes) < 2 + Short THEN needMore ELSE long(Short, Max7 + 1)
       ELSE IF len = Mark64 THEN
           IF Len(bytes) < 2 + Long THEN needMore
           ELSE IF bytes[3] = 1 THEN failure("protocolError")
           ELSE long(Long, Max16 + 1)
       ELSE [kind |-> "length", value |-> len, offset |-> 2]

(* What the declared length is refused for.                                 *)
LengthError(b0, n) ==
    IF b0.op \in Control
    THEN IF n > Max7 \/ ~b0.fin THEN "protocolError" ELSE "no"
    ELSE IF n > maxPayload THEN "messageTooBig" ELSE "no"

parseHeader(bytes) ==
    IF Len(bytes) < 2 THEN needMore
    ELSE IF BadFirst(bytes[1]) THEN failure("protocolError")
    ELSE LET l == Length(bytes) IN
    IF l.kind # "length" THEN l
    ELSE IF LengthError(bytes[1], l.value) # "no" THEN failure(LengthError(bytes[1], l.value))
    ELSE LET end == l.offset + (IF bytes[2].masked THEN 4 ELSE 0) IN
    IF Len(bytes) < end THEN needMore
    ELSE [kind |-> "header", fin |-> bytes[1].fin, rsv1 |-> bytes[1].rsv1, opcode |-> bytes[1].op,
          masked |-> bytes[2].masked, payloadLength |-> l.value,
          mask |-> IF bytes[2].masked THEN SubSeq(bytes, l.offset + 1, end) ELSE <<0, 0, 0, 0>>,
          headerLength |-> end]

(* Mutant: a piece of a payload is taken for its beginning.                 *)
UnmaskFromStart(src, mask, from) == [i \in DOMAIN src |-> (src[i] + mask[((i - 1) % 4) + 1]) % 2]
unmask(src, mask, from) == [i \in DOMAIN src |-> (src[i] + mask[((i - 1 + from) % 4) + 1]) % 2]

Digits(value, n) == [i \in 1..n |-> (value \div 2 ^ (n - i)) % 2]

LengthBytes(length, masked) ==
    IF length < Mark16 THEN <<[masked |-> masked, len |-> length]>>
    ELSE IF length <= Max16 THEN <<[masked |-> masked, len |-> Mark16]>> \o Digits(length, Short)
    ELSE <<[masked |-> masked, len |-> Mark64]>> \o Digits(length, Long)

(* A server's frame, never masked.                                          *)
writeFrame(f) ==
    <<[fin |-> f.fin, rsv1 |-> f.rsv1, rsv23 |-> FALSE, op |-> f.opcode]>>
        \o LengthBytes(Len(f.payload), FALSE) \o f.payload

(* A client's frame, masked; the client is not part of this code.           *)
ClientFrame(f, key) ==
    <<[fin |-> f.fin, rsv1 |-> f.rsv1, rsv23 |-> FALSE, op |-> f.opcode]>>
        \o LengthBytes(Len(f.payload), TRUE) \o key
        \o [i \in DOMAIN f.payload |-> (f.payload[i] + key[((i - 1) % 4) + 1]) % 2]

-----------------------------------------------------------------------------
(* The stream.                                                              *)

(* The frames a peer that keeps to the limits may send.                     *)
Frames ==
    {f \in [fin : BOOLEAN, rsv1 : BOOLEAN, opcode : Opcodes, payload : Payloads] :
        /\ f.opcode \in Control => f.fin /\ Len(f.payload) <= Max7
        /\ f.rsv1 => allowRSV1 /\ f.opcode \in {"text", "binary"}
        /\ Len(f.payload) <= maxPayload}

send ==
    /\ ~AnyBytes /\ Len(sent) < MaxFrames
    /\ \E f \in Frames :
        /\ sent' = Append(sent, f)
        /\ coming' \in {coming \o writeFrame(f)} \cup {coming \o ClientFrame(f, k) : k \in Keys}
    /\ UNCHANGED <<input, header, phase, payload, got>>

(* Some of the bytes on their way arrive.                                   *)
arrive ==
    /\ \E n \in 1..Len(coming) :
        /\ input' = input \o SubSeq(coming, 1, n)
        /\ coming' = SubSeq(coming, n + 1, Len(coming))
    /\ UNCHANGED <<header, phase, payload, sent, got>>

(* One more byte of any value arrives, while no header has been decided.    *)
arriveAny ==
    /\ AnyBytes /\ parseHeader(input) = needMore
    /\ \E b \in CASE Len(input) = 0 -> FirstBytes [] Len(input) = 1 -> SecondBytes [] OTHER -> Bit :
        input' = Append(input, b)
    /\ UNCHANGED <<coming, header, phase, payload, sent, got>>

readHeader ==
    /\ ~AnyBytes /\ header = None /\ parseHeader(input).kind # "needMore"
    /\ header' = parseHeader(input)
    /\ input' = IF header'.kind = "header"
                THEN SubSeq(input, header'.headerLength + 1, Len(input)) ELSE input
    /\ UNCHANGED <<coming, phase, payload, sent, got>>

readPayload ==
    /\ header.kind = "header"
    /\ \E n \in 1..(header.payloadLength - phase) :
        /\ n <= Len(input)
        /\ payload' = payload \o
                IF header.masked THEN unmask(SubSeq(input, 1, n), header.mask, phase) ELSE SubSeq(input, 1, n)
        /\ input' = SubSeq(input, n + 1, Len(input))
        /\ phase' = phase + n
    /\ UNCHANGED <<coming, header, sent, got>>

endFrame ==
    /\ header.kind = "header" /\ phase = header.payloadLength
    /\ got' = Append(got, [fin |-> header.fin, rsv1 |-> header.rsv1,
                           opcode |-> header.opcode, payload |-> payload])
    /\ header' = None /\ phase' = 0 /\ payload' = <<>>
    /\ UNCHANGED <<input, coming, sent>>

Next == send \/ arrive \/ arriveAny \/ readHeader \/ readPayload \/ endFrame

Spec == Init /\ [][Next]_vars

-----------------------------------------------------------------------------
(* Type invariant.                                                          *)
TypeOK ==
    /\ phase = Len(payload)
    /\ header.kind \in {"none", "header", "failure"}
    /\ header.kind = "header" => phase <= header.payloadLength

(* A reader of frames that writeFrame or a client wrote is never out of     *)
(* step with the writer: however the bytes are cut, the frames it gets are  *)
(* those sent, with their payloads, and none is refused.                    *)
InStep ==
    /\ header.kind # "failure"
    /\ IsPrefix(got, sent)
    /\ coming = <<>> /\ input = <<>> /\ header = None => got = sent

(* The header encodings there are: the shortest form of each length.        *)
Forms(n) ==
    IF n <= Max7 THEN <<n>> ELSE IF n < 2 ^ Short THEN <<Mark16, Short>> ELSE <<Mark64, Long>>

Encodes(bytes, b0, masked, n) ==
    LET form == Forms(n)
        digits == IF Len(form) = 1 THEN 0 ELSE form[2]
    IN /\ Len(bytes) >= 2 + digits + (IF masked THEN 4 ELSE 0)
       /\ bytes[1] = b0
       /\ bytes[2] = [masked |-> masked, len |-> form[1]]
       /\ \A i \in 1..digits : bytes[2 + i] = (n \div 2 ^ (digits - i)) % 2

Legal(b0, n) ==
    /\ ~b0.rsv23 /\ b0.op # "unknown"
    /\ b0.rsv1 => allowRSV1 /\ b0.op \in {"text", "binary"}
    /\ IF b0.op \in Control THEN b0.fin /\ n <= Max7 ELSE n <= maxPayload

(* parseHeader on any bytes: it answers with a header exactly when they     *)
(* begin with the shortest encoding of a legal one, with that length, and   *)
(* once a whole header's bytes are there it does not ask for more.          *)
HeaderIsOfBytes ==
    LET a == parseHeader(input)
        is(n) == /\ Len(input) >= 2 /\ Legal(input[1], n)
                 /\ Encodes(input, input[1], input[2].masked, n)
    IN AnyBytes =>
       /\ a.kind = "header" <=> \E n \in 0..(2 ^ (Long - 1) - 1) : is(n)
       /\ a.kind = "header" => is(a.payloadLength) /\ a.headerLength = Len(input)
       /\ Len(input) = 2 + Long + 4 => a.kind # "needMore"

(* The frames accepted form messages: no continuation without a message in  *)
(* progress and no new data frame within one (WebSocketFrame.swift:15).     *)
DataFrames == SelectSeq(got, LAMBDA f : f.opcode \notin Control)
MessagesFormed ==
    \A k \in DOMAIN DataFrames :
        (DataFrames[k].opcode = "continuation") <=> (k > 1 /\ ~DataFrames[k - 1].fin)

=============================================================================
