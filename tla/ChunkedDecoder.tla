--------------------------- MODULE ChunkedDecoder ---------------------------
(* The incremental decoder of the chunked transfer coding                   *)
(* (ChunkedDecoder.swift).  The bytes of a connection arrive in reads of    *)
(* any size; decode() is called with each and keeps its place between       *)
(* calls.  An iteration of the loop in decode() is an action.               *)
(*                                                                          *)
(* Bytes are digits (numbers below Radix), the separators and "x".          *)
EXTENDS Integers, Sequences

CONSTANTS
    Radix,              \* 16 in the code
    MaxDigits,          \* 15 in the code
    MaxTrailerBytes,
    Extensions,         \* whether ";" and "x" are among the bytes that arrive
    MaxInput,           \* bound: bytes that ever arrive
    MaxRead             \* bound: bytes in a read

CR == -1
LF == -2
SEMI == -3
X == -4
Digits == 0..(Radix - 1)
Bytes == Digits \cup {CR, LF} \cup (IF Extensions THEN {SEMI, X} ELSE {})

VARIABLES
    fed,                \* every byte given to decode() so far, this call's included
    i, count,           \* this call: the byte looked at, and the end, as places in fed
    state, remaining, digits, trailerSeen,
    out,                \* what the sink has received
    result              \* of the last call: needMore, finished, or failure; or running

vars == <<fed, i, count, state, remaining, digits, trailerSeen, out, result>>

Init ==
    /\ fed = <<>> /\ i = 1 /\ count = 0
    /\ state = "size" /\ remaining = 0 /\ digits = 0 /\ trailerSeen = 0
    /\ out = <<>>
    /\ result = "needMore"

(* The caller has read more bytes, and calls decode with them.              *)
decode(bytes) ==
    /\ result = "needMore"
    /\ Len(fed) + Len(bytes) <= MaxInput
    /\ fed' = fed \o bytes
    /\ count' = Len(fed')
    /\ result' = "running"
    /\ UNCHANGED <<i, state, remaining, digits, trailerSeen, out>>

(* The loop has come to the end of the bytes.                               *)
needMore ==
    /\ result = "running" /\ i > count
    /\ result' = "needMore"
    /\ UNCHANGED <<fed, i, count, state, remaining, digits, trailerSeen, out>>

-----------------------------------------------------------------------------
(* The cases of the switch.                                                 *)

At(s) == result = "running" /\ i <= count /\ state = s
c == fed[i]
Fail == /\ result' = "failure"
        /\ UNCHANGED <<i, state, remaining, digits, trailerSeen, out>>
Goto(s) == i' = i + 1 /\ state' = s /\ UNCHANGED <<trailerSeen, out, result>>

(* The first place from k on, up to the end of the bytes, that holds b, or 0. *)
findByte(k, b) ==
    IF \E j \in k..count : fed[j] = b
    THEN CHOOSE j \in k..count : fed[j] = b /\ \A h \in k..(j - 1) : fed[h] # b
    ELSE 0

size ==
    /\ At("size")
    /\ IF c \in {CR, SEMI}
       THEN IF digits = 0 THEN Fail
            ELSE Goto(IF c = CR THEN "sizeLF" ELSE "ext") /\ UNCHANGED <<remaining, digits>>
       ELSE IF c \notin Digits \/ digits >= MaxDigits THEN Fail
            ELSE /\ Goto("size")
                 /\ remaining' = remaining * Radix + c
                 /\ digits' = digits + 1
    /\ UNCHANGED <<fed, count>>

ext ==
    /\ At("ext")
    /\ LET idx == findByte(i, CR) IN
       IF idx = 0 THEN i' = count + 1 /\ UNCHANGED state
       ELSE i' = idx + 1 /\ state' = "sizeLF"
    /\ UNCHANGED <<fed, count, remaining, digits, trailerSeen, out, result>>

sizeLF ==
    /\ At("sizeLF")
    /\ IF c # LF THEN Fail
       ELSE Goto(IF remaining = 0 THEN "trailerLine" ELSE "data") /\ digits' = 0 /\ UNCHANGED remaining
    /\ UNCHANGED <<fed, count>>

Take(avail) == IF avail < remaining THEN avail ELSE remaining

data ==
    /\ At("data")
    /\ LET take == Take(count - i + 1) IN
       /\ out' = out \o SubSeq(fed, i, i + take - 1)
       /\ remaining' = remaining - take
       /\ i' = i + take
    /\ state' = IF remaining' = 0 THEN "dataCR" ELSE "data"
    /\ UNCHANGED <<fed, count, digits, trailerSeen, result>>

dataCR ==
    /\ At("dataCR")
    /\ IF c # CR THEN Fail ELSE Goto("dataLF") /\ UNCHANGED <<remaining, digits>>
    /\ UNCHANGED <<fed, count>>

dataLF ==
    /\ At("dataLF")
    /\ IF c # LF THEN Fail ELSE Goto("size") /\ UNCHANGED <<remaining, digits>>
    /\ UNCHANGED <<fed, count>>

Finish == i' = i + 1 /\ state' = "done" /\ result' = "finished"

trailerLine ==
    /\ At("trailerLine")
    /\ CASE c = CR -> i' = i + 1 /\ state' = "trailerCR" /\ UNCHANGED result
         [] c = LF -> Finish
         [] OTHER -> state' = "trailerSkip" /\ UNCHANGED <<i, result>>
    /\ UNCHANGED <<fed, count, remaining, digits, trailerSeen, out>>

SkipForgets ==
    /\ At("trailerSkip")
    /\ LET idx == findByte(i, LF)
           take == IF idx = 0 THEN count - i + 1 ELSE idx - i + 1
       IN
       /\ trailerSeen' = trailerSeen + take
       /\ IF trailerSeen' > MaxTrailerBytes
          THEN result' = "failure" /\ UNCHANGED <<i, state>>
          ELSE i' = i + take /\ state' = "trailerLine" /\ UNCHANGED result
    /\ UNCHANGED <<fed, count, remaining, digits, out>>

trailerSkip ==
    /\ At("trailerSkip")
    /\ LET idx == findByte(i, LF)
           take == IF idx = 0 THEN count - i + 1 ELSE idx - i + 1
       IN
       /\ trailerSeen' = trailerSeen + take
       /\ IF trailerSeen' > MaxTrailerBytes
          THEN result' = "failure" /\ UNCHANGED <<i, state>>
          ELSE /\ i' = i + take
               /\ state' = IF idx = 0 THEN state ELSE "trailerLine"
               /\ UNCHANGED result
    /\ UNCHANGED <<fed, count, remaining, digits, out>>

trailerCR ==
    /\ At("trailerCR")
    /\ IF c # LF THEN Fail ELSE Finish /\ UNCHANGED <<remaining, digits, trailerSeen, out>>
    /\ UNCHANGED <<fed, count>>

Reads == UNION {[1..n -> Bytes] : n \in 1..MaxRead}

Next ==
    \/ \E bytes \in Reads : decode(bytes)
    \/ needMore
    \/ size \/ ext \/ sizeLF \/ data \/ dataCR \/ dataLF \/ trailerLine \/ trailerSkip \/ trailerCR

Spec == Init /\ [][Next]_vars

-----------------------------------------------------------------------------
(* What a chunked body is, read off its bytes as a whole: chunks, each a    *)
(* size line, that many bytes and CRLF; a size of zero; then trailer lines  *)
(* up to an empty one.  A reading is the verdict on the bytes (more of them *)
(* are needed, they are a whole body, or the start of none), the data in    *)
(* them, and how many bytes are left over.                                  *)

Reading(verdict, body, rest) == [verdict |-> verdict, body |-> body, rest |-> rest]
Drop(s, n) == SubSeq(s, n + 1, Len(s))

RECURSIVE Value(_)
Value(s) == IF s = <<>> THEN 0 ELSE Value(SubSeq(s, 1, Len(s) - 1)) * Radix + s[Len(s)]

Upto(s, b) ==
    IF \E j \in DOMAIN s : s[j] = b
    THEN SubSeq(s, 1, (CHOOSE j \in DOMAIN s : s[j] = b /\ \A h \in 1..(j - 1) : s[h] # b) - 1)
    ELSE s

RECURSIVE Trailers(_, _, _)
Trailers(t, room, body) ==
    LET line == Upto(t, LF) IN
    CASE t = <<>> \/ t = <<CR>> -> Reading("needMore", body, 0)
      [] t # <<>> /\ t[1] = LF -> Reading("finished", body, Len(t) - 1)
      [] Len(t) > 1 /\ t[1] = CR ->
            IF t[2] = LF THEN Reading("finished", body, Len(t) - 2) ELSE Reading("failure", body, 0)
      [] OTHER ->
            LET length == IF line = t THEN Len(t) ELSE Len(line) + 1 IN
            IF length > room THEN Reading("failure", body, 0)
            ELSE IF line = t THEN Reading("needMore", body, 0)
            ELSE Trailers(Drop(t, length), room - length, body)

RECURSIVE Meaning(_, _)
Meaning(s, body) ==
    LET line == Upto(s, CR)
        number == Upto(line, SEMI)
        whole == line # s
        after == Drop(s, Len(line) + 2)
        length == Value(number)
        end == Drop(after, length)
    IN
    CASE \/ Len(number) > MaxDigits \/ \E j \in DOMAIN number : number[j] \notin Digits
         \/ number = <<>> /\ s # <<>>
         \/ whole /\ Len(s) > Len(line) + 1 /\ s[Len(line) + 2] # LF
            -> Reading("failure", body, 0)
      [] OTHER ->
         IF ~whole \/ Len(s) = Len(line) + 1 THEN Reading("needMore", body, 0)
         ELSE IF length = 0 THEN Trailers(after, MaxTrailerBytes, body)
         ELSE IF Len(after) <= length THEN Reading("needMore", body \o after, 0)
         ELSE LET all == body \o SubSeq(after, 1, length) IN
              IF end[1] # CR \/ (Len(end) > 1 /\ end[2] # LF) THEN Reading("failure", all, 0)
              ELSE IF Len(end) = 1 THEN Reading("needMore", all, 0)
              ELSE Meaning(Drop(end, 2), all)

-----------------------------------------------------------------------------
(* The decoder's place is within the bytes, and a chunk's size is below     *)
(* what MaxDigits digits can say, so that it cannot overflow.               *)
TypeOK ==
    /\ i \in 1..(count + 1) /\ count = Len(fed) /\ Len(fed) <= MaxInput
    /\ digits \in 0..MaxDigits /\ remaining \in 0..(Radix ^ MaxDigits - 1)
    /\ trailerSeen \in 0..MaxInput
    /\ result \in {"running", "needMore", "finished", "failure"}

(* However the reads fell, the verdict is the one on the bytes as a whole:  *)
(* "resumable at any byte boundary".  A body is not ended early, nor late,  *)
(* and the bytes behind it are left.                                        *)
VerdictIsOfBytes ==
    result # "running" =>
        LET m == Meaning(fed, <<>>) IN
        result = m.verdict /\ (result = "finished" => count - i + 1 = m.rest)

(* What the sink has received is the data in the bytes, no framing in it    *)
(* and none of it lost between two reads.                                   *)
SinkHasData ==
    result # "running" => out = Meaning(fed, <<>>).body

=============================================================================
