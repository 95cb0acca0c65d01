----------------------------- MODULE HTTPFields -----------------------------
(* What the two HTTP/1 head parsers share: bytes, scanning, and one turn of *)
(* the loop over header fields (HTTPParser.swift and, the same text,        *)
(* HTTPResponseParser.swift).                                               *)
(*                                                                          *)
(* A byte is a string here.  A field name or a coding that the parsers tell *)
(* from others ("host", "chunked") is one byte that is a token character;   *)
(* "t" is any other token character and "/" a character that is none.       *)
EXTENDS Integers, Sequences

CONSTANTS
    MaxHeadSize, MaxHeaders

CR == "CR"
LF == "LF"
SP == "SP"
COLON == ":"
COMMA == ","
CTL == "CTL"
DigitBytes == {"0", "1"}
TokenBytes == DigitBytes \cup {"host", "length", "te", "connection", "chunked", "gzip", "close",
                               "keep-alive", "GET", "HEAD", "t"}

isFieldValueChar(b) == b \notin {CR, LF, CTL}

(* The first place from i on whose byte is not of the kind, or the end.     *)
Past(s, i, kind) ==
    IF \E j \in i..Len(s) : s[j] \notin kind
    THEN CHOOSE j \in i..Len(s) : s[j] \notin kind /\ \A h \in i..(j - 1) : s[h] \in kind
    ELSE Len(s) + 1

Trim(v) ==
    LET kept == {j \in DOMAIN v : v[j] # SP}
        first == CHOOSE j \in kept : \A h \in kept : j <= h
        last == CHOOSE j \in kept : \A h \in kept : h <= j
    IN IF kept = {} THEN <<>> ELSE SubSeq(v, first, last)

(* The elements of a comma-separated list, trimmed; the empty ones too.     *)
Elements(v) ==
    LET commas == {j \in DOMAIN v : v[j] = COMMA}
        starts == {1} \cup {j + 1 : j \in commas}
        end(j) == Past(v, j, {b \in {v[h] : h \in DOMAIN v} : b # COMMA}) - 1
    IN {[from |-> j, coding |-> Trim(SubSeq(v, j, end(j)))] : j \in starts}

parseDecimal(v) ==
    IF v = <<>> \/ \E j \in DOMAIN v : v[j] \notin DigitBytes THEN -1
    ELSE LET value[j \in 0..Len(v)] ==
                IF j = 0 THEN 0 ELSE value[j - 1] * 10 + (IF v[j] = "1" THEN 1 ELSE 0)
         IN value[Len(v)]

Incomplete == [result |-> "incomplete"]
Failure(error) == [result |-> "failure", error |-> error]

(* The end of the bytes, in a place where the limit is looked at.           *)
Short(s, error) == IF Len(s) > MaxHeadSize THEN Failure(error) ELSE Incomplete

CREndsLine(s, i, error) ==
    CASE s[i] = LF -> [result |-> "end", next |-> i + 1]
      [] s[i] = CR -> IF i + 1 <= Len(s) /\ s[i + 1] = LF THEN [result |-> "end", next |-> i + 2]
                      ELSE [result |-> "end", next |-> i + 1]
      [] OTHER -> Failure(error)

(* The end of a line at i: CRLF, or a bare LF.                              *)
LineEnd(s, i, error) ==
    CASE s[i] = LF -> [result |-> "end", next |-> i + 1]
      [] s[i] = CR -> IF i + 1 > Len(s) THEN Incomplete
                      ELSE IF s[i + 1] # LF THEN Failure(error)
                      ELSE [result |-> "end", next |-> i + 2]
      [] OTHER -> Failure(error)

(* A turn of the loop: the empty line that ends the head, or a field.       *)
FieldLine(s, i) ==
    LET colon == Past(s, i, TokenBytes)
        value == Past(s, colon + 1, {SP})
        end == Past(s, value, {b \in {s[j] : j \in DOMAIN s} : isFieldValueChar(b)})
        close == LineEnd(s, end, "badHeader")
    IN
    CASE i > Len(s) -> Short(s, "headTooLarge")
      [] i <= Len(s) /\ i - 1 > MaxHeadSize -> Failure("headTooLarge")
      [] i <= Len(s) /\ i - 1 <= MaxHeadSize /\ s[i] \in {CR, LF} -> LineEnd(s, i, "badHeader")
      [] OTHER ->
            IF s[i] = SP THEN Failure("badHeader")
            ELSE IF colon > Len(s) THEN Incomplete
            ELSE IF colon = i \/ s[colon] # COLON THEN Failure("badHeader")
            ELSE IF value > Len(s) THEN Incomplete
            ELSE IF end > Len(s) THEN Short(s, "headTooLarge")
            ELSE IF close.result # "end" THEN close
            ELSE [result |-> "field", name |-> SubSeq(s, i, colon - 1),
                  value |-> Trim(SubSeq(s, value, end - 1)), next |-> close.next]

-----------------------------------------------------------------------------
(* The reference: a head read off its lines.                                *)

(* The places of the LFs that end the lines of s.                           *)
Ends(s) == {j \in DOMAIN s : s[j] = LF}

(* The line that the LF at j ends, without it and without a CR before it.   *)
Line(s, j) ==
    LET before == {h \in Ends(s) : h < j}
        from == IF before = {} THEN 1 ELSE 1 + CHOOSE h \in before : \A k \in before : k <= h
        to == IF j > from /\ s[j - 1] = CR THEN j - 2 ELSE j - 1
    IN SubSeq(s, from, to)

(* A header field, from its line: a name that is a token, a colon, and a    *)
(* value without control characters; or none.                               *)
IsField(line) ==
    \E colon \in DOMAIN line :
        /\ line[colon] = COLON /\ colon > 1
        /\ \A j \in 1..(colon - 1) : line[j] \in TokenBytes
        /\ \A j \in (colon + 1)..Len(line) : isFieldValueChar(line[j])
FieldOf(line) ==
    LET colon == CHOOSE j \in DOMAIN line : line[j] = COLON /\ \A h \in 1..(j - 1) : line[h] # COLON
    IN [name |-> SubSeq(line, 1, colon - 1), value |-> Trim(SubSeq(line, colon + 1, Len(line)))]

=============================================================================
