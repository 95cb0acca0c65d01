----------------------------- MODULE HTTPParser -----------------------------
(* The HTTP/1 request-head parser (HTTPParser.swift).  It keeps nothing     *)
(* between calls: the connection calls it with all the bytes it holds each  *)
(* time some arrive, with a fresh head, until the head is complete or       *)
(* refused.                                                                 *)
EXTENDS HTTPFields, FiniteSets

CONSTANTS
    Pieces,             \* the sequences of bytes that arrive, each in one read
    Start,              \* what has arrived at the start, of a request line
    MaxInput,           \* bound: bytes that arrive after it
    MaxLate             \* bound: bytes behind those that decided

Versions == {"HTTP/1.0", "HTTP/1.1", "HTTP/1.2"}
TargetBytes == (TokenBytes \cup Versions \cup {"/", COLON, COMMA})

VARIABLES
    input,              \* the connection's bytes
    first               \* the first answer but "incomplete", asking at every read

vars == <<input, first>>

-----------------------------------------------------------------------------

(* The request line: method SP target SP version CRLF.  The version is one  *)
(* byte here and eight in the code, so "exactly 10 bytes" are 3.            *)
RequestLine(s) ==
    LET start == Past(s, 1, {CR, LF})
        method == Past(s, start, TokenBytes)
        target == Past(s, method + 1, TargetBytes)
        version == target + 1
        close == LineEnd(s, version + 1, "badRequestLine")
    IN
    CASE start > Len(s) -> Incomplete
      [] start <= Len(s) /\ method > Len(s) -> Short(s, "headTooLarge")
      [] OTHER ->
            IF s[method] # SP \/ method = start THEN Failure("badRequestLine")
            ELSE IF target > Len(s) THEN Short(s, "uriTooLong")
            ELSE IF s[target] # SP \/ target = method + 1 THEN Failure("badRequestLine")
            ELSE IF target - method - 1 > MaxHeadSize THEN Failure("uriTooLong")
            ELSE IF Len(s) - target < 3 THEN Incomplete
            ELSE IF s[version] \notin {"HTTP/1.0", "HTTP/1.1"} THEN Failure("badVersion")
            ELSE IF close.result # "end" THEN close
            ELSE [result |-> "line", method |-> SubSeq(s, start, method - 1),
                  minor |-> IF s[version] = "HTTP/1.1" THEN 1 ELSE 0, next |-> close.next]

(* Which token a Connection value holds, delimited by commas or spaces.     *)
containsTokenLowercased(v, token) ==
    \E j \in DOMAIN v :
        /\ v[j] = token
        /\ j > 1 => v[j - 1] \in {COMMA, SP}
        /\ j < Len(v) => v[j + 1] \in {COMMA, SP}

(* nil (here "none") when the value frames the body as plain chunked.       *)
checkTransferEncoding(v) ==
    LET codings == {e \in Elements(v) : e.coding # <<>>}
        last == CHOOSE e \in codings : \A d \in codings : d.from <= e.from
        some == codings # {}
    IN IF ~some \/ (some /\ last.coding # <<"chunked">>) THEN "conflictingFraming"
       ELSE IF codings = {last} THEN "none" ELSE "unsupportedTransferEncoding"

(* What the fields seen so far say of the request.                          *)
Fresh(minor) ==
    [minor |-> minor, keepAlive |-> minor = 1, length |-> -1, chunked |-> FALSE, host |-> FALSE, fields |-> <<>>]

(* The fields that decide the framing: the head after one, or an error.     *)
Took(head, name, value) ==
    CASE name = <<"host">> ->
            IF head.host THEN Failure("duplicateHost") ELSE [head EXCEPT !.host = TRUE]
      [] name = <<"connection">> ->
            IF containsTokenLowercased(value, "close") THEN [head EXCEPT !.keepAlive = FALSE]
            ELSE IF containsTokenLowercased(value, "keep-alive") THEN [head EXCEPT !.keepAlive = TRUE]
            ELSE head
      [] name = <<"length">> ->
            LET v == parseDecimal(value) IN
            IF v < 0 THEN Failure("badHeader")
            ELSE IF head.length >= 0 /\ head.length # v THEN Failure("conflictingFraming")
            ELSE [head EXCEPT !.length = v]
      [] name = <<"te">> ->
            IF head.chunked THEN Failure("conflictingFraming")
            ELSE IF checkTransferEncoding(value) # "none" THEN Failure(checkTransferEncoding(value))
            ELSE [head EXCEPT !.chunked = TRUE]
      [] OTHER -> head

(* The end of the head.                                                     *)
Finished(head, next) ==
    IF head.chunked /\ head.length >= 0 THEN Failure("conflictingFraming")
    ELSE IF head.minor = 1 /\ ~head.host THEN Failure("badRequestLine")
    ELSE [result |-> "complete", headEnd |-> next - 1, keepAlive |-> head.keepAlive, chunked |-> head.chunked,
          contentLength |-> IF head.length >= 0 THEN head.length ELSE IF head.chunked THEN -1 ELSE 0,
          fields |-> head.fields]

RECURSIVE Fields(_, _, _)
Fields(s, i, head) ==
    LET line == FieldLine(s, i)
        took == Took(head, line.name, line.value)
        failed == "result" \in DOMAIN took
    IN
    CASE line.result = "end" -> Finished(head, line.next)
      [] line.result = "field" ->
            IF Len(head.fields) = MaxHeaders THEN Failure("tooManyHeaders")
            ELSE IF failed THEN took
            ELSE Fields(s, line.next,
                        [took EXCEPT !.fields = Append(@, [name |-> line.name, value |-> line.value])])
      [] OTHER -> line

parse(s) ==
    LET line == RequestLine(s) IN
    IF line.result = "line" THEN Fields(s, line.next, Fresh(line.minor)) ELSE line

-----------------------------------------------------------------------------
Init ==
    /\ input = Start
    /\ first = Incomplete

(* A read, after which the connection asks.                                 *)
receive(piece) ==
    /\ Len(input) + Len(piece) <= Len(Start) + MaxInput
    /\ \/ first = Incomplete
       \/ first # Incomplete /\ Len(input) < first.at + MaxLate
    /\ input' = input \o piece
    /\ first' = IF first # Incomplete \/ parse(input').result = "incomplete" THEN first
                ELSE [answer |-> parse(input'), at |-> Len(input')]

Next == \E piece \in Pieces : receive(piece)
Spec == Init /\ [][Next]_vars

-----------------------------------------------------------------------------
(* The reference: when the bytes begin with a request head, and what it     *)
(* says, read off its lines.                                                *)

IsRequestLine(line) ==
    \E a, b \in DOMAIN line :
        /\ line[a] = SP /\ line[b] = SP /\ 1 < a /\ a + 1 < b /\ b + 1 = Len(line)
        /\ \A j \in 1..(a - 1) : line[j] \in TokenBytes
        /\ \A j \in (a + 1)..(b - 1) : line[j] \in TargetBytes
        /\ line[b + 1] \in {"HTTP/1.0", "HTTP/1.1"}

HeadOf(s) ==
    LET lead == Past(s, 1, {CR, LF}) - 1
        t == SubSeq(s, lead + 1, Len(s))
        top == CHOOSE j \in Ends(t) : \A h \in Ends(t) : j <= h
        blanks == {j \in Ends(t) : j # top /\ Line(t, j) = <<>>}
        end == CHOOSE j \in blanks : \A h \in blanks : j <= h
        places == {j \in Ends(t) : top < j /\ j < end}
        field(j) == FieldOf(Line(t, j))
        named(name) == {j \in places : field(j).name = <<name>>}
        said == {j \in named("connection") :
                    \E token \in {"close", "keep-alive"} : containsTokenLowercased(field(j).value, token)}
        lengths == {parseDecimal(field(j).value) : j \in named("length")}
        eleven == Line(t, top)[Len(Line(t, top))] = "HTTP/1.1"
    IN
    IF /\ Ends(t) # {} /\ IsRequestLine(Line(t, top)) /\ blanks # {}
       /\ \A j \in places : IsField(Line(t, j))
       /\ \A j \in places \cup {top} : lead + j <= MaxHeadSize
       /\ Cardinality(places) <= MaxHeaders
       /\ Cardinality(named("host")) \in (IF eleven THEN {1} ELSE {0, 1})
       /\ Cardinality(lengths) <= 1 /\ -1 \notin lengths
       /\ Cardinality(named("te")) <= 1 /\ (named("te") = {} \/ lengths = {})
       /\ \A j \in named("te") :
            /\ \A e \in Elements(field(j).value) : e.coding \in {<<>>, <<"chunked">>}
            /\ Cardinality({e \in Elements(field(j).value) : e.coding # <<>>}) = 1
    THEN [result |-> "complete", headEnd |-> lead + end,
          chunked |-> named("te") # {},
          contentLength |-> IF lengths # {} THEN CHOOSE v \in lengths : TRUE
                            ELSE IF named("te") # {} THEN -1 ELSE 0,
          keepAlive |-> IF said = {} THEN eleven
                        ELSE LET j == CHOOSE k \in said : \A h \in said : h <= k IN
                             ~containsTokenLowercased(field(j).value, "close"),
          fields |-> [n \in 1..Cardinality(places) |->
                        field(CHOOSE j \in places : Cardinality({k \in places : k <= j}) = n)]]
    ELSE [result |-> "none"]

-----------------------------------------------------------------------------
(* The parser takes exactly the heads that the reference takes, with the    *)
(* same end, fields, framing and keep-alive: where a head ends, whether its *)
(* body is chunked and how long it is are read off all its lines, whatever  *)
(* their order.                                                             *)
ParsesHeads ==
    LET p == parse(input) IN
    IF p.result = "complete" THEN p = HeadOf(input) ELSE HeadOf(input).result = "none"

(* An answer does not depend on how the bytes arrive: once the head is      *)
(* complete more bytes change nothing of it, and once bytes are refused no  *)
(* more of them make a head that a connection asking later, with all of     *)
(* them at once, would have taken.                                          *)
AnswerStands ==
    first # Incomplete =>
        LET p == parse(input) IN
        IF first.answer.result = "complete" THEN p = first.answer ELSE p.result # "complete"

=============================================================================
