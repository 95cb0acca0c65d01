------------------------- MODULE HTTPResponseParser -------------------------
(* The HTTP/1 response-head parser, and how the body behind the head is     *)
(* framed (HTTPResponseParser.swift).  A client has asked several requests  *)
(* on one connection and reads the responses one after another: where it    *)
(* believes a body ends is where it looks for the next head.                *)
EXTENDS HTTPFields, FiniteSets

CONSTANTS
    Methods,            \* what was asked, in order
    Lines,              \* the lines that field sections are made of
    MaxFields,          \* bound: lines in a head
    MaxInterim          \* bound: responses that are no answer

(* A status line is the version, SP, the code, and a reason perhaps.  The   *)
(* code is one byte here and three in the code.                             *)
Codes == {"100", "200", "204", "304"}
Versions == {"HTTP/1.0", "HTTP/1.1"}

VARIABLES
    sent,               \* the bytes that the server has sent
    starts,             \* history: where each head it sent begins in them
    answered,           \* how many requests it has answered, 100 being no answer
    closed,             \* it has closed the connection behind a body
    arrived,            \* how many of the bytes the client has
    taken,              \* how many of them it has done with
    heads,              \* where it found each head
    heard,              \* how many answers it has found
    state               \* head, failed, or closing: this body runs to the close

vars == <<sent, starts, answered, closed, arrived, taken, heads, heard, state>>

-----------------------------------------------------------------------------
StatusLine(s) ==
    LET start == Past(s, 1, {CR, LF})
        version == Past(s, start, {b \in {s[j] : j \in DOMAIN s} : b # SP})
        code == version + 1
        reason == IF code + 1 <= Len(s) /\ s[code + 1] = SP THEN code + 2 ELSE code + 1
        end == Past(s, reason, {b \in {s[j] : j \in DOMAIN s} : b \notin {CR, LF}})
        close == LineEnd(s, end, "badStatusLine")
    IN
    CASE start > Len(s) -> Incomplete
      [] start <= Len(s) /\ version > Len(s) -> Short(s, "headTooLarge")
      [] OTHER ->
            IF version # start + 1 \/ s[start] \notin Versions THEN Failure("badVersion")
            ELSE IF code > Len(s) THEN Incomplete
            ELSE IF s[code] \notin Codes \/ (code < Len(s) /\ s[code + 1] \in DigitBytes \cup Codes)
                 THEN Failure("badStatusLine")
            ELSE IF \E j \in reason..(end - 1) : ~isFieldValueChar(s[j]) THEN Failure("badStatusLine")
            ELSE IF end > Len(s) THEN Short(s, "headTooLarge")
            ELSE IF close.result # "end" THEN close
            ELSE [result |-> "line", status |-> s[code], next |-> close.next,
                  keepAlive |-> s[start] = "HTTP/1.1"]

containsToken(v, token) == \E e \in Elements(v) : e.coding = <<token>>

endsWithChunked(v) ==
    LET last == CHOOSE e \in Elements(v) : \A d \in Elements(v) : d.from <= e.from
    IN last.coding = <<"chunked">>

Took(head, name, value) ==
    CASE name = <<"connection">> ->
            IF containsToken(value, "close") THEN [head EXCEPT !.keepAlive = FALSE]
            ELSE IF containsToken(value, "keep-alive") THEN [head EXCEPT !.keepAlive = TRUE]
            ELSE head
      [] name = <<"length">> ->
            LET v == parseDecimal(value) IN
            IF v < 0 THEN Failure("badHeader")
            ELSE IF head.length >= 0 /\ head.length # v THEN Failure("conflictingFraming")
            ELSE [head EXCEPT !.length = v]
      [] name = <<"te">> ->
            IF ~endsWithChunked(value) THEN Failure("unsupportedTransferEncoding")
            ELSE IF head.chunked THEN Failure("conflictingFraming")
            ELSE [head EXCEPT !.chunked = TRUE]
      [] OTHER -> head

RECURSIVE Fields(_, _, _)
Fields(s, i, head) ==
    LET line == FieldLine(s, i)
        took == Took(head, line.name, line.value)
    IN
    CASE line.result = "end" ->
            IF head.chunked /\ head.length >= 0 THEN Failure("conflictingFraming")
            ELSE [head EXCEPT !.result = "complete", !.headEnd = line.next - 1]
      [] line.result = "field" ->
            IF head.count = MaxHeaders THEN Failure("tooManyHeaders")
            ELSE IF took.result = "failure" THEN took
            ELSE Fields(s, line.next, [took EXCEPT !.count = @ + 1])
      [] OTHER -> line

ParseShortEnd(s) ==
    LET line == StatusLine(s)
        head == Fields(s, line.next,
                    [result |-> "reading", status |-> line.status, keepAlive |-> line.keepAlive,
                     length |-> -1, chunked |-> FALSE, count |-> 0, headEnd |-> 0])
    IN IF line.result # "line" THEN line
       ELSE IF head.result = "complete" THEN [head EXCEPT !.headEnd = @ - 1] ELSE head

parse(s) ==
    LET line == StatusLine(s) IN
    IF line.result # "line" THEN line
    ELSE Fields(s, line.next,
                [result |-> "reading", status |-> line.status, keepAlive |-> line.keepAlive,
                 length |-> -1, chunked |-> FALSE, count |-> 0, headEnd |-> 0])

(* How the body is delimited: by what was asked and the status before the   *)
(* fields.                                                                  *)
framing(head, method) ==
    CASE method = "HEAD" -> [is |-> "none"]
      [] method # "HEAD" /\ head.status \in {"100", "204", "304"} -> [is |-> "none"]
      [] OTHER -> IF head.chunked THEN [is |-> "chunked"]
                  ELSE IF head.length >= 0 THEN [is |-> "length", length |-> head.length]
                  ELSE [is |-> "untilClose"]

-----------------------------------------------------------------------------
(* The server, external: each response is one that RFC 9112 lets a server   *)
(* send.  A body is so many bytes "t", or CHUNKS, which stands for a whole  *)
(* chunked body.                                                            *)

Named(lines, name) == {FieldOf(Line(lines[j], Len(lines[j]))).value : j \in
                        {k \in DOMAIN lines : FieldOf(Line(lines[k], Len(lines[k]))).name = <<name>>}}
Times(lines, name) == Cardinality({k \in DOMAIN lines : FieldOf(Line(lines[k], Len(lines[k]))).name = <<name>>})
LengthsOf(lines) == {parseDecimal(v) : v \in Named(lines, "length")}

MayBeSent(code, lines) ==
    /\ Cardinality(LengthsOf(lines)) <= 1
    /\ Times(lines, "te") <= 1
    /\ Named(lines, "te") = {} \/ LengthsOf(lines) = {}
    /\ code = "100" => lines = <<>>

BodyOf(method, code, lines) ==
    IF method = "HEAD" \/ code \in {"100", "204", "304"} THEN <<>>
    ELSE IF Named(lines, "te") # {} THEN <<"CHUNKS">>
    ELSE IF LengthsOf(lines) # {} THEN [j \in 1..(CHOOSE n \in LengthsOf(lines) : TRUE) |-> "t"]
    ELSE <<"t">>

RunsToClose(method, code, lines) ==
    /\ method # "HEAD" /\ code = "200"
    /\ Named(lines, "te") = {} /\ LengthsOf(lines) = {}

Joined(lines) ==
    LET upto[j \in 0..Len(lines)] == IF j = 0 THEN <<>> ELSE upto[j - 1] \o lines[j]
    IN upto[Len(lines)]

respond(code, lines) ==
    LET method == Methods[answered + 1] IN
    /\ answered < Len(Methods) /\ ~closed
    /\ Len(starts) < Len(Methods) + MaxInterim
    /\ MayBeSent(code, lines)
    /\ starts' = Append(starts, Len(sent))
    /\ sent' = sent \o <<"HTTP/1.1", SP, code, CR, LF>> \o Joined(lines) \o <<CR, LF>> \o BodyOf(method, code, lines)
    /\ answered' = IF code = "100" THEN answered ELSE answered + 1
    /\ closed' = RunsToClose(method, code, lines)
    /\ UNCHANGED <<arrived, taken, heads, heard, state>>

-----------------------------------------------------------------------------
(* The client, external but for parse and framing.                          *)

Init ==
    /\ sent = <<>> /\ starts = <<>> /\ answered = 0 /\ closed = FALSE
    /\ arrived = 0 /\ taken = 0 /\ heads = <<>> /\ heard = 0
    /\ state = "head"

arrive(n) ==
    /\ n \in (arrived + 1)..Len(sent)
    /\ arrived' = n
    /\ UNCHANGED <<sent, starts, answered, closed, taken, heads, heard, state>>

(* The client asks; a whole head tells it where to look for the next one.   *)
ask ==
    /\ state = "head" /\ arrived > taken /\ heard < Len(Methods)
    /\ LET p == parse(SubSeq(sent, taken + 1, arrived)) IN
       \/ /\ p.result = "failure"
          /\ state' = "failed"
          /\ UNCHANGED <<taken, heads, heard>>
       \/ /\ p.result = "complete"
          /\ heads' = Append(heads, taken)
          /\ heard' = IF p.status = "100" THEN heard ELSE heard + 1
          /\ LET f == framing(p, Methods[heard + 1]) IN
             /\ taken' = taken + p.headEnd + (CASE f.is = "length" -> f.length
                                                [] f.is = "chunked" -> 1
                                                [] OTHER -> 0)
             /\ state' = IF f.is = "untilClose" THEN "closing" ELSE "head"
    /\ UNCHANGED <<sent, starts, answered, closed, arrived>>

Sections == UNION {[1..n -> Lines] : n \in 0..MaxFields}

Next ==
    \/ \E code \in Codes, lines \in Sections : respond(code, lines)
    \/ \E n \in 1..Len(sent) : arrive(n)
    \/ ask

Spec == Init /\ [][Next]_vars

-----------------------------------------------------------------------------
(* The client stays in step: the head it takes for the k-th is the k-th     *)
(* that the server sent, whatever was asked, whatever the status, however   *)
(* the bytes arrived.  "A client that reads a body where there is none      *)
(* consumes the head of the next response".                                 *)
InStep ==
    \A k \in DOMAIN heads : k \in DOMAIN starts /\ heads[k] = starts[k]

(* No response a server may send is refused, whole or in part.              *)
NoneRefused == state # "failed"

(* A client waits for the close exactly when the server closes.             *)
WaitsForClose == state = "closing" => closed

=============================================================================
