------------------------------ MODULE MCHTTP1 -------------------------------
(* HTTP/1: the heads of requests and of responses, and chunked bodies, as   *)
(* they arrive read by read.                                                *)
EXTENDS Integers

CONSTANTS
    Instances       \* the instances that are run

VARIABLES
    instance,       \* the one this behaviour is of
    input, first,
    sent, starts, answered, closed, arrived, taken, heads, heard, reading,
    fed, i, count, state, remaining, digits, trailerSeen, out, result

Off == "off"        \* the variables of the modules it is not of


(* Heads of requests, and the reads that bring the rest of them.            *)
Request10 == <<"GET", "SP", "/", "SP", "HTTP/1.0", "CR", "LF">>
Request11 == <<"GET", "SP", "/", "SP", "HTTP/1.1", "LF">>

(* A byte at a time: of the request line, of fields, of a list.             *)
Single(S) == {<<b>> : b \in S}
LineBytes == Single({"t", "SP", "CR", "LF", "/", "HTTP/1.0", "HTTP/1.2"})
SyntaxBytes == Single({"t", "SP", "CR", "LF", ":", "CTL", "host"})
ListBytes == Single({"LF", "SP", ",", "chunked", "gzip", "close", "keep-alive"}) \cup
             {<<"te", ":">>, <<"connection", ":">>}

(* A line at a time: every order of the fields that frame a body.           *)
FieldLines == {<<"LF">>, <<"host", ":", "SP", "t", "LF">>, <<"t", ":", "CR", "LF">>,
          <<"length", ":", "1", "LF">>, <<"length", ":", "0", "1", "LF">>, <<"length", ":", "0", "CR", "LF">>,
          <<"length", ":", "1", ",", "1", "LF">>,
          <<"te", ":", "chunked", "LF">>, <<"te", ":", "gzip", ",", "chunked", "LF">>,
          <<"connection", ":", "close", "LF">>, <<"connection", ":", "keep-alive", "CR", "LF">>}

(* The lines of a response.                                                 *)
ResponseLines == {<<"length", ":", "1", "CR", "LF">>, <<"length", ":", "SP", "0", "LF">>,
          <<"te", ":", "gzip", ",", "SP", "chunked", "CR", "LF">>,
          <<"connection", ":", "close", "CR", "LF">>}

-----------------------------------------------------------------------------
(* Request lines of any bytes; field lines of any bytes; the lines that     *)
(* frame a body in every order; the values of the two list fields.          *)
HeadBounds == [
    head_line |-> [MaxHeadSize |-> 6, MaxHeaders |-> 1, Pieces |-> LineBytes,
        Start |-> <<>>, MaxInput |-> 8, MaxLate |-> 3],
    head_syntax |-> [MaxHeadSize |-> 10, MaxHeaders |-> 1, Pieces |-> SyntaxBytes,
        Start |-> Request10, MaxInput |-> 7, MaxLate |-> 3],
    head_framing |-> [MaxHeadSize |-> 20, MaxHeaders |-> 4, Pieces |-> FieldLines,
        Start |-> Request11, MaxInput |-> 24, MaxLate |-> 2],
    head_lists |-> [MaxHeadSize |-> 30, MaxHeaders |-> 2, Pieces |-> ListBytes,
        Start |-> Request10, MaxInput |-> 7, MaxLate |-> 0]]

headVars == <<input, first>>
HeadInstances == Instances \cap DOMAIN HeadBounds
Head(k) == INSTANCE HTTPParser WITH
    MaxHeadSize <- HeadBounds[k].MaxHeadSize, MaxHeaders <- HeadBounds[k].MaxHeaders,
    Pieces <- HeadBounds[k].Pieces, Start <- HeadBounds[k].Start,
    MaxInput <- HeadBounds[k].MaxInput, MaxLate <- HeadBounds[k].MaxLate

HeadOff ==
    /\ input = Off /\ first = Off

-----------------------------------------------------------------------------
(* Two answers on a connection, the first to HEAD and with an interim       *)
(* response before it, or both to GET with two fields each.                 *)
ResponseBounds == [
    response_head |-> [Methods |-> <<"HEAD", "GET">>, MaxFields |-> 1,
        MaxInterim |-> 1],
    response_get |-> [Methods |-> <<"GET", "GET">>, MaxFields |-> 2,
        MaxInterim |-> 0]]

responseVars == <<sent, starts, answered, closed, arrived, taken, heads, heard, reading>>
ResponseInstances == Instances \cap DOMAIN ResponseBounds
Response(k) == INSTANCE HTTPResponseParser WITH
    MaxHeadSize <- 20, MaxHeaders <- 2, Lines <- ResponseLines,
    Methods <- ResponseBounds[k].Methods, MaxFields <- ResponseBounds[k].MaxFields,
    MaxInterim <- ResponseBounds[k].MaxInterim, state <- reading

ResponseOff ==
    /\ sent = Off /\ starts = Off /\ answered = Off /\ closed = Off
    /\ arrived = Off /\ taken = Off /\ heads = Off /\ heard = Off
    /\ reading = Off

-----------------------------------------------------------------------------
(* Any bytes, extensions and trailers among them; longer bodies of more     *)
(* chunks.  Two digits of base two stand for fifteen of base sixteen.       *)
ChunkedBounds == [
    chunked_any |-> [Extensions |-> TRUE, MaxInput |-> 8, MaxRead |-> 2],
    chunked_long |-> [Extensions |-> FALSE, MaxInput |-> 14, MaxRead |-> 3]]

chunkedVars == <<fed, i, count, state, remaining, digits, trailerSeen, out, result>>
ChunkedInstances == Instances \cap DOMAIN ChunkedBounds
Chunked(k) == INSTANCE ChunkedDecoder WITH
    Radix <- 2, MaxDigits <- 2, MaxTrailerBytes <- 3,
    Extensions <- ChunkedBounds[k].Extensions, MaxInput <- ChunkedBounds[k].MaxInput,
    MaxRead <- ChunkedBounds[k].MaxRead

ChunkedOff ==
    /\ fed = Off /\ i = Off /\ count = Off /\ state = Off
    /\ remaining = Off /\ digits = Off /\ trailerSeen = Off /\ out = Off
    /\ result = Off

-----------------------------------------------------------------------------
Init ==
    \/ \E k \in HeadInstances :
        instance = k /\ Head(k)!Init /\ ResponseOff /\ ChunkedOff
    \/ \E k \in ResponseInstances :
        instance = k /\ Response(k)!Init /\ HeadOff /\ ChunkedOff
    \/ \E k \in ChunkedInstances :
        instance = k /\ Chunked(k)!Init /\ HeadOff /\ ResponseOff

vars == <<instance, headVars, responseVars, chunkedVars>>

Next ==
    /\ UNCHANGED instance
    /\ \/ \E k \in HeadInstances : instance = k /\ Head(k)!Next /\ UNCHANGED <<responseVars, chunkedVars>>
       \/ \E k \in ResponseInstances : instance = k /\ Response(k)!Next /\ UNCHANGED <<headVars, chunkedVars>>
       \/ \E k \in ChunkedInstances : instance = k /\ Chunked(k)!Next /\ UNCHANGED <<headVars, responseVars>>

Spec == Init /\ [][Next]_vars

-----------------------------------------------------------------------------
(* HTTPRequestParser.parse: the parser takes exactly the heads that the     *)
(* reference takes, with the same end, fields, framing and keep-alive, and  *)
(* its answer does not depend on how the bytes arrive: once the head is     *)
(* complete more bytes change nothing of it, and once bytes are refused no  *)
(* more of them make a head.                                                *)
HeadParses ==
    \A k \in HeadInstances : instance = k =>
        /\ Head(k)!ParsesHeads
        /\ Head(k)!AnswerStands

(* HTTPResponseParser: the head the client takes for the k-th is the k-th   *)
(* that the server sent, whatever was asked, whatever the status, however   *)
(* the bytes arrived; no response a server may send is refused; and the     *)
(* client waits for the close exactly when the server closes.               *)
ResponseInStep ==
    \A k \in ResponseInstances : instance = k =>
        /\ Response(k)!InStep
        /\ Response(k)!NoneRefused
        /\ Response(k)!WaitsForClose

(* ChunkedDecoder.decode: however the reads fell, the verdict is the one on *)
(* the bytes as a whole: a body is not ended early, nor late, and the bytes *)
(* behind it are left; the sink has the data in the bytes, no framing in it *)
(* and none of it lost between two reads; and a chunk's size cannot         *)
(* overflow.                                                                *)
ChunkedVerdictIsOfBytes ==
    \A k \in ChunkedInstances : instance = k =>
        /\ Chunked(k)!TypeOK
        /\ Chunked(k)!VerdictIsOfBytes
        /\ Chunked(k)!SinkHasData
=============================================================================
