----------------------------- MODULE ByteStream -----------------------------
(* What QUIC promises the two applications of a stream (the head of         *)
(* QUICStream.swift: "an ordered byte sequence with its own flow control,   *)
(* delivered out of packets that may arrive in any order and may not arrive *)
(* at all"): the reader is given the writer's bytes, in order and each      *)
(* once, and hears of the end only when it has them all.  The connection of *)
(* a sender and a receiver that keep to the protocol does not fail.         *)
EXTENDS Naturals, Sequences

CONSTANT Streams

VARIABLES
    written,        \* stream -> how many bytes the writer has written
    ended,          \* stream -> whether it has ended the stream
    given,          \* stream -> how many bytes have reached the reader in order
    read,           \* stream -> the bytes the reader has read
    told,           \* stream -> whether the reader has heard of the end
    failed          \* the connection was closed for an error

vars == <<written, ended, given, read, told, failed>>

Init ==
    /\ written = [s \in Streams |-> 0]
    /\ ended = [s \in Streams |-> FALSE]
    /\ given = [s \in Streams |-> 0]
    /\ read = [s \in Streams |-> <<>>]
    /\ told = [s \in Streams |-> FALSE]
    /\ failed = FALSE

(* The byte written at an offset is the offset.                             *)
Write(s) ==
    /\ ~ended[s]
    /\ written'[s] \in Nat /\ written'[s] >= written[s]
    /\ written' = [written EXCEPT ![s] = written'[s]]
    /\ \E fin \in BOOLEAN : ended' = [ended EXCEPT ![s] = fin]
    /\ UNCHANGED <<given, read, told, failed>>

(* More bytes, and with the last of them, or after it, the end.             *)
Give(s) ==
    /\ \E n \in given[s]..written[s], end \in BOOLEAN :
        /\ end => ended[s] /\ n = written[s]
        /\ given' = [given EXCEPT ![s] = n]
        /\ told' = [told EXCEPT ![s] = @ \/ end]
    /\ UNCHANGED <<written, ended, read, failed>>

Read(s) ==
    /\ \E n \in 1..given[s] - Len(read[s]) :
        read' = [read EXCEPT ![s] = @ \o [k \in 1..n |-> Len(@) + k - 1]]
    /\ UNCHANGED <<written, ended, given, told, failed>>

Next == \E s \in Streams : Write(s) \/ Give(s) \/ Read(s)

Spec == Init /\ [][Next]_vars

=============================================================================
