---------------------------- MODULE UTF8Validator ----------------------------
(* UTF8Validator.feed (WebSocketFrame.swift) over a text message whose bytes *)
(* come in pieces, and writeClose, which cuts the reason of a close frame.   *)
EXTENDS Integers, Sequences

CONSTANTS
    Bytes,          \* the bytes a message is made of
    MaxLength,      \* bound: the bytes of a message
    ReasonMax       \* 123: the bytes of a reason that fit a close frame

VARIABLES
    state, codepoint, minimum,
    valid,          \* what feed returned last
    message         \* history: the bytes fed

vars == <<state, codepoint, minimum, valid, message>>

Init == state = 0 /\ codepoint = 0 /\ minimum = 0 /\ valid = TRUE /\ message = <<>>

-----------------------------------------------------------------------------
(* The validator as [state, codepoint, minimum, valid].                     *)

Lead(v, c) ==
    CASE c < 128 -> v
      [] c \in 194..223 -> [v EXCEPT !.state = 1, !.minimum = 128, !.codepoint = c % 32]
      [] c \in 224..239 -> [v EXCEPT !.state = 2, !.minimum = 2048, !.codepoint = c % 16]
      [] c \in 240..244 -> [v EXCEPT !.state = 3, !.minimum = 65536, !.codepoint = c % 8]
      [] OTHER -> [v EXCEPT !.valid = FALSE]

Scalar(codepoint_, minimum_) ==
    /\ codepoint_ <= 1114111
    /\ ~(codepoint_ \in 55296..57343)
    /\ codepoint_ >= minimum_

Trail(v, c) ==
    LET cp == (v.codepoint * 64) + (c % 64) IN
    IF c \div 64 # 2 THEN [v EXCEPT !.valid = FALSE]
    ELSE [v EXCEPT !.codepoint = cp, !.state = @ - 1,
                   !.valid = v.state > 1 \/ Scalar(cp, v.minimum)]

(* feed, one byte: a call of several is a step for each.                    *)
Fed(v, c) == IF v.state = 0 THEN Lead(v, c) ELSE Trail(v, c)

feed(c) ==
    /\ valid /\ Len(message) < MaxLength
    /\ LET v == Fed([state |-> state, codepoint |-> codepoint, minimum |-> minimum, valid |-> TRUE], c)
       IN /\ state' = v.state /\ codepoint' = v.codepoint
          /\ minimum' = v.minimum /\ valid' = v.valid
    /\ message' = Append(message, c)

isComplete == state = 0

Next == \E c \in Bytes : feed(c)

Spec == Init /\ [][Next]_vars

-----------------------------------------------------------------------------
(* writeClose: the bytes of a reason that the close frame carries.          *)
ClosePayload(reason) == SubSeq(reason, 1, IF Len(reason) < ReasonMax THEN Len(reason) ELSE ReasonMax)

-----------------------------------------------------------------------------
(* Well-formed UTF-8 as the table of RFC 3629: the byte ranges of each form.*)
Tail80 == 128..191
Sequences4 ==
    {<<0..127>>, <<194..223, Tail80>>,
     <<{224}, 160..191, Tail80>>, <<225..236, Tail80, Tail80>>,
     <<{237}, 128..159, Tail80>>, <<238..239, Tail80, Tail80>>,
     <<{240}, 144..191, Tail80, Tail80>>, <<241..243, Tail80, Tail80, Tail80>>,
     <<{244}, 128..143, Tail80, Tail80>>}

(* The ends of the whole characters of s, from its start.                   *)
IsCharacter(s, from, form) ==
    /\ from + Len(form) <= Len(s)
    /\ \A i \in DOMAIN form : s[from + i] \in form[i]
WellFormed(s) ==
    \E ends \in SUBSET (0..Len(s)) :
        /\ {0, Len(s)} \subseteq ends
        /\ \A e \in ends \ {Len(s)} :
            \E form \in Sequences4 :
                /\ IsCharacter(s, e, form) /\ e + Len(form) \in ends
                /\ \A i \in 1..(Len(form) - 1) : e + i \notin ends

(* Type invariant.                                                          *)
TypeOK == state \in 0..3 /\ codepoint \in Nat /\ minimum \in Nat /\ valid \in BOOLEAN

(* A message is found valid and complete exactly when its bytes are         *)
(* well-formed UTF-8, wherever the pieces it came in were cut.              *)
ValidIsWellFormed == (valid /\ isComplete) <=> WellFormed(message)

(* The reason writeClose sends for a reason that is UTF-8 is UTF-8          *)
(* (WebSocketFrame.swift:206).                                              *)
ReasonIsUTF8 == valid /\ isComplete => WellFormed(ClosePayload(message))

=============================================================================
