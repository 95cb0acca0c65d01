----------------------------- MODULE RateLimit -----------------------------
(***************************************************************************)
(* The rate-limit table that worker processes share                        *)
(* (src/Sources/CAvian/avian_ratelimit.c).  An entry is a client and its   *)
(* theoretical arrival time (GCRA); a request finds its client's entry     *)
(* among a few neighbours, makes one or takes over one that is at a full   *)
(* burst, and moves its time on by a compare-and-swap.  Workers interleave *)
(* between any two accesses to the table.                                  *)
(***************************************************************************)
EXTENDS Naturals, Sequences

CONSTANTS
    Workers,
    Clients,        \* clients, as key_of names them
    Empty,          \* the key of an entry never used
    Entries,        \* g_table
    None,           \* no entry
    Probes,         \* client -> the entries it may land in, in order
    Emission,       \* g_emission, in ticks of the clock
    Tolerance,      \* g_tolerance
    MaxTime         \* bound: the clock

VARIABLES
    key, tat,       \* the table
    clock,          \* the monotonic clock
    call,           \* each worker's av_ratelimit_check
    due             \* history: each client's arrival time, if its requests were all in one entry

vars == <<key, tat, clock, call, due>>

IdleCall == [pc |-> "idle", client |-> Empty, now |-> 0, i |-> 1, key |-> Empty, entry |-> None, tat |-> 0]

Init ==
    /\ key = [e \in Entries |-> Empty] /\ tat = [e \in Entries |-> 0]
    /\ clock = 0
    /\ call = [p \in Workers |-> IdleCall]
    /\ due = [c \in Clients |-> 0]

-----------------------------------------------------------------------------
At(p, label) == call[p].pc = label
Step(p, c) == call' = [call EXCEPT ![p] = c]
Goto(p, label) == Step(p, [call[p] EXCEPT !.pc = label])
Later(a, b) == IF a > b THEN a ELSE b

(* The entry a probe is at, and the call that goes on to another.           *)
Probed(p) == Probes[call[p].client][call[p].i]
Last(p) == call[p].i = Len(Probes[call[p].client])
Onward(p, end) ==
    IF Last(p) THEN [call[p] EXCEPT !.pc = end, !.i = 1] ELSE [call[p] EXCEPT !.i = @ + 1]
Found(p) == [call[p] EXCEPT !.pc = "load", !.entry = Probed(p)]

check(p, c) ==
    /\ At(p, "idle")
    /\ Step(p, [IdleCall EXCEPT !.pc = "find", !.client = c, !.now = clock])
    /\ UNCHANGED <<key, tat, clock, due>>

(* find, first pass: the client's own entry, or an empty one.  A load that  *)
(* is followed by a compare-and-swap with what it loaded is one step.       *)
find(p) ==
    LET c == call[p].client  e == Probed(p) IN
    /\ At(p, "find")
    /\ \/ key[e] = c /\ Step(p, Found(p)) /\ UNCHANGED key
       \/ key[e] = Empty /\ key' = [key EXCEPT ![e] = c] /\ Step(p, Found(p))
       \/ key[e] \notin {c, Empty} /\ Step(p, Onward(p, "over")) /\ UNCHANGED key
    /\ UNCHANGED <<tat, clock, due>>

(* Second pass: an entry whose client is back at a full burst.              *)
over(p) ==
    /\ At(p, "over")
    /\ IF key[Probed(p)] = call[p].client THEN Step(p, Found(p))
       ELSE Step(p, [call[p] EXCEPT !.pc = "over_tat", !.key = key[Probed(p)]])
    /\ UNCHANGED <<key, tat, clock, due>>

over_tat(p) ==
    /\ At(p, "over_tat")
    /\ IF tat[Probed(p)] <= call[p].now THEN Goto(p, "over_swap")
       ELSE Step(p, [Onward(p, "none") EXCEPT !.pc = IF Last(p) THEN "none" ELSE "over"])
    /\ UNCHANGED <<key, tat, clock, due>>

over_swap(p) ==
    LET e == Probed(p) IN
    /\ At(p, "over_swap")
    /\ \/ /\ key[e] = call[p].key
          /\ key' = [key EXCEPT ![e] = call[p].client]
          /\ Step(p, Found(p))
       \/ /\ key[e] # call[p].key
          /\ Step(p, [Onward(p, "none") EXCEPT !.pc = IF Last(p) THEN "none" ELSE "over"])
          /\ UNCHANGED key
    /\ UNCHANGED <<tat, clock, due>>

(* No entry to be had: the request is allowed and charged to nobody.        *)
none(p) == At(p, "none") /\ Step(p, IdleCall) /\ UNCHANGED <<key, tat, clock, due>>

-----------------------------------------------------------------------------
load(p) ==
    LET t == tat[call[p].entry] IN
    /\ At(p, "load")
    /\ Step(p, [call[p] EXCEPT !.tat = t, !.pc = IF Later(t, call[p].now) - call[p].now > Tolerance
                                                 THEN "refused" ELSE "swap"])
    /\ UNCHANGED <<key, tat, clock, due>>

(* Mutant of swap: a store, without looking at what another has written.    *)
StoreBlindly(p) ==
    LET c == call[p] IN
    /\ At(p, "swap")
    /\ tat' = [tat EXCEPT ![c.entry] = Later(c.tat, c.now) + Emission]
    /\ due' = [due EXCEPT ![c.client] = Later(@, c.now) + Emission]
    /\ Step(p, IdleCall)
    /\ UNCHANGED <<key, clock>>

swap(p) ==
    LET c == call[p] IN
    /\ At(p, "swap")
    /\ \/ /\ tat[c.entry] = c.tat
          /\ tat' = [tat EXCEPT ![c.entry] = Later(c.tat, c.now) + Emission]
          /\ due' = [due EXCEPT ![c.client] = Later(@, c.now) + Emission]
          /\ Step(p, IdleCall)
       \/ tat[c.entry] # c.tat /\ Goto(p, "load") /\ UNCHANGED <<tat, due>>
    /\ UNCHANGED <<key, clock>>

refused(p) == At(p, "refused") /\ Step(p, IdleCall) /\ UNCHANGED <<key, tat, clock, due>>

tick == clock < MaxTime /\ clock' = clock + 1 /\ UNCHANGED <<key, tat, call, due>>

CheckStep(p) ==
    \/ find(p) \/ over(p) \/ over_tat(p) \/ over_swap(p) \/ none(p)
    \/ load(p) \/ swap(p) \/ refused(p)

Next ==
    \/ \E p \in Workers : CheckStep(p) \/ \E c \in Clients : check(p, c)
    \/ tick

Spec == Init /\ [][Next]_vars

-----------------------------------------------------------------------------
(* The types of the table and of the calls: no entry is further ahead of    *)
(* the clock than av_ratelimit_check may put it.                            *)
TypeOK ==
    /\ key \in [Entries -> Clients \cup {Empty}]
    /\ tat \in [Entries -> 0..clock + Tolerance + Emission]
    /\ clock \in 0..MaxTime
    /\ \A p \in Workers : call[p].entry \in Entries \cup {None} /\ call[p].now \in 0..clock

(* The limit: the requests of a client that were charged run ahead of the   *)
(* sustained rate by no more than the burst, whichever workers took them.   *)
RateKept == \A c \in Clients : due[c] <= clock + Tolerance + Emission

(* A request is refused only if its own client has used up its burst.       *)
RefusedFairly ==
    \A p \in Workers : At(p, "refused") => due[call[p].client] > call[p].now + Tolerance

(* A client has one entry, so that every worker reads and writes the same   *)
(* one.                                                                     *)
OneEntry ==
    \A e, f \in Entries : key[e] = key[f] /\ key[e] # Empty => e = f

=============================================================================
