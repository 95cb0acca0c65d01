------------------------------- MODULE Cache -------------------------------
(***************************************************************************)
(* The response cache that worker processes share                          *)
(* (src/Sources/CAvian/avian_cache.c): slots in size classes, each under a *)
(* version word that is a sequence lock; one counter of request numbers; a *)
(* generation; and a mark per request target, at or below which copies are *)
(* out of date.  Processes interleave at every access that another can     *)
(* tell apart, and may die at any of them, with a slot claimed.            *)
(*                                                                         *)
(* A visit that loads a slot's version, reads it and finds the version as  *)
(* it was is one step: nothing moved in between.  One that finds it moved  *)
(* passes the slot over, as a visit while the slot was claimed would.  Two *)
(* places do not confirm at once, and are two steps: choosing a slot to    *)
(* overwrite, and copying a response out.                                  *)
(*                                                                         *)
(* A key stands for a request (hash, bytes and target), and the head and   *)
(* body of a copy are named by the request they answer.                    *)
(***************************************************************************)
EXTENDS Naturals, Sequences, FiniteSets, FiniteSetsExt

CONSTANTS
    Workers,        \* the processes that share the table
    Nobody,         \* no owner: the version word is even
    Keys,           \* request keys
    Marks,          \* the table of marks
    MarkOf,         \* the mark of each key's target; two may share one
    Slots,          \* slots of all classes
    None,           \* no slot, no key
    Classes,        \* size classes
    ClassOf,        \* the class of each slot
    Probes,         \* key -> the slots it may live in, class by class
    MaxSequence,    \* bound: request numbers
    MaxGeneration,  \* bound: flushes
    MaxTime,        \* bound: the clock
    MaxDeaths       \* bound: how many processes may die

VARIABLES
    generation, sequence,   \* g_table
    marks,                  \* g_marks
    slot,                   \* each slot: version word, description and data
    now,                    \* the clock
    dead,                   \* processes that no longer exist
    open,                   \* each process's requests that await a response
    call,                   \* each process's call: where it is and its locals
    newest, changed         \* history: per key, the newest copy and the last change

vars == <<generation, sequence, marks, slot, now, dead, open, call, newest, changed>>

Copies == [key : Keys \cup {None}, sequence : Nat]
NoCopy == [key |-> None, sequence |-> 0]

(* Version words: a count of finished writes, and the owner while claimed.  *)
Versions == [count : Nat, owner : Workers \cup {Nobody}]
NoVersion == [count |-> 0, owner |-> Nobody]
Stable(v) == v.owner = Nobody
claim_word(v, p) == [v EXCEPT !.owner = p]
publish_word(v) == [count |-> v.count + 1, owner |-> Nobody]

EmptySlot == [version |-> NoVersion, key |-> None, generation |-> 0, sequence |-> 0,
              expires |-> 0, data |-> NoCopy]

IdleCall == [pc |-> "idle", key |-> None, class |-> None, seq |-> 0, gen |-> 0, time |-> 0, i |-> 1,
             best |-> None, seen |-> NoVersion, version |-> NoVersion, rank |-> 4, expires |-> 0, bestSeq |-> 0,
             evicted |-> NoCopy, got |-> NoCopy, ok |-> FALSE, floor |-> 0, since |-> 0]

Init ==
    /\ generation = 1 /\ sequence = 1
    /\ marks = [m \in Marks |-> 0]
    /\ slot = [s \in Slots |-> EmptySlot]
    /\ now = 0 /\ dead = {}
    /\ open = [p \in Workers |-> {}]
    /\ call = [p \in Workers |-> IdleCall]
    /\ newest = [k \in Keys |-> 0] /\ changed = [k \in Keys |-> 0]

-----------------------------------------------------------------------------
At(p, label) == p \notin dead /\ call[p].pc = label
Step(p, c) == call' = [call EXCEPT ![p] = c]
Goto(p, label) == Step(p, [call[p] EXCEPT !.pc = label])
Return(p) == Step(p, IdleCall)

Table == <<generation, sequence, marks, slot>>
World == <<now, dead, open, newest, changed>>
Private == UNCHANGED <<Table, World>>

owner_gone(owner, self) == owner # self /\ owner \in dead

holds(s, k, gen) == slot[s].key = k /\ slot[s].generation = gen

raise_mark(m, to) == marks' = [marks EXCEPT ![m] = Max({@, to})]

(* The slot a scan is at: a lookup's, and retiring's, is every slot the key *)
(* may live in; a store picks among those of its class.                     *)
InClass(k, c) == SelectSeq(Probes[k], LAMBDA s : ClassOf[s] = c)
Done(p, list) == call[p].i > Len(list)
Next1(p) == [call[p] EXCEPT !.i = @ + 1]

-----------------------------------------------------------------------------
(* av_cache_begin: a request is dispatched, and takes its number.           *)
begin(p, k) ==
    /\ At(p, "idle") /\ sequence < MaxSequence
    /\ sequence' = sequence + 1
    /\ open' = [open EXCEPT ![p] = @ \cup {[key |-> k, sequence |-> sequence + 1]}]
    /\ UNCHANGED <<generation, marks, slot, now, dead, call, newest, changed>>

(* A response that is not to be stored.                                     *)
answer(p, r) ==
    /\ At(p, "idle") /\ r \in open[p]
    /\ open' = [open EXCEPT ![p] = @ \ {r}]
    /\ UNCHANGED <<Table, now, dead, call, newest, changed>>

(* av_cache_put, up to the generation it stores under.                      *)
put(p, r, c) ==
    /\ At(p, "idle") /\ r \in open[p]
    /\ open' = [open EXCEPT ![p] = @ \ {r}]
    /\ Step(p, [IdleCall EXCEPT !.pc = "put_mark", !.key = r.key, !.seq = r.sequence, !.class = c,
                                !.gen = generation, !.time = now])
    /\ UNCHANGED <<Table, now, dead, newest, changed>>

put_mark(p) ==
    /\ At(p, "put_mark")
    /\ IF call[p].seq <= marks[MarkOf[call[p].key]] THEN Return(p) ELSE Goto(p, "holds_newer")
    /\ Private

holds_newer(p) ==
    LET c == call[p]  list == Probes[c.key] IN
    /\ At(p, "holds_newer")
    /\ \/ Done(p, list) /\ Step(p, [c EXCEPT !.i = 1, !.pc = "choose"])
       \/ /\ ~Done(p, list)
          /\ LET s == list[c.i] IN
             IF Stable(slot[s].version) /\ holds(s, c.key, c.gen) /\ slot[s].sequence > c.seq
             THEN Return(p) ELSE Step(p, Next1(p))
    /\ Private

(* What overwriting a slot would cost: its rank, lower is better.  A choice *)
(* made while the slot moved may rank it anyhow; the claim then fails.      *)
Rank(p, s) ==
    LET c == call[p] IN
    CASE ~Stable(c.seen) -> {1}
      [] slot[s].version # c.seen -> 0..2
      [] holds(s, c.key, c.gen) -> {0}
      [] slot[s].generation # c.gen \/ slot[s].expires <= c.time
           \/ slot[s].sequence <= marks[MarkOf[slot[s].key]] -> {1}
      [] OTHER -> {2}

choose(p) ==
    LET c == call[p]  list == InClass(c.key, c.class) IN
    /\ At(p, "choose")
    /\ \/ /\ Done(p, list)
          /\ IF c.best = None THEN Return(p) ELSE Step(p, [c EXCEPT !.pc = "evict", !.i = 1])
       \/ /\ ~Done(p, list)
          /\ LET v == slot[list[c.i]].version IN
             IF Stable(v) \/ owner_gone(v.owner, p)
             THEN Step(p, [c EXCEPT !.pc = "choose_rank", !.seen = v]) ELSE Step(p, Next1(p))
    /\ Private

choose_rank(p) ==
    LET c == call[p]  s == InClass(c.key, c.class)[c.i] IN
    /\ At(p, "choose_rank")
    /\ \E r \in Rank(p, s) :
          IF r < c.rank \/ (r = 2 /\ c.rank = 2 /\ slot[s].expires < c.expires)
          THEN Step(p, [c EXCEPT !.pc = "choose", !.i = @ + 1, !.best = s, !.version = c.seen,
                                 !.rank = r, !.expires = slot[s].expires])
          ELSE Step(p, [c EXCEPT !.pc = "choose", !.i = @ + 1])
    /\ Private

(* The copy about to be replaced, if it is of this generation.              *)
evict(p) ==
    LET c == call[p]  s == slot[c.best] IN
    /\ At(p, "evict")
    /\ \/ ~Stable(c.version) /\ Goto(p, "claim")
       \/ Stable(c.version) /\ s.version # c.version /\ Return(p)
       \/ Stable(c.version) /\ s.version = c.version /\ s.generation # c.gen /\ Goto(p, "claim")
       \/ /\ Stable(c.version) /\ s.version = c.version /\ s.generation = c.gen
          /\ Step(p, [c EXCEPT !.pc = "raise", !.evicted = [key |-> s.key, sequence |-> s.sequence]])
    /\ Private

raise(p) ==
    LET e == call[p].evicted IN
    /\ At(p, "raise")
    /\ raise_mark(MarkOf[e.key], e.sequence - 1)
    /\ Goto(p, "claim")
    /\ UNCHANGED <<generation, sequence, slot, World>>

claim(p) ==
    LET c == call[p] IN
    /\ At(p, "claim")
    /\ \/ /\ slot[c.best].version = c.version
          /\ slot' = [slot EXCEPT ![c.best].version = claim_word(c.version, p)]
          /\ Goto(p, "fields")
       \/ slot[c.best].version # c.version /\ Return(p) /\ UNCHANGED slot
    /\ UNCHANGED <<generation, sequence, marks, World>>

(* The description and the key; the lifetime is the response's.             *)
fields(p, ttl) ==
    LET c == call[p] IN
    /\ At(p, "fields")
    /\ slot' = [slot EXCEPT ![c.best].key = c.key, ![c.best].generation = c.gen,
                            ![c.best].sequence = c.seq, ![c.best].expires = c.time + ttl]
    /\ Goto(p, "body")
    /\ UNCHANGED <<generation, sequence, marks, World>>

(* AFTER_CLAIM, then the head and the body.                                 *)
body(p) ==
    LET c == call[p] IN
    /\ At(p, "body")
    /\ slot' = [slot EXCEPT ![c.best].data = [key |-> c.key, sequence |-> c.seq]]
    /\ Goto(p, "publish")
    /\ UNCHANGED <<generation, sequence, marks, World>>

publish(p) ==
    LET c == call[p]  claimed == claim_word(c.version, p) IN
    /\ At(p, "publish")
    /\ IF slot[c.best].version = claimed
       THEN /\ slot' = [slot EXCEPT ![c.best].version = publish_word(claimed)]
            /\ newest' = [newest EXCEPT ![c.key] = IF c.gen = generation THEN Max({@, c.seq}) ELSE @]
            /\ Goto(p, "retire")
       ELSE Return(p) /\ UNCHANGED <<slot, newest>>
    /\ UNCHANGED <<generation, sequence, marks, now, dead, open, changed>>

(* retire_older: claims each copy of e's key older than e, other than the   *)
(* one just written, and clears it.  A copy being written is passed over.   *)
RetireDone(p, e) == e.key # None => Done(p, Probes[e.key])

Retires(p, s, e) ==
    /\ s # call[p].best /\ Stable(slot[s].version)
    /\ holds(s, e.key, call[p].gen) /\ slot[s].sequence < e.sequence

retire_older(p, from, clear, to, e) ==
    /\ At(p, from)
    /\ \/ RetireDone(p, e) /\ Step(p, [call[p] EXCEPT !.pc = to, !.i = 1]) /\ UNCHANGED slot
       \/ /\ ~RetireDone(p, e)
          /\ LET s == Probes[e.key][call[p].i] IN
             IF Retires(p, s, e)
             THEN slot' = [slot EXCEPT ![s].version = claim_word(@, p)] /\ Goto(p, clear)
             ELSE Step(p, Next1(p)) /\ UNCHANGED slot
    /\ UNCHANGED <<generation, sequence, marks, World>>

retire_clear(p, clear, from, e) ==
    LET s == Probes[e.key][call[p].i] IN
    /\ At(p, clear)
    /\ slot' = [slot EXCEPT ![s].generation = 0, ![s].expires = 0, ![s].version = publish_word(@)]
    /\ Step(p, [Next1(p) EXCEPT !.pc = from])
    /\ UNCHANGED <<generation, sequence, marks, World>>

Own(p) == [key |-> call[p].key, sequence |-> call[p].seq]

put_result(p) ==
    /\ At(p, "put_result")
    /\ Step(p, [call[p] EXCEPT !.pc = "put_done", !.ok = call[p].seq > marks[MarkOf[call[p].key]]])
    /\ Private

-----------------------------------------------------------------------------
(* av_cache_get: the copy answering the latest request counts.              *)
get(p, k) ==
    /\ At(p, "idle")
    /\ Step(p, [IdleCall EXCEPT !.pc = "lookup", !.key = k, !.gen = generation, !.time = now,
                                !.floor = newest[k], !.since = changed[k]])
    /\ Private

lookup(p) ==
    LET c == call[p]  list == Probes[c.key] IN
    /\ At(p, "lookup")
    /\ \/ Done(p, list) /\ (IF c.best = None THEN Return(p) ELSE Goto(p, "copy_out"))
       \/ /\ ~Done(p, list)
          /\ LET s == list[c.i] IN
             IF Stable(slot[s].version) /\ holds(s, c.key, c.gen) /\ slot[s].sequence > c.bestSeq
             THEN Step(p, [Next1(p) EXCEPT !.best = s, !.version = slot[s].version,
                                           !.bestSeq = slot[s].sequence])
             ELSE Step(p, Next1(p))
    /\ Private

copy_out(p) ==
    LET c == call[p] IN
    /\ At(p, "copy_out")
    /\ IF slot[c.best].expires <= c.time THEN Return(p)
       ELSE Step(p, [c EXCEPT !.pc = "confirm", !.got = slot[c.best].data])
    /\ Private

(* Mutant of confirm: what was copied is believed.                          *)
ConfirmNot(p) == At(p, "confirm") /\ Goto(p, "check_mark") /\ Private

confirm(p) ==
    /\ At(p, "confirm")
    /\ IF slot[call[p].best].version # call[p].version THEN Return(p) ELSE Goto(p, "check_mark")
    /\ Private

(* Mutant of check_mark: stores respect the mark, so lookups need not.      *)
CheckNoMark(p) == At(p, "check_mark") /\ Goto(p, "hit") /\ Private

check_mark(p) ==
    /\ At(p, "check_mark")
    /\ IF call[p].bestSeq <= marks[MarkOf[call[p].key]] THEN Return(p) ELSE Goto(p, "hit")
    /\ Private

(* The caller has the result of a get or of a put.                          *)
returned(p) ==
    /\ At(p, "hit") \/ At(p, "put_done")
    /\ Return(p)
    /\ Private

-----------------------------------------------------------------------------
(* av_cache_invalidate: a number after every request so far, then the mark. *)
invalidate(p, m) ==
    /\ At(p, "idle") /\ sequence < MaxSequence
    /\ sequence' = sequence + 1
    /\ Step(p, [IdleCall EXCEPT !.pc = "invalidate", !.class = m, !.seq = sequence + 1])
    /\ UNCHANGED <<generation, marks, slot, World>>

invalidated(p) ==
    LET c == call[p] IN
    /\ At(p, "invalidate")
    /\ raise_mark(c.class, c.seq)
    /\ changed' = [k \in Keys |-> IF MarkOf[k] = c.class THEN Max({changed[k], c.seq}) ELSE changed[k]]
    /\ Return(p)
    /\ UNCHANGED <<generation, sequence, slot, now, dead, open, newest>>

(* av_cache_flush: every copy so far is of an older generation.             *)
flush(p) ==
    /\ At(p, "idle") /\ generation < MaxGeneration
    /\ generation' = generation + 1
    /\ newest' = [k \in Keys |-> 0]
    /\ UNCHANGED <<sequence, marks, slot, now, dead, open, call, changed>>

tick ==
    /\ now < MaxTime
    /\ now' = now + 1
    /\ UNCHANGED <<Table, dead, open, call, newest, changed>>

die(p) ==
    /\ p \notin dead /\ Cardinality(dead) < MaxDeaths
    /\ dead' = dead \cup {p}
    /\ UNCHANGED <<Table, now, open, call, newest, changed>>

PutStep(p) ==
    \/ put_mark(p) \/ holds_newer(p) \/ choose(p) \/ choose_rank(p)
    \/ evict(p) \/ raise(p) \/ claim(p)
    \/ \E ttl \in 1..MaxTime+1 : fields(p, ttl)
    \/ body(p) \/ publish(p)
    \/ retire_older(p, "retire", "clear", "retire_evicted", Own(p))
    \/ retire_clear(p, "clear", "retire", Own(p))
    \/ retire_older(p, "retire_evicted", "clear_evicted", "put_result", call[p].evicted)
    \/ retire_clear(p, "clear_evicted", "retire_evicted", call[p].evicted)
    \/ put_result(p) \/ returned(p)

GetStep(p) == lookup(p) \/ copy_out(p) \/ confirm(p) \/ check_mark(p)

Next ==
    \/ \E p \in Workers :
          \/ \E k \in Keys : begin(p, k) \/ get(p, k)
          \/ \E r \in open[p] : answer(p, r) \/ \E c \in Classes : put(p, r, c)
          \/ PutStep(p) \/ GetStep(p)
          \/ \E m \in Marks : invalidate(p, m)
          \/ invalidated(p) \/ flush(p) \/ die(p)
    \/ tick

Spec == Init /\ [][Next]_vars

-----------------------------------------------------------------------------
(* The types of the table and of the calls.                                 *)
TypeOK ==
    /\ generation \in 1..MaxGeneration /\ sequence \in 1..MaxSequence
    /\ marks \in [Marks -> 0..MaxSequence]
    /\ \A s \in Slots :
          /\ slot[s].version \in Versions /\ slot[s].data \in Copies
          /\ slot[s].key \in Keys \cup {None} /\ slot[s].generation \in 0..MaxGeneration
    /\ dead \subseteq Workers
    /\ \A p \in Workers : call[p].best \in Slots \cup {None} /\ call[p].evicted \in Copies

(* The slots a process is in the middle of writing.                         *)
Writing(p) ==
    LET c == call[p] IN
    CASE c.pc \in {"fields", "body", "publish"} -> {c.best}
      [] c.pc = "clear" -> {Probes[c.key][c.i]}
      [] c.pc = "clear_evicted" -> {Probes[c.evicted.key][c.i]}
      [] OTHER -> {}

(* A slot is written by one live process, whose claim it carries: taking    *)
(* over from a writer that is gone never takes a slot from one that is not. *)
SlotExclusive ==
    \A p \in Workers \ dead : \A s \in Writing(p) : slot[s].version.owner = p

(* A hit returns the whole of one response, to the request that was asked:  *)
(* the copy that the lookup picked, no part of it from another.             *)
IntactGet ==
    \A p \in Workers : call[p].pc = "hit" =>
        call[p].got = [key |-> call[p].key, sequence |-> call[p].bestSeq]

(* A hit was dispatched after every change of its target that was complete  *)
(* when the lookup began, whatever was being written meanwhile.             *)
NotAfterChange ==
    \A p \in Workers : call[p].pc = "hit" => call[p].bestSeq > call[p].since

(* A lookup never goes back: its hit is as recent as every copy published   *)
(* in its generation before it began, unless a flush came meanwhile.        *)
NeverOlder ==
    \A p \in Workers : call[p].pc = "hit" /\ call[p].gen = generation => call[p].bestSeq >= call[p].floor

(* Every stable slot that a lookup could match holds one whole response.    *)
StableIsWhole ==
    \A s \in Slots : Stable(slot[s].version) /\ slot[s].generation # 0 =>
        slot[s].data = [key |-> slot[s].key, sequence |-> slot[s].sequence]

(* What avian_cache.h promises: a store that succeeds is not of a response  *)
(* that a more recent copy is kept of.                                      *)
StoredIsNewest ==
    \A p \in Workers : call[p].pc = "put_done" /\ call[p].ok =>
        \A s \in Slots : Stable(slot[s].version) /\ holds(s, call[p].key, call[p].gen)
                            => slot[s].sequence <= call[p].seq


-----------------------------------------------------------------------------
(* What is assumed of the constants, for the proofs.                        *)
CacheConstants ==
    /\ Nobody \notin Workers /\ None \notin Keys /\ None \notin Slots
    /\ MarkOf \in [Keys -> Marks] /\ Probes \in [Keys -> Seq(Slots)]
    /\ \A k \in Keys, c \in Classes : InClass(k, c) \in Seq(Slots)
    /\ MaxSequence \in Nat \ {0} /\ MaxGeneration \in Nat \ {0} /\ MaxTime \in Nat

(* The labels of a call of av_cache_put and of one of av_cache_get.         *)
Putting ==
    {"put_mark", "holds_newer", "choose", "choose_rank", "evict", "raise", "claim", "fields", "body",
     "publish", "retire", "clear", "retire_evicted", "clear_evicted", "put_result", "put_done"}
Getting == {"lookup", "copy_out", "confirm", "check_mark", "hit"}

Numbers == 0..MaxSequence
SlotStates ==
    [version : Versions, key : Keys \cup {None}, generation : 0..MaxGeneration, sequence : Numbers,
     expires : Nat, data : Copies]
Calls ==
    [pc : Putting \cup Getting \cup {"idle", "invalidate"}, key : Keys \cup {None},
     class : Classes \cup Marks \cup {None}, seq : Numbers, gen : 0..MaxGeneration, time : Nat,
     i : Nat \ {0}, best : Slots \cup {None}, seen : Versions, version : Versions, rank : 0..4,
     expires : Nat, bestSeq : Numbers, evicted : [key : Keys \cup {None}, sequence : Numbers],
     got : Copies, ok : BOOLEAN, floor : Nat, since : Nat]

(* The types of all variables.                                              *)
Types ==
    /\ generation \in 1..MaxGeneration /\ sequence \in 1..MaxSequence
    /\ marks \in [Marks -> Numbers]
    /\ slot \in [Slots -> SlotStates]
    /\ now \in Nat /\ dead \subseteq Workers
    /\ open \in [Workers -> SUBSET [key : Keys, sequence : Numbers \ {0}]]
    /\ call \in [Workers -> Calls]
    /\ newest \in [Keys -> Nat] /\ changed \in [Keys -> Nat]

(* What a call's locals are by where it is.  A version that a store is to   *)
(* claim from is stable, or its owner is gone.                              *)
LocalsInv(p) ==
    LET c == call[p] IN
    /\ c.pc \in Putting => c.key \in Keys /\ c.class \in Classes /\ c.gen > 0 /\ c.seq > 0
    /\ c.pc \in Getting => c.key \in Keys /\ c.gen > 0
    /\ c.pc = "invalidate" => c.class \in Marks
    /\ c.pc \in {"put_mark", "holds_newer"} => c.best = None
    /\ c.pc = "choose_rank" =>
          c.i <= Len(InClass(c.key, c.class)) /\ c.seen.owner \in dead \cup {Nobody}
    /\ c.pc \in {"choose", "choose_rank", "evict", "raise", "claim"} /\ c.best # None =>
          c.version.owner \in dead \cup {Nobody}
    /\ c.pc \in {"evict", "raise", "claim", "fields", "body", "publish", "copy_out", "confirm"} =>
          c.best # None
    /\ c.pc = "raise" => c.evicted.key \in Keys /\ c.evicted.sequence > 0
    /\ c.pc = "clear" => c.i <= Len(Probes[c.key])
    /\ c.pc = "clear_evicted" => c.evicted.key \in Keys /\ c.i <= Len(Probes[c.evicted.key])

(* What a living process has written of the slot that it claimed.           *)
WriterInv(p) ==
    LET c == call[p]  s == slot[c.best] IN
    /\ c.pc \in {"fields", "body", "publish"} => s.version = claim_word(c.version, p)
    /\ c.pc \in {"body", "publish"} => s.key = c.key /\ s.generation = c.gen /\ s.sequence = c.seq
    /\ c.pc = "publish" => s.data = Own(p)
    /\ c.pc = "clear" => slot[Probes[c.key][c.i]].version.owner = p
    /\ c.pc = "clear_evicted" => slot[Probes[c.evicted.key][c.i]].version.owner = p

(* What a lookup knows of the slot that it picked, so long as the version   *)
(* is what it was, and of what it copied.                                   *)
Picked(p) == [key |-> call[p].key, sequence |-> call[p].bestSeq]
ReaderInv(p) ==
    LET c == call[p]  s == slot[c.best] IN
    /\ c.pc \in {"lookup", "copy_out", "confirm"} /\ c.best # None =>
          /\ Stable(c.version) /\ s.version.count >= c.version.count
          /\ s.version = c.version => s.generation = c.gen /\ s.key = c.key /\ s.sequence = c.bestSeq
    /\ c.pc = "confirm" => (s.version = c.version => c.got = Picked(p))
    /\ c.pc \in {"check_mark", "hit"} => c.got = Picked(p)
    /\ c.pc \in Getting => c.since <= changed[c.key]
    /\ c.pc = "hit" => c.bestSeq > c.since

(* A stable slot that a lookup could match is of a request; and a change    *)
(* that is complete is in the mark of its target.                           *)
StableIsOfRequest ==
    \A s \in Slots : Stable(slot[s].version) /\ slot[s].generation # 0 =>
        slot[s].key \in Keys /\ slot[s].sequence > 0
ChangeIsMarked == \A k \in Keys : changed[k] <= marks[MarkOf[k]]

CacheInv ==
    /\ Types /\ StableIsWhole /\ StableIsOfRequest /\ ChangeIsMarked
    /\ \A p \in Workers : LocalsInv(p) /\ ReaderInv(p)
    /\ \A p \in Workers \ dead : WriterInv(p)

=============================================================================
