---------------------------- MODULE CacheProofs ----------------------------
(***************************************************************************)
(* Proofs about the cache for any number of processes, deaths, slots, keys *)
(* and marks: CacheInv of Cache is inductive.  The heart of it is that the *)
(* version word of a slot goes one way, and that only the process it names *)
(* writes the slot, unless that process is gone.                           *)
(***************************************************************************)
EXTENDS Cache, TLAPS

(* The greater of two numbers.                                              *)
LEMMA MaxIs ==
    ASSUME NEW a \in Nat, NEW b \in Nat
    PROVE  /\ Max({a, b}) \in {a, b} /\ Max({a, b}) >= a /\ Max({a, b}) >= b
<1>1. \E x \in {a, b} : \A y \in {a, b} : x >= y
  OBVIOUS
<1> QED
  BY Zenon, <1>1 DEF Max

(* What a step of p does to a slot: nothing, or it claims or goes on        *)
(* writing one that is free, abandoned or its own, or it publishes its own. *)
SlotMoves(p, s) ==
    \/ slot'[s] = slot[s]
    \/ /\ slot[s].version.owner \in dead \cup {Nobody, p}
       /\ slot'[s].version = claim_word(slot[s].version, p)
    \/ /\ slot[s].version.owner = p
       /\ slot'[s].version = publish_word(slot[s].version)

StepOf(p) ==
    /\ \A q \in Workers : q # p => call'[q] = call[q]
    /\ \A s \in Slots : SlotMoves(p, s)
    /\ dead \subseteq dead'
    /\ \A k \in Keys : changed[k] <= changed'[k]

(* The version word goes one way: if a slot still has, after a step of      *)
(* another process, the stable version that a lookup saw, then the step did *)
(* not touch it.                                                            *)
LEMMA PickedKept ==
    ASSUME CacheConstants, Types, Types', NEW p \in Workers, NEW s \in Slots, SlotMoves(p, s),
           NEW v \in Versions, Stable(v), slot[s].version.count >= v.count
    PROVE  /\ slot'[s].version.count >= v.count
           /\ slot'[s].version = v => slot'[s] = slot[s]
<1>1. slot[s].version \in Versions
  BY Zenon DEF Types, SlotStates
<1> QED
  BY <1>1 DEF SlotMoves, Versions, Stable, claim_word, publish_word, CacheConstants

(* A slot that a living process has claimed is not touched by others.       *)
LEMMA HeldKept ==
    ASSUME CacheConstants, NEW p \in Workers, NEW s \in Slots, SlotMoves(p, s),
           NEW q \in Workers \ dead, q # p, slot[s].version.owner = q
    PROVE  slot'[s] = slot[s]
  BY Zenon DEF SlotMoves, CacheConstants

(* A step of p keeps what the invariant says of every other process.        *)
LEMMA OthersKept ==
    ASSUME CacheConstants, CacheInv, Types', NEW p \in Workers, StepOf(p), NEW q \in Workers, q # p
    PROVE  /\ LocalsInv(q)' /\ ReaderInv(q)'
           /\ q \notin dead' => WriterInv(q)'
<1>1. call'[q] = call[q] /\ LocalsInv(q) /\ ReaderInv(q) /\ (q \notin dead => WriterInv(q)) /\ call[q] \in Calls
  BY Zenon DEF CacheInv, StepOf, Types
<1>2. LocalsInv(q)'
  BY Zenon, <1>1 DEF LocalsInv, StepOf
<1>3. ReaderInv(q)'
  <2> DEFINE c == call[q]
  <2>1. c.version \in Versions /\ c.best \in Slots \cup {None} /\ c.key \in Keys \cup {None}
    BY Zenon, <1>1 DEF Calls
  <2>2. ASSUME c.pc \in {"lookup", "copy_out", "confirm"}, c.best # None
        PROVE  /\ Stable(c.version) /\ slot'[c.best].version.count >= c.version.count
               /\ slot'[c.best].version = c.version => slot'[c.best] = slot[c.best]
    <3>1. Stable(c.version) /\ slot[c.best].version.count >= c.version.count
      BY Zenon, <1>1, <2>2 DEF ReaderInv
    <3> QED
      BY Zenon, <2>1, <2>2, <3>1, PickedKept DEF StepOf, CacheInv
  <2>3. c.pc \in Getting => c.key \in Keys
    BY Zenon, <1>1 DEF LocalsInv
  <2>4. c.pc \in Getting => c.since <= changed'[c.key]
    <3>1. c.since \in Nat /\ \A k \in Keys : changed[k] \in Nat /\ changed'[k] \in Nat
      BY Zenon, <1>1 DEF Calls, CacheInv, Types
    <3> QED
      BY <1>1, <2>3, <3>1 DEF StepOf, ReaderInv
  <2>5. c.pc = "confirm" => c.best # None
    BY Zenon, <1>1 DEF LocalsInv
  <2> QED
    BY Zenon, <1>1, <2>2, <2>4, <2>5 DEF ReaderInv, Picked
<1>4. ASSUME q \notin dead' PROVE WriterInv(q)'
  <2> DEFINE c == call[q]
  <2>1. q \notin dead /\ WriterInv(q) /\ c.version \in Versions
    BY Zenon, <1>1, <1>4 DEF StepOf, Calls
  <2>2. ASSUME NEW s \in Slots, slot[s].version.owner = q PROVE slot'[s] = slot[s]
    BY Zenon, <2>1, <2>2, HeldKept DEF StepOf
  <2>3. c.pc \in {"fields", "body", "publish"} => c.best \in Slots /\ slot'[c.best] = slot[c.best]
    <3>1. c.pc \in {"fields", "body", "publish"} => c.best \in Slots /\ slot[c.best].version.owner = q
      BY Zenon, <1>1, <2>1 DEF LocalsInv, WriterInv, Calls, claim_word, Versions
    <3> QED
      BY Zenon, <2>2, <3>1
  <2>4. c.pc = "clear" => Probes[c.key][c.i] \in Slots /\ slot'[Probes[c.key][c.i]] = slot[Probes[c.key][c.i]]
    <3>1. c.pc = "clear" => c.key \in Keys /\ c.i \in Nat \ {0} /\ c.i <= Len(Probes[c.key])
      BY Zenon, <1>1 DEF LocalsInv, Calls, Putting
    <3>2. c.pc = "clear" => Probes[c.key][c.i] \in Slots
      BY <3>1 DEF CacheConstants
    <3> QED
      BY Zenon, <2>1, <2>2, <3>2 DEF WriterInv
  <2>5. c.pc = "clear_evicted" => slot'[Probes[c.evicted.key][c.i]] = slot[Probes[c.evicted.key][c.i]]
    <3>1. c.pc = "clear_evicted" =>
             c.evicted.key \in Keys /\ c.i \in Nat \ {0} /\ c.i <= Len(Probes[c.evicted.key])
      BY Zenon, <1>1 DEF LocalsInv, Calls
    <3>2. c.pc = "clear_evicted" => Probes[c.evicted.key][c.i] \in Slots
      BY <3>1 DEF CacheConstants
    <3> QED
      BY Zenon, <2>1, <2>2, <3>2 DEF WriterInv
  <2> QED
    BY Zenon, <1>1, <2>1, <2>3, <2>4, <2>5 DEF WriterInv, Own
<1> QED
  BY Zenon, <1>2, <1>3, <1>4

(* So it is enough to look at p and at the slots.                           *)
LEMMA Assemble ==
    ASSUME CacheConstants, CacheInv, Types', NEW p \in Workers, StepOf(p),
           LocalsInv(p)', ReaderInv(p)', p \notin dead' => WriterInv(p)',
           StableIsWhole', StableIsOfRequest', ChangeIsMarked'
    PROVE  CacheInv'
<1>1. \A q \in Workers : LocalsInv(q)' /\ ReaderInv(q)' /\ (q \notin dead' => WriterInv(q)')
  BY Zenon, OthersKept
<1> QED
  BY Zenon, <1>1 DEF CacheInv

(* Steps that change only locals of p.                                      *)
LEMMA PrivateStep ==
    ASSUME CacheConstants, CacheInv, NEW p \in Workers, NEW d \in Calls, Step(p, d), Private,
           LocalsInv(p)', ReaderInv(p)', WriterInv(p)'
    PROVE  CacheInv'
<1>1. UNCHANGED <<generation, sequence, marks, slot, now, dead, open, newest, changed>>
  BY Zenon DEF Private, Table, World
<1>2. Types'
  BY Zenon, <1>1 DEF Step, CacheInv, Types
<1>3. StepOf(p)
  <2>1. \A k \in Keys : changed[k] <= changed'[k]
    BY <1>1 DEF CacheInv, Types
  <2>2. \A q \in Workers : q # p => call'[q] = call[q]
    BY Zenon DEF Step, CacheInv, Types
  <2> QED
    BY Zenon, <1>1, <2>1, <2>2 DEF StepOf, SlotMoves
<1>4. StableIsWhole' /\ StableIsOfRequest' /\ ChangeIsMarked'
  BY Zenon, <1>1 DEF CacheInv, StableIsWhole, StableIsOfRequest, ChangeIsMarked
<1> QED
  BY Zenon, <1>2, <1>3, <1>4, Assemble

(* The call between two calls is one of Calls.                              *)
LEMMA IdleFits ==
    ASSUME CacheConstants
    PROVE  IdleCall \in Calls
  BY DEF IdleCall, Calls, Putting, Getting, Versions, NoVersion, Copies, NoCopy, CacheConstants, Numbers

(* A process between two calls owes nothing.                                *)
LEMMA IdleOwes ==
    ASSUME NEW p \in Workers, call'[p] = IdleCall
    PROVE  LocalsInv(p)' /\ ReaderInv(p)' /\ WriterInv(p)'
  BY DEF LocalsInv, ReaderInv, WriterInv, IdleCall, Putting, Getting

(* A call that returns without writing.                                     *)
LEMMA ReturnStep ==
    ASSUME CacheConstants, CacheInv, NEW p \in Workers, Return(p), Private
    PROVE  CacheInv'
<1>1. call'[p] = IdleCall
  BY Zenon DEF Return, Step, CacheInv, Types
<1> QED
  BY Zenon, <1>1, IdleFits, IdleOwes, PrivateStep DEF Return

(* What the invariant says of p.                                            *)
LEMMA Mine ==
    ASSUME CacheInv, NEW p \in Workers
    PROVE  /\ call[p] \in Calls /\ LocalsInv(p) /\ ReaderInv(p)
           /\ p \notin dead => WriterInv(p)
           /\ \A d : Step(p, d) => call'[p] = d
  BY Zenon DEF CacheInv, Types, Step

(* A call with one local changed.                                           *)
LEMMA Fits ==
    ASSUME NEW c \in Calls
    PROVE  /\ \A x \in Putting \cup Getting : [c EXCEPT !.pc = x] \in Calls
           /\ \A x \in Nat \ {0} : [c EXCEPT !.i = x] \in Calls
           /\ \A x \in Versions : [c EXCEPT !.seen = x] \in Calls /\ [c EXCEPT !.version = x] \in Calls
           /\ \A x \in Slots : [c EXCEPT !.best = x] \in Calls
           /\ \A x \in 0..4 : [c EXCEPT !.rank = x] \in Calls
           /\ \A x \in Nat : [c EXCEPT !.expires = x] \in Calls
           /\ \A x \in Numbers : [c EXCEPT !.bestSeq = x] \in Calls
           /\ \A x \in Copies : [c EXCEPT !.got = x] \in Calls
           /\ \A x \in [key : Keys \cup {None}, sequence : Numbers] : [c EXCEPT !.evicted = x] \in Calls
           /\ \A x \in BOOLEAN : [c EXCEPT !.ok = x] \in Calls
  BY DEF Calls

(* The same for the locals that a call begins with.                         *)
LEMMA BeginsFit ==
    ASSUME NEW c \in Calls
    PROVE  /\ \A x \in Putting \cup Getting \cup {"invalidate"} : [c EXCEPT !.pc = x] \in Calls
           /\ \A x \in Keys : [c EXCEPT !.key = x] \in Calls
           /\ \A x \in Classes \cup Marks : [c EXCEPT !.class = x] \in Calls
           /\ \A x \in Numbers : [c EXCEPT !.seq = x] \in Calls
           /\ \A x \in 0..MaxGeneration : [c EXCEPT !.gen = x] \in Calls
           /\ \A x \in Nat : /\ [c EXCEPT !.time = x] \in Calls /\ [c EXCEPT !.floor = x] \in Calls
                             /\ [c EXCEPT !.since = x] \in Calls
  BY DEF Calls

(* The locals that the scans use.                                           *)
LEMMA Gone ==
    ASSUME CacheInv, NEW p \in Workers
    PROVE  /\ call[p].i \in Nat \ {0} /\ call[p].i + 1 \in Nat \ {0} /\ 1 \in Nat \ {0}
           /\ call[p].best \in Slots \cup {None}
           /\ call[p].pc \in Putting => call[p].key \in Keys /\ call[p].class \in Classes
           /\ call[p].pc \in Getting => call[p].key \in Keys
  BY Mine DEF Calls, LocalsInv

(* The scan goes on to the next slot.                                       *)
LEMMA NextOne ==
    ASSUME CacheInv, NEW p \in Workers
    PROVE  /\ Next1(p) \in Calls
           /\ LET d == Next1(p)  c == call[p] IN
              /\ d.pc = c.pc /\ d.key = c.key /\ d.class = c.class /\ d.seq = c.seq /\ d.gen = c.gen
              /\ d.i = c.i + 1 /\ d.best = c.best /\ d.seen = c.seen /\ d.version = c.version
              /\ d.bestSeq = c.bestSeq /\ d.evicted = c.evicted /\ d.got = c.got /\ d.since = c.since
<1>1. Next1(p) \in Calls
  BY Zenon, Gone, Mine, Fits DEF Next1
<1>2. call[p] \in Calls
  BY Zenon, Mine
<1> QED
  BY Zenon, <1>1, <1>2 DEF Next1, Calls

(* Two calls with the same locals, but for where they are.                  *)
Alike(d, c) ==
    /\ d.key = c.key /\ d.class = c.class /\ d.seq = c.seq /\ d.gen = c.gen
    /\ d.i = c.i /\ d.best = c.best /\ d.seen = c.seen /\ d.version = c.version
    /\ d.bestSeq = c.bestSeq /\ d.evicted = c.evicted /\ d.got = c.got /\ d.since = c.since

(* A step that only moves to another label.                                 *)
LEMMA GotoIs ==
    ASSUME CacheInv, NEW p \in Workers, NEW x \in Putting \cup Getting, Goto(p, x)
    PROVE  /\ call'[p] \in Calls /\ Step(p, call'[p])
           /\ call'[p].pc = x /\ Alike(call'[p], call[p])
<1> DEFINE c == call[p]  d == [c EXCEPT !.pc = x]
<1>1. c \in Calls
  BY Zenon, Mine
<1>2. d \in Calls
  BY Zenon, <1>1, Fits
<1>3. d.pc = x /\ Alike(d, c)
  BY Zenon, <1>1 DEF Calls, Alike
<1> HIDE DEF d
<1>4. Step(p, d) /\ call'[p] = d
  BY Zenon, Mine DEF d, Goto
<1> QED
  BY Zenon, <1>2, <1>3, <1>4

(* The first look at the mark.                                              *)
LEMMA PutMark ==
    ASSUME CacheConstants, CacheInv, NEW p \in Workers, put_mark(p)
    PROVE  CacheInv'
<1>1. CASE Return(p)
  BY Zenon, <1>1, ReturnStep DEF put_mark
<1>2. CASE Goto(p, "holds_newer")
  <2>1. "holds_newer" \in Putting /\ call[p].pc = "put_mark" /\ LocalsInv(p)
    BY Zenon, Mine DEF Putting, put_mark, At
  <2>2. /\ call'[p] \in Calls /\ Step(p, call'[p])
        /\ call'[p].pc = "holds_newer" /\ Alike(call'[p], call[p])
    BY Zenon, <1>2, <2>1, GotoIs
  <2>3. LocalsInv(p)' /\ ReaderInv(p)' /\ WriterInv(p)'
    BY Zenon, <2>1, <2>2 DEF LocalsInv, ReaderInv, WriterInv, Putting, Getting, Alike
  <2> QED
    BY Zenon, <2>2, <2>3, PrivateStep DEF put_mark
<1> QED
  BY Zenon, <1>1, <1>2 DEF put_mark

(* The scan for a newer copy.                                               *)
LEMMA HoldsNewer ==
    ASSUME CacheConstants, CacheInv, NEW p \in Workers, holds_newer(p)
    PROVE  CacheInv'
<1> DEFINE c == call[p]
<1>0. c \in Calls /\ c.pc = "holds_newer" /\ LocalsInv(p)
  BY Zenon, Mine DEF holds_newer, At
<1>1. CASE Return(p)
  BY Zenon, <1>1, ReturnStep DEF holds_newer
<1>2. CASE Step(p, [c EXCEPT !.i = 1, !.pc = "choose"])
  <2> DEFINE e == [c EXCEPT !.i = 1]  d == [e EXCEPT !.pc = "choose"]
  <2>1. "choose" \in Putting
    BY Zenon DEF Putting
  <2>2. e \in Calls /\ d \in Calls
    BY Zenon, <1>0, <2>1, Gone, Fits
  <2>3. d = [c EXCEPT !.i = 1, !.pc = "choose"]
    BY Zenon
  <2>4. /\ d.pc = "choose" /\ d.key = c.key /\ d.class = c.class /\ d.seq = c.seq /\ d.gen = c.gen
        /\ d.best = c.best /\ d.version = c.version
    BY Zenon, <1>0 DEF Calls
  <2> HIDE DEF d
  <2>5. Step(p, d) /\ call'[p] = d
    BY Zenon, <1>2, <2>3, Mine
  <2>6. LocalsInv(p)' /\ ReaderInv(p)' /\ WriterInv(p)'
    BY Zenon, <1>0, <2>4, <2>5 DEF LocalsInv, ReaderInv, WriterInv, Putting, Getting
  <2> QED
    BY Zenon, <2>2, <2>5, <2>6, PrivateStep DEF holds_newer
<1>3. CASE Step(p, Next1(p))
  <2>1. Next1(p) \in Calls /\ call'[p] = Next1(p)
    BY Zenon, <1>3, Mine, NextOne
  <2>2. LocalsInv(p)' /\ ReaderInv(p)' /\ WriterInv(p)'
    BY Zenon, <1>0, <2>1, NextOne DEF LocalsInv, ReaderInv, WriterInv, Putting, Getting
  <2> QED
    BY Zenon, <1>3, <2>1, <2>2, PrivateStep DEF holds_newer
<1> QED
  BY Zenon, <1>1, <1>2, <1>3 DEF holds_newer

(* The ranks.                                                               *)
LEMMA RankIs ==
    ASSUME NEW p \in Workers, NEW s \in Slots
    PROVE  Rank(p, s) \subseteq 0..2
  BY DEF Rank

(* The load of a version while choosing a slot: the slot is free, or its    *)
(* owner is gone, for good.                                                 *)
LEMMA Choose ==
    ASSUME CacheConstants, CacheInv, NEW p \in Workers, choose(p)
    PROVE  CacheInv'
<1> DEFINE c == call[p]  list == InClass(c.key, c.class)  v == slot[list[c.i]].version
<1>0. /\ c.pc = "choose" /\ c \in Calls /\ LocalsInv(p) /\ dead' = dead
      /\ c.key \in Keys /\ c.class \in Classes
  BY Zenon, Mine DEF choose, At, LocalsInv, Putting, Private, World
<1>1. CASE Return(p)
  BY Zenon, <1>1, ReturnStep DEF choose
<1>2. CASE c.best # None /\ Step(p, [c EXCEPT !.pc = "evict", !.i = 1])
  <2> DEFINE e == [c EXCEPT !.pc = "evict"]  d == [e EXCEPT !.i = 1]
  <2>1. "evict" \in Putting
    BY Zenon DEF Putting
  <2>2. e \in Calls /\ d \in Calls
    BY Zenon, <1>0, <2>1, Gone, Fits
  <2>3. d = [c EXCEPT !.pc = "evict", !.i = 1]
    BY Zenon
  <2>4. /\ d.pc = "evict" /\ d.key = c.key /\ d.class = c.class /\ d.seq = c.seq /\ d.gen = c.gen
        /\ d.best = c.best /\ d.version = c.version
    BY Zenon, <1>0 DEF Calls
  <2> HIDE DEF d
  <2>5. Step(p, d) /\ call'[p] = d
    BY Zenon, <1>2, <2>3, Mine
  <2>6. LocalsInv(p)' /\ ReaderInv(p)' /\ WriterInv(p)'
    BY Zenon, <1>0, <1>2, <2>4, <2>5 DEF LocalsInv, ReaderInv, WriterInv, Putting, Getting
  <2> QED
    BY Zenon, <2>2, <2>5, <2>6, PrivateStep DEF choose
<1>3. CASE /\ ~Done(p, list) /\ (Stable(v) \/ owner_gone(v.owner, p))
           /\ Step(p, [c EXCEPT !.pc = "choose_rank", !.seen = v])
  <2> DEFINE e == [c EXCEPT !.pc = "choose_rank"]  d == [e EXCEPT !.seen = v]
  <2>1. "choose_rank" \in Putting
    BY ZenonT(60) DEF Putting
  <2>2. list \in Seq(Slots) /\ c.i \in Nat \ {0} /\ c.i <= Len(list)
    BY <1>0, <1>3 DEF Done, CacheConstants, Calls
  <2>3. v \in Versions
    <3>1. list[c.i] \in Slots
      BY <2>2
    <3> QED
      BY Zenon, <3>1 DEF CacheInv, Types, SlotStates
  <2>4. e \in Calls /\ d \in Calls
    BY Zenon, <1>0, <2>1, <2>3, Fits
  <2>5. d = [c EXCEPT !.pc = "choose_rank", !.seen = v]
    BY Zenon
  <2>6. /\ d.pc = "choose_rank" /\ d.key = c.key /\ d.class = c.class /\ d.seq = c.seq /\ d.gen = c.gen
        /\ d.best = c.best /\ d.version = c.version /\ d.i = c.i /\ d.seen = v
    BY Zenon, <1>0 DEF Calls
  <2>7. v.owner \in dead \cup {Nobody}
    BY Zenon, <1>3 DEF Stable, owner_gone
  <2> HIDE DEF d, v
  <2>8. Step(p, d) /\ call'[p] = d
    BY Zenon, <1>3, <2>5, Mine
  <2>9. LocalsInv(p)' /\ ReaderInv(p)' /\ WriterInv(p)'
    BY Zenon, <1>0, <2>2, <2>6, <2>7, <2>8 DEF LocalsInv, ReaderInv, WriterInv, Putting, Getting
  <2> QED
    BY Zenon, <2>4, <2>8, <2>9, PrivateStep DEF choose
<1>4. CASE Step(p, Next1(p))
  <2>1. Next1(p) \in Calls /\ call'[p] = Next1(p)
    BY Zenon, <1>4, Mine, NextOne
  <2>2. LocalsInv(p)' /\ ReaderInv(p)' /\ WriterInv(p)'
    BY Zenon, <1>0, <2>1, NextOne DEF LocalsInv, ReaderInv, WriterInv, Putting, Getting
  <2> QED
    BY Zenon, <1>4, <2>1, <2>2, PrivateStep DEF choose
<1> QED
  BY Zenon, <1>1, <1>2, <1>3, <1>4 DEF choose

(* The slot is ranked, and becomes the choice or not.                       *)
LEMMA ChooseRank ==
    ASSUME CacheConstants, CacheInv, NEW p \in Workers, choose_rank(p)
    PROVE  CacheInv'
<1> DEFINE c == call[p]  s == InClass(c.key, c.class)[c.i]
<1>0. /\ c.pc = "choose_rank" /\ c \in Calls /\ LocalsInv(p) /\ dead' = dead
      /\ c.key \in Keys /\ c.class \in Classes
  BY Zenon, Mine DEF choose_rank, At, LocalsInv, Putting, Private, World
<1>1. s \in Slots
  <2>1. InClass(c.key, c.class) \in Seq(Slots)
    BY Zenon, <1>0 DEF CacheConstants
  <2>2. c.i \in Nat \ {0} /\ c.i <= Len(InClass(c.key, c.class))
    BY Zenon, <1>0, Gone DEF LocalsInv
  <2> QED
    BY <2>1, <2>2
<1>2. "choose" \in Putting /\ slot[s].expires \in Nat /\ c.seen \in Versions
  BY Zenon, <1>0, <1>1 DEF Putting, CacheInv, Types, SlotStates, Calls
<1> HIDE DEF s
<1>3. ASSUME NEW r \in Rank(p, s),
             Step(p, [c EXCEPT !.pc = "choose", !.i = @ + 1, !.best = s, !.version = c.seen,
                               !.rank = r, !.expires = slot[s].expires])
      PROVE  CacheInv'
  <2> DEFINE e1 == [c EXCEPT !.pc = "choose"]  e2 == [e1 EXCEPT !.i = c.i + 1]
             e3 == [e2 EXCEPT !.best = s]  e4 == [e3 EXCEPT !.version = c.seen]
             e5 == [e4 EXCEPT !.rank = r]  d == [e5 EXCEPT !.expires = slot[s].expires]
  <2>1. r \in 0..4
    BY <1>1, RankIs
  <2>2. e1 \in Calls
    BY Zenon, <1>0, <1>2, Fits
  <2>3. e2 \in Calls
    BY Zenon, <2>2, Gone, Fits
  <2>4. e3 \in Calls
    BY Zenon, <1>1, <2>3, Fits
  <2>5. e4 \in Calls
    BY Zenon, <1>2, <2>4, Fits
  <2>6. e5 \in Calls
    BY Zenon, <2>1, <2>5, Fits
  <2>7. d \in Calls
    BY Zenon, <1>2, <2>6, Fits
  <2>8. d = [c EXCEPT !.pc = "choose", !.i = @ + 1, !.best = s, !.version = c.seen,
                      !.rank = r, !.expires = slot[s].expires]
    BY Zenon
  <2>9. /\ d.pc = "choose" /\ d.key = c.key /\ d.class = c.class /\ d.seq = c.seq /\ d.gen = c.gen
        /\ d.best = s /\ d.version = c.seen
    BY Zenon, <1>0 DEF Calls
  <2> HIDE DEF d
  <2>10. Step(p, d) /\ call'[p] = d
    BY Zenon, <1>3, <2>8, Mine
  <2>11. LocalsInv(p)' /\ ReaderInv(p)' /\ WriterInv(p)'
    BY Zenon, <1>0, <2>9, <2>10 DEF LocalsInv, ReaderInv, WriterInv, Putting, Getting
  <2> QED
    BY Zenon, <2>7, <2>10, <2>11, PrivateStep DEF choose_rank
<1>4. CASE Step(p, [c EXCEPT !.pc = "choose", !.i = @ + 1])
  <2> DEFINE e == [c EXCEPT !.pc = "choose"]  d == [e EXCEPT !.i = c.i + 1]
  <2>1. e \in Calls /\ d \in Calls
    BY Zenon, <1>0, <1>2, Gone, Fits
  <2>2. d = [c EXCEPT !.pc = "choose", !.i = @ + 1]
    BY Zenon
  <2>3. /\ d.pc = "choose" /\ d.key = c.key /\ d.class = c.class /\ d.seq = c.seq /\ d.gen = c.gen
        /\ d.best = c.best /\ d.version = c.version
    BY Zenon, <1>0 DEF Calls
  <2> HIDE DEF d
  <2>4. Step(p, d) /\ call'[p] = d
    BY Zenon, <1>4, <2>2, Mine
  <2>5. LocalsInv(p)' /\ ReaderInv(p)' /\ WriterInv(p)'
    BY Zenon, <1>0, <2>3, <2>4 DEF LocalsInv, ReaderInv, WriterInv, Putting, Getting
  <2> QED
    BY Zenon, <2>1, <2>4, <2>5, PrivateStep DEF choose_rank
<1> QED
  BY Zenon, <1>3, <1>4 DEF choose_rank, s

(* The copy to be replaced is read, and is of a request if nothing moved.   *)
LEMMA Evict ==
    ASSUME CacheConstants, CacheInv, NEW p \in Workers, evict(p)
    PROVE  CacheInv'
<1> DEFINE c == call[p]  s == slot[c.best]
<1>0. /\ c.pc = "evict" /\ c \in Calls /\ LocalsInv(p) /\ dead' = dead
      /\ "claim" \in Putting /\ "raise" \in Putting
  BY Zenon, Mine DEF evict, At, Putting, Private, World
<1>1. CASE Return(p)
  BY Zenon, <1>1, ReturnStep DEF evict
<1>2. CASE Goto(p, "claim")
  <2>1. /\ call'[p] \in Calls /\ Step(p, call'[p])
        /\ call'[p].pc = "claim" /\ Alike(call'[p], c)
    BY Zenon, <1>0, <1>2, GotoIs
  <2>2. LocalsInv(p)' /\ ReaderInv(p)' /\ WriterInv(p)'
    BY Zenon, <1>0, <2>1 DEF LocalsInv, ReaderInv, WriterInv, Putting, Getting, Alike
  <2> QED
    BY Zenon, <2>1, <2>2, PrivateStep DEF evict
<1>3. CASE /\ Stable(c.version) /\ s.version = c.version /\ s.generation = c.gen
           /\ Step(p, [c EXCEPT !.pc = "raise", !.evicted = [key |-> s.key, sequence |-> s.sequence]])
  <2> DEFINE x == [key |-> s.key, sequence |-> s.sequence]
             e == [c EXCEPT !.pc = "raise"]  d == [e EXCEPT !.evicted = x]
  <2>1. c.best \in Slots /\ c.gen > 0 /\ c.gen \in Nat
    BY <1>0 DEF LocalsInv, Calls, Putting
  <2>2. s \in SlotStates
    BY Zenon, <2>1 DEF CacheInv, Types
  <2>3. s.key \in Keys /\ s.sequence > 0
    <3>1. s.generation # 0 /\ Stable(s.version)
      BY <1>3, <2>1
    <3> QED
      BY Zenon, <2>1, <3>1 DEF CacheInv, StableIsOfRequest
  <2>4. x \in [key : Keys \cup {None}, sequence : Numbers] /\ x.key \in Keys /\ x.sequence > 0
    BY Zenon, <2>2, <2>3 DEF SlotStates
  <2>5. d = [c EXCEPT !.pc = "raise", !.evicted = [key |-> s.key, sequence |-> s.sequence]]
    BY Zenon
  <2> HIDE DEF x
  <2>6. e \in Calls /\ d \in Calls
    BY Zenon, <1>0, <2>4, Fits
  <2>7. /\ d.pc = "raise" /\ d.key = c.key /\ d.class = c.class /\ d.seq = c.seq /\ d.gen = c.gen
        /\ d.best = c.best /\ d.version = c.version /\ d.evicted = x
    BY Zenon, <1>0 DEF Calls
  <2> HIDE DEF d
  <2>8. Step(p, d) /\ call'[p] = d
    BY Zenon, <1>3, <2>5, Mine
  <2>9. LocalsInv(p)' /\ ReaderInv(p)' /\ WriterInv(p)'
    BY Zenon, <1>0, <2>4, <2>7, <2>8 DEF LocalsInv, ReaderInv, WriterInv, Putting, Getting
  <2> QED
    BY Zenon, <2>6, <2>8, <2>9, PrivateStep DEF evict
<1> QED
  BY Zenon, <1>1, <1>2, <1>3 DEF evict

(* The last look at the mark.                                               *)
LEMMA PutResult ==
    ASSUME CacheConstants, CacheInv, NEW p \in Workers, put_result(p)
    PROVE  CacheInv'
<1> DEFINE c == call[p]  b == c.seq > marks[MarkOf[c.key]]
           e == [c EXCEPT !.pc = "put_done"]  d == [e EXCEPT !.ok = b]
<1>1. /\ c.pc = "put_result" /\ c \in Calls /\ LocalsInv(p) /\ "put_done" \in Putting
      /\ Step(p, [c EXCEPT !.pc = "put_done", !.ok = b])
  BY Zenon, Mine DEF put_result, At, Putting
<1>2. d = [c EXCEPT !.pc = "put_done", !.ok = b]
  BY Zenon
<1>3. e \in Calls
  BY Zenon, <1>1, Fits
<1>8. b \in BOOLEAN
  OBVIOUS
<1> HIDE DEF b
<1>4. d \in Calls
  BY Zenon, <1>3, <1>8, Fits
<1>5. d.pc = "put_done" /\ d.key = c.key /\ d.class = c.class /\ d.seq = c.seq /\ d.gen = c.gen
  BY Zenon, <1>1 DEF Calls
<1> HIDE DEF d
<1>6. Step(p, d) /\ call'[p] = d
  BY Zenon, <1>1, <1>2, Mine
<1>7. LocalsInv(p)' /\ ReaderInv(p)' /\ WriterInv(p)'
  BY Zenon, <1>1, <1>5, <1>6 DEF LocalsInv, ReaderInv, WriterInv, Putting, Getting
<1> QED
  BY Zenon, <1>4, <1>6, <1>7, PrivateStep DEF put_result

(* The caller has its result.                                               *)
LEMMA Returned ==
    ASSUME CacheConstants, CacheInv, NEW p \in Workers, returned(p)
    PROVE  CacheInv'
  BY Zenon, ReturnStep DEF returned

(* The lookup visits a slot: what it picks is as it was while the version   *)
(* is.                                                                      *)
LEMMA Lookup ==
    ASSUME CacheConstants, CacheInv, NEW p \in Workers, lookup(p)
    PROVE  CacheInv'
<1> DEFINE c == call[p]  list == Probes[c.key]  s == list[c.i]
<1>0. /\ c.pc = "lookup" /\ c \in Calls /\ LocalsInv(p) /\ ReaderInv(p)
      /\ slot' = slot /\ changed' = changed /\ "copy_out" \in Getting
  BY Zenon, Mine DEF lookup, At, Getting, Private, World, Table
<1>1. CASE Return(p)
  BY Zenon, <1>1, ReturnStep DEF lookup
<1>2. CASE c.best # None /\ Goto(p, "copy_out")
  <2>1. /\ call'[p] \in Calls /\ Step(p, call'[p])
        /\ call'[p].pc = "copy_out" /\ Alike(call'[p], c)
    BY Zenon, <1>0, <1>2, GotoIs
  <2>2. LocalsInv(p)' /\ ReaderInv(p)' /\ WriterInv(p)'
    BY Zenon, <1>0, <1>2, <2>1 DEF LocalsInv, ReaderInv, WriterInv, Putting, Getting, Alike
  <2> QED
    BY Zenon, <2>1, <2>2, PrivateStep DEF lookup
<1>3. CASE /\ ~Done(p, list) /\ Stable(slot[s].version) /\ holds(s, c.key, c.gen)
           /\ Step(p, [Next1(p) EXCEPT !.best = s, !.version = slot[s].version, !.bestSeq = slot[s].sequence])
  <2> DEFINE v == slot[s].version  n == slot[s].sequence  e1 == [Next1(p) EXCEPT !.best = s]
             e2 == [e1 EXCEPT !.version = v]  d == [e2 EXCEPT !.bestSeq = n]
  <2>1. s \in Slots
    <3>1. c.key \in Keys
      BY Zenon, <1>0, Gone DEF Getting
    <3>2. list \in Seq(Slots) /\ c.i \in Nat \ {0}
      BY Zenon, <3>1, Gone DEF CacheConstants
    <3>3. Len(list) \in Nat /\ ~(c.i > Len(list))
      <4>1. ~(c.i > Len(list))
        BY Zenon, <1>3 DEF Done
      <4> QED
        BY <3>2, <4>1
    <3>4. c.i <= Len(list)
      BY <3>2, <3>3
    <3> QED
      BY <3>2, <3>4
  <2> HIDE DEF s
  <2>2. v \in Versions /\ n \in Numbers /\ v.count \in Nat
    BY Zenon, <2>1 DEF CacheInv, Types, SlotStates, Versions
  <2>3. Next1(p) \in Calls
    BY Zenon, NextOne
  <2>4. e1 \in Calls
    BY Zenon, <2>1, <2>3, Fits
  <2>5. e2 \in Calls
    BY Zenon, <2>2, <2>4, Fits
  <2>6. d \in Calls
    BY Zenon, <2>2, <2>5, Fits
  <2>7. d = [Next1(p) EXCEPT !.best = s, !.version = slot[s].version, !.bestSeq = slot[s].sequence]
    BY Zenon
  <2>8. /\ d.pc = Next1(p).pc /\ d.key = Next1(p).key /\ d.gen = Next1(p).gen /\ d.since = Next1(p).since
        /\ d.best = s /\ d.version = v /\ d.bestSeq = n
    BY Zenon, <2>3 DEF Calls
  <2>9. d.pc = "lookup" /\ d.key = c.key /\ d.gen = c.gen /\ d.since = c.since
    BY Zenon, <1>0, <2>8, NextOne
  <2> HIDE DEF d
  <2>10. Step(p, d) /\ call'[p] = d
    BY Zenon, <1>3, <2>7, Mine
  <2>11. /\ Stable(v) /\ slot'[s].version = v /\ slot'[s].version.count >= v.count
         /\ slot'[s].sequence = n /\ slot'[s].key = c.key /\ slot'[s].generation = c.gen
    BY <1>0, <1>3, <2>2 DEF holds
  <2> HIDE DEF v, n
  <2>12. LocalsInv(p)' /\ ReaderInv(p)' /\ WriterInv(p)'
    BY Zenon, <1>0, <2>8, <2>9, <2>10, <2>11 DEF LocalsInv, ReaderInv, WriterInv, Putting, Getting
  <2> QED
    BY Zenon, <2>6, <2>10, <2>12, PrivateStep DEF lookup
<1>4. CASE Step(p, Next1(p))
  <2>1. Next1(p) \in Calls /\ call'[p] = Next1(p)
    BY ZenonT(60), <1>4, Mine, NextOne
  <2>2. LocalsInv(p)' /\ ReaderInv(p)' /\ WriterInv(p)'
    BY <1>0, <2>1, NextOne DEF LocalsInv, ReaderInv, WriterInv, Putting, Getting
  <2> QED
    BY ZenonT(30), <1>4, <2>1, <2>2, PrivateStep DEF lookup
<1> QED
  BY Zenon, <1>1, <1>2, <1>3, <1>4 DEF lookup

(* The copy: it is of the picked response if the version is still the one   *)
(* that was seen.                                                           *)
LEMMA CopyOut ==
    ASSUME CacheConstants, CacheInv, NEW p \in Workers, copy_out(p)
    PROVE  CacheInv'
<1> DEFINE c == call[p]  s == slot[c.best]
<1>0. /\ c.pc = "copy_out" /\ c \in Calls /\ LocalsInv(p) /\ ReaderInv(p)
      /\ slot' = slot /\ changed' = changed /\ "confirm" \in Getting
  BY Zenon, Mine DEF copy_out, At, Getting, Private, World, Table
<1>1. CASE Return(p)
  BY Zenon, <1>1, ReturnStep DEF copy_out
<1>2. CASE Step(p, [c EXCEPT !.pc = "confirm", !.got = s.data])
  <2> DEFINE x == s.data  e == [c EXCEPT !.pc = "confirm"]  d == [e EXCEPT !.got = x]
  <2>1. c.best \in Slots /\ c.gen > 0 /\ c.gen \in Nat
    BY <1>0 DEF LocalsInv, Calls, Getting
  <2>2. s \in SlotStates
    BY Zenon, <2>1 DEF CacheInv, Types
  <2>3. x \in Copies
    BY Zenon, <2>2 DEF SlotStates
  <2>4. ASSUME s.version = c.version PROVE x = Picked(p)
    <3>1. Stable(s.version) /\ s.generation = c.gen /\ s.key = c.key /\ s.sequence = c.bestSeq
      BY Zenon, <1>0, <2>4 DEF ReaderInv, LocalsInv
    <3>2. s.generation # 0
      BY <2>1, <3>1
    <3>3. x = [key |-> s.key, sequence |-> s.sequence]
      BY Zenon, <2>1, <3>1, <3>2 DEF CacheInv, StableIsWhole
    <3> QED
      BY Zenon, <3>1, <3>3 DEF Picked
  <2>5. d = [c EXCEPT !.pc = "confirm", !.got = s.data]
    BY Zenon
  <2> HIDE DEF x
  <2>6. e \in Calls /\ d \in Calls
    BY Zenon, <1>0, <2>3, Fits
  <2>7. /\ d.pc = "confirm" /\ d.key = c.key /\ d.gen = c.gen /\ d.best = c.best /\ d.version = c.version
        /\ d.bestSeq = c.bestSeq /\ d.since = c.since /\ d.got = x
    BY Zenon, <1>0 DEF Calls
  <2> HIDE DEF d
  <2>8. Step(p, d) /\ call'[p] = d
    BY Zenon, <1>2, <2>5, Mine
  <2>9. Picked(p)' = Picked(p)
    BY Zenon, <2>7, <2>8 DEF Picked
  <2>10. LocalsInv(p)' /\ ReaderInv(p)' /\ WriterInv(p)'
    BY Zenon, <1>0, <2>4, <2>7, <2>8, <2>9 DEF LocalsInv, ReaderInv, WriterInv, Putting, Getting
  <2> QED
    BY ZenonT(60), <2>6, <2>8, <2>10, PrivateStep DEF copy_out
<1> QED
  BY Zenon, <1>1, <1>2 DEF copy_out

(* The version is looked at again: what was copied is the picked response.  *)
LEMMA Confirm ==
    ASSUME CacheConstants, CacheInv, NEW p \in Workers, confirm(p)
    PROVE  CacheInv'
<1> DEFINE c == call[p]
<1>0. /\ c.pc = "confirm" /\ LocalsInv(p) /\ ReaderInv(p)
      /\ slot' = slot /\ changed' = changed /\ "check_mark" \in Getting
  BY Zenon, Mine DEF confirm, At, Getting, Private, World, Table
<1>1. CASE Return(p)
  BY Zenon, <1>1, ReturnStep DEF confirm
<1>2. CASE slot[c.best].version = c.version /\ Goto(p, "check_mark")
  <2>1. /\ call'[p] \in Calls /\ Step(p, call'[p])
        /\ call'[p].pc = "check_mark" /\ Alike(call'[p], c)
    BY Zenon, <1>0, <1>2, GotoIs
  <2>2. Picked(p)' = Picked(p) /\ c.got = Picked(p)
    BY Zenon, <1>0, <1>2, <2>1 DEF Picked, Alike, ReaderInv
  <2>3. LocalsInv(p)' /\ ReaderInv(p)' /\ WriterInv(p)'
    BY Zenon, <1>0, <2>1, <2>2 DEF LocalsInv, ReaderInv, WriterInv, Putting, Getting, Alike
  <2> QED
    BY Zenon, <2>1, <2>3, PrivateStep DEF confirm
<1> QED
  BY Zenon, <1>1, <1>2 DEF confirm

(* The mark: a hit is above it, and so after every change that was complete *)
(* before.                                                                  *)
LEMMA CheckMark ==
    ASSUME CacheConstants, CacheInv, NEW p \in Workers, check_mark(p)
    PROVE  CacheInv'
<1> DEFINE c == call[p]
<1>0. /\ c.pc = "check_mark" /\ c \in Calls /\ LocalsInv(p) /\ ReaderInv(p)
      /\ slot' = slot /\ changed' = changed /\ "hit" \in Getting
  BY Zenon, Mine DEF check_mark, At, Getting, Private, World, Table
<1>1. CASE Return(p)
  BY Zenon, <1>1, ReturnStep DEF check_mark
<1>2. CASE ~(c.bestSeq <= marks[MarkOf[c.key]]) /\ Goto(p, "hit")
  <2>1. /\ call'[p] \in Calls /\ Step(p, call'[p])
        /\ call'[p].pc = "hit" /\ Alike(call'[p], c)
    BY Zenon, <1>0, <1>2, GotoIs
  <2>2. Picked(p)' = Picked(p) /\ c.got = Picked(p)
    BY Zenon, <1>0, <2>1 DEF Picked, Alike, ReaderInv
  <2>3. c.bestSeq > c.since
    <3>1. c.key \in Keys /\ c.since <= changed[c.key]
      BY Zenon, <1>0, Gone DEF ReaderInv, Getting
    <3>2. changed[c.key] <= marks[MarkOf[c.key]] /\ MarkOf[c.key] \in Marks
      BY ZenonT(60), <3>1 DEF CacheInv, ChangeIsMarked, CacheConstants
    <3>3. marks[MarkOf[c.key]] \in Nat /\ changed[c.key] \in Nat /\ c.since \in Nat /\ c.bestSeq \in Nat
      BY <1>0, <3>1, <3>2 DEF CacheInv, Types, Calls, Numbers
    <3> QED
      BY <1>2, <3>1, <3>2, <3>3
  <2>4. LocalsInv(p)' /\ ReaderInv(p)' /\ WriterInv(p)'
    BY Zenon, <1>0, <2>1, <2>2, <2>3 DEF LocalsInv, ReaderInv, WriterInv, Putting, Getting, Alike
  <2> QED
    BY Zenon, <2>1, <2>4, PrivateStep DEF check_mark
<1> QED
  BY Zenon, <1>1, <1>2 DEF check_mark

(* A lookup begins.                                                         *)
LEMMA Get ==
    ASSUME CacheConstants, CacheInv, NEW p \in Workers, NEW k \in Keys, get(p, k)
    PROVE  CacheInv'
<1> DEFINE e1 == [IdleCall EXCEPT !.pc = "lookup"]  e2 == [e1 EXCEPT !.key = k]
           e3 == [e2 EXCEPT !.gen = generation]  e4 == [e3 EXCEPT !.time = now]
           e5 == [e4 EXCEPT !.floor = newest[k]]  d == [e5 EXCEPT !.since = changed[k]]
<1>1. /\ generation \in 0..MaxGeneration /\ generation > 0 /\ now \in Nat /\ newest[k] \in Nat
      /\ changed[k] \in Nat /\ changed' = changed /\ "lookup" \in Getting
  BY DEF CacheInv, Types, get, Private, World, Getting
<1>2. IdleCall \in Calls
  BY Zenon, IdleFits
<1>3. e1 \in Calls /\ e2 \in Calls
  BY Zenon, <1>1, <1>2, BeginsFit
<1>4. e3 \in Calls /\ e4 \in Calls
  BY Zenon, <1>1, <1>3, BeginsFit
<1>5. e5 \in Calls /\ d \in Calls
  BY Zenon, <1>1, <1>4, BeginsFit
<1>6. d.pc = "lookup" /\ d.key = k /\ d.gen = generation /\ d.best = IdleCall.best /\ d.since = changed[k]
  BY Zenon, <1>2 DEF Calls
<1>7. d = [IdleCall EXCEPT !.pc = "lookup", !.key = k, !.gen = generation, !.time = now,
                           !.floor = newest[k], !.since = changed[k]]
  BY Zenon
<1>8. IdleCall.best = None
  BY Zenon DEF IdleCall
<1> HIDE DEF d
<1>9. Step(p, d) /\ call'[p] = d
  BY ZenonT(60), <1>7, Mine DEF get
<1>10. LocalsInv(p)' /\ ReaderInv(p)' /\ WriterInv(p)'
  BY <1>1, <1>6, <1>8, <1>9 DEF LocalsInv, ReaderInv, WriterInv, Putting, Getting
<1> QED
  BY Zenon, <1>5, <1>9, <1>10, PrivateStep DEF get

(* Steps that change one slot.                                              *)
LEMMA WriteStep ==
    ASSUME CacheConstants, CacheInv, NEW p \in Workers, NEW d \in Calls, Step(p, d),
           NEW s \in Slots, NEW t \in SlotStates, slot' = [slot EXCEPT ![s] = t], SlotMoves(p, s),
           Stable(t.version) /\ t.generation # 0 =>
               t.data = [key |-> t.key, sequence |-> t.sequence] /\ t.key \in Keys /\ t.sequence > 0,
           UNCHANGED <<generation, sequence, marks, now, dead, open, changed>>, newest' \in [Keys -> Nat],
           LocalsInv(p)', ReaderInv(p)', WriterInv(p)'
    PROVE  CacheInv'
<1>1. Types'
  BY Zenon DEF Step, CacheInv, Types
<1>2. \A r \in Slots : r # s => slot'[r] = slot[r]
  BY Zenon DEF CacheInv, Types
<1>3. slot'[s] = t
  BY Zenon DEF CacheInv, Types
<1>4. StepOf(p)
  <2>1. \A k \in Keys : changed[k] <= changed'[k]
    BY DEF CacheInv, Types
  <2>2. \A q \in Workers : q # p => call'[q] = call[q]
    BY Zenon DEF Step, CacheInv, Types
  <2>3. \A r \in Slots : SlotMoves(p, r)
    BY Zenon, <1>2 DEF SlotMoves
  <2> QED
    BY ZenonT(60), <2>1, <2>2, <2>3 DEF StepOf
<1>5. StableIsWhole' /\ StableIsOfRequest' /\ ChangeIsMarked'
  BY Zenon, <1>2, <1>3 DEF CacheInv, StableIsWhole, StableIsOfRequest, ChangeIsMarked
<1> QED
  BY Zenon, <1>1, <1>4, <1>5, Assemble

(* Steps that change no slot.                                               *)
LEMMA StillStep ==
    ASSUME CacheConstants, CacheInv, Types', NEW p \in Workers, slot' = slot, dead' = dead,
           \A q \in Workers : q # p => call'[q] = call[q],
           \A k \in Keys : changed[k] <= changed'[k], ChangeIsMarked',
           LocalsInv(p)', ReaderInv(p)', WriterInv(p)'
    PROVE  CacheInv'
<1>1. StepOf(p)
  BY Zenon DEF StepOf, SlotMoves
<1>2. StableIsWhole' /\ StableIsOfRequest'
  BY Zenon DEF CacheInv, StableIsWhole, StableIsOfRequest
<1> QED
  BY Zenon, <1>1, <1>2, Assemble

(* The claim of the chosen slot, from a stable version or from one whose    *)
(* owner is gone.                                                           *)
LEMMA Claim ==
    ASSUME CacheConstants, CacheInv, NEW p \in Workers, claim(p)
    PROVE  CacheInv'
<1> DEFINE c == call[p]  s == slot[c.best]  w == claim_word(c.version, p)  t == [s EXCEPT !.version = w]
<1>0. /\ c.pc = "claim" /\ c \in Calls /\ LocalsInv(p) /\ "fields" \in Putting
      /\ UNCHANGED <<generation, sequence, marks, now, dead, open, newest, changed>>
  BY Zenon, Mine DEF claim, At, Putting, World
<1>1. CASE Return(p) /\ UNCHANGED slot
  BY Zenon, <1>0, <1>1, ReturnStep DEF Private, Table, World
<1>2. CASE s.version = c.version /\ slot' = [slot EXCEPT ![c.best].version = w] /\ Goto(p, "fields")
  <2>1. c.best \in Slots /\ c.version \in Versions /\ c.version.owner \in dead \cup {Nobody}
    BY Zenon, <1>0 DEF LocalsInv, Calls
  <2>2. s \in SlotStates /\ slot \in [Slots -> SlotStates] /\ newest \in [Keys -> Nat]
    BY Zenon, <2>1 DEF CacheInv, Types
  <2>3. w \in Versions /\ w.owner = p
    BY Zenon, <2>1 DEF Versions, claim_word
  <2> HIDE DEF w
  <2>4. t \in SlotStates /\ t.version = w
    BY Zenon, <2>2, <2>3 DEF SlotStates
  <2>5. slot' = [slot EXCEPT ![c.best] = t] /\ slot'[c.best] = t
    BY Zenon, <1>2, <2>1, <2>2
  <2> HIDE DEF t
  <2>6. SlotMoves(p, c.best)
    BY Zenon, <1>2, <2>1, <2>4, <2>5 DEF SlotMoves, w
  <2>7. ~Stable(t.version)
    BY Zenon, <2>3, <2>4 DEF Stable, CacheConstants
  <2>8. /\ call'[p] \in Calls /\ Step(p, call'[p])
        /\ call'[p].pc = "fields" /\ Alike(call'[p], c)
    BY Zenon, <1>0, <1>2, GotoIs
  <2>9. slot'[call'[p].best].version = claim_word(call'[p].version, p)
    BY Zenon, <2>4, <2>5, <2>8 DEF Alike, w
  <2>10. LocalsInv(p)' /\ ReaderInv(p)' /\ WriterInv(p)'
    BY Zenon, <1>0, <2>8, <2>9 DEF LocalsInv, ReaderInv, WriterInv, Putting, Getting, Alike
  <2> QED
    BY Zenon, <1>0, <2>1, <2>2, <2>4, <2>5, <2>6, <2>7, <2>8, <2>10, WriteStep
<1> QED
  BY Zenon, <1>1, <1>2 DEF claim

(* The description is written into the claimed slot.                        *)
LEMMA FieldsStep ==
    ASSUME CacheConstants, CacheInv, NEW p \in Workers, NEW ttl \in Nat, fields(p, ttl)
    PROVE  CacheInv'
<1> DEFINE c == call[p]  s == slot[c.best]
           t1 == [s EXCEPT !.key = c.key]  t2 == [t1 EXCEPT !.generation = c.gen]
           t3 == [t2 EXCEPT !.sequence = c.seq]  t == [t3 EXCEPT !.expires = c.time + ttl]
<1>0. /\ c.pc = "fields" /\ c \in Calls /\ LocalsInv(p) /\ WriterInv(p) /\ "body" \in Putting
      /\ UNCHANGED <<generation, sequence, marks, now, dead, open, newest, changed>>
      /\ Goto(p, "body")
  BY ZenonT(60), Mine DEF fields, At, Putting, World
<1>1. /\ c.best \in Slots /\ c.version \in Versions /\ c.key \in Keys \cup {None} /\ c.gen \in 0..MaxGeneration
      /\ c.seq \in Numbers /\ c.time + ttl \in Nat
  BY <1>0 DEF LocalsInv, Calls
<1>2. s \in SlotStates /\ slot \in [Slots -> SlotStates] /\ newest \in [Keys -> Nat]
  BY Zenon, <1>1 DEF CacheInv, Types
<1>3. t1 \in SlotStates
  BY Zenon, <1>1, <1>2 DEF SlotStates
<1>4. t2 \in SlotStates
  BY Zenon, <1>1, <1>3 DEF SlotStates
<1>5. t3 \in SlotStates
  BY Zenon, <1>1, <1>4 DEF SlotStates
<1>6. t \in SlotStates
  BY Zenon, <1>1, <1>5 DEF SlotStates
<1>7. t.version = s.version /\ t.key = c.key /\ t.generation = c.gen /\ t.sequence = c.seq
  BY Zenon, <1>2 DEF SlotStates
<1>8. slot' = [slot EXCEPT ![c.best] = t] /\ slot'[c.best] = t
  BY Zenon, <1>1, <1>2 DEF fields
<1> HIDE DEF t
<1>9. s.version = claim_word(c.version, p) /\ s.version.owner = p /\ claim_word(s.version, p) = s.version
  <2>1. s.version = claim_word(c.version, p)
    BY Zenon, <1>0 DEF WriterInv
  <2> QED
    BY Zenon, <1>1, <2>1 DEF claim_word, Versions
<1>10. SlotMoves(p, c.best)
  BY Zenon, <1>7, <1>8, <1>9 DEF SlotMoves
<1>11. ~Stable(t.version)
  BY Zenon, <1>7, <1>9 DEF Stable, CacheConstants
<1>12. /\ call'[p] \in Calls /\ Step(p, call'[p])
       /\ call'[p].pc = "body" /\ Alike(call'[p], c)
  BY Zenon, <1>0, GotoIs
<1>13. LocalsInv(p)' /\ ReaderInv(p)' /\ WriterInv(p)'
  BY ZenonT(60), <1>0, <1>7, <1>8, <1>9, <1>12 DEF LocalsInv, ReaderInv, WriterInv, Putting, Getting, Alike
<1> QED
  BY Zenon, <1>0, <1>1, <1>2, <1>6, <1>8, <1>10, <1>11, <1>12, <1>13, WriteStep

(* Head and body are written into the claimed slot.                         *)
LEMMA BodyStep ==
    ASSUME CacheConstants, CacheInv, NEW p \in Workers, body(p)
    PROVE  CacheInv'
<1> DEFINE c == call[p]  s == slot[c.best]  t == [s EXCEPT !.data = Own(p)]
<1>0. /\ c.pc = "body" /\ c \in Calls /\ LocalsInv(p) /\ WriterInv(p) /\ "publish" \in Putting
      /\ UNCHANGED <<generation, sequence, marks, now, dead, open, newest, changed>>
      /\ Goto(p, "publish")
  BY ZenonT(60), Mine DEF body, At, Putting, World
<1>1. c.best \in Slots /\ c.version \in Versions /\ Own(p) \in Copies
  BY <1>0 DEF LocalsInv, Calls, Own, Copies, Numbers
<1>2. s \in SlotStates /\ slot \in [Slots -> SlotStates] /\ newest \in [Keys -> Nat]
  BY Zenon, <1>1 DEF CacheInv, Types
<1>3. t \in SlotStates
  BY Zenon, <1>1, <1>2 DEF SlotStates
<1>4. /\ t.version = s.version /\ t.key = s.key /\ t.generation = s.generation /\ t.sequence = s.sequence
      /\ t.data = Own(p)
  BY Zenon, <1>2 DEF SlotStates
<1>5. slot' = [slot EXCEPT ![c.best] = t] /\ slot'[c.best] = t
  BY Zenon, <1>1, <1>2 DEF body, Own
<1> HIDE DEF t
<1>6. s.version = claim_word(c.version, p) /\ s.version.owner = p /\ claim_word(s.version, p) = s.version
  <2>1. s.version = claim_word(c.version, p)
    BY Zenon, <1>0 DEF WriterInv
  <2> QED
    BY Zenon, <1>1, <2>1 DEF claim_word, Versions
<1>7. SlotMoves(p, c.best)
  BY Zenon, <1>4, <1>5, <1>6 DEF SlotMoves
<1>8. ~Stable(t.version)
  BY Zenon, <1>4, <1>6 DEF Stable, CacheConstants
<1>9. /\ call'[p] \in Calls /\ Step(p, call'[p])
      /\ call'[p].pc = "publish" /\ Alike(call'[p], c)
  BY Zenon, <1>0, GotoIs
<1>10. Own(p)' = Own(p)
  BY ZenonT(60), <1>9 DEF Own, Alike
<1>11. LocalsInv(p)' /\ ReaderInv(p)' /\ WriterInv(p)'
  BY <1>0, <1>4, <1>5, <1>6, <1>9, <1>10 DEF LocalsInv, ReaderInv, WriterInv, Putting, Getting, Alike
<1> QED
  BY Zenon, <1>0, <1>1, <1>2, <1>3, <1>5, <1>7, <1>8, <1>9, <1>11, WriteStep

(* The publishing compare-and-swap of a living process succeeds, and the    *)
(* slot holds one whole response.                                           *)
LEMMA Publish ==
    ASSUME CacheConstants, CacheInv, NEW p \in Workers, publish(p)
    PROVE  CacheInv'
<1> DEFINE c == call[p]  s == slot[c.best]  w == publish_word(s.version)  t == [s EXCEPT !.version = w]
<1>0. /\ c.pc = "publish" /\ c \in Calls /\ LocalsInv(p) /\ WriterInv(p) /\ "retire" \in Putting
      /\ UNCHANGED <<generation, sequence, marks, now, dead, open, changed>>
  BY ZenonT(60), Mine DEF publish, At, Putting
<1>1. /\ c.best \in Slots /\ c.version \in Versions /\ c.key \in Keys /\ c.gen > 0 /\ c.seq > 0
      /\ c.seq \in Nat /\ c.gen \in Nat
  BY <1>0 DEF LocalsInv, Calls, Putting, Numbers
<1>2. s \in SlotStates /\ slot \in [Slots -> SlotStates] /\ newest \in [Keys -> Nat] /\ s.version \in Versions
  BY Zenon, <1>1 DEF CacheInv, Types, SlotStates
<1>3. s.version = claim_word(c.version, p) /\ s.version.owner = p
  <2>1. s.version = claim_word(c.version, p)
    BY Zenon, <1>0 DEF WriterInv
  <2> QED
    BY Zenon, <1>1, <2>1 DEF claim_word, Versions
<1>4. /\ slot' = [slot EXCEPT ![c.best].version = w] /\ Goto(p, "retire")
      /\ newest' = [newest EXCEPT ![c.key] = IF c.gen = generation THEN Max({@, c.seq}) ELSE @]
  BY Zenon, <1>3 DEF publish
<1>5. newest' \in [Keys -> Nat]
  <2>1. newest[c.key] \in Nat
    BY Zenon, <1>1, <1>2
  <2>2. Max({newest[c.key], c.seq}) \in Nat
    BY ZenonT(60), <1>1, <2>1, MaxIs
  <2> QED
    BY Zenon, <1>2, <1>4, <2>1, <2>2
<1>6. w \in Versions
  BY <1>2 DEF publish_word, Versions
<1> HIDE DEF w
<1>7. t \in SlotStates /\ t.version = w /\ t.data = s.data /\ t.key = s.key /\ t.sequence = s.sequence
  BY Zenon, <1>2, <1>6 DEF SlotStates
<1>8. slot' = [slot EXCEPT ![c.best] = t] /\ slot'[c.best] = t
  BY Zenon, <1>1, <1>2, <1>4
<1> HIDE DEF t
<1>9. SlotMoves(p, c.best)
  BY Zenon, <1>3, <1>7, <1>8 DEF SlotMoves, w
<1>10. t.data = [key |-> t.key, sequence |-> t.sequence] /\ t.key \in Keys /\ t.sequence > 0
  BY Zenon, <1>0, <1>1, <1>7 DEF WriterInv, Own
<1>11. /\ call'[p] \in Calls /\ Step(p, call'[p])
       /\ call'[p].pc = "retire" /\ Alike(call'[p], c)
  BY Zenon, <1>0, <1>4, GotoIs
<1>12. LocalsInv(p)' /\ ReaderInv(p)' /\ WriterInv(p)'
  BY Zenon, <1>0, <1>11 DEF LocalsInv, ReaderInv, WriterInv, Putting, Getting, Alike
<1> QED
  BY Zenon, <1>0, <1>1, <1>5, <1>7, <1>8, <1>9, <1>10, <1>11, <1>12, WriteStep

(* The scan of retire_older, of the own key and of the evicted one; it      *)
(* claims from a stable version.                                            *)
LEMMA RetireOlder ==
    ASSUME CacheConstants, CacheInv, NEW p \in Workers, NEW from, NEW clear, NEW to, NEW e,
           \/ from = "retire" /\ clear = "clear" /\ to = "retire_evicted" /\ e = Own(p)
           \/ from = "retire_evicted" /\ clear = "clear_evicted" /\ to = "put_result" /\ e = call[p].evicted,
           retire_older(p, from, clear, to, e)
    PROVE  CacheInv'
<1> DEFINE c == call[p]
<1>0. /\ c.pc = from /\ c \in Calls /\ LocalsInv(p) /\ to \in Putting /\ clear \in Putting /\ from \in Putting
      /\ UNCHANGED <<generation, sequence, marks, now, dead, open, newest, changed>>
  BY Zenon, Mine DEF retire_older, At, Putting, World
<1>a. e.key \in Keys \cup {None}
  <2>1. CASE e = Own(p)
    BY Zenon, <1>0, <2>1, Gone DEF Own
  <2>2. CASE e = c.evicted
    BY Zenon, <1>0, <2>2 DEF Calls
  <2> QED
    BY Zenon, <2>1, <2>2
<1>1. CASE Step(p, [c EXCEPT !.pc = to, !.i = 1]) /\ UNCHANGED slot
  <2> DEFINE e1 == [c EXCEPT !.pc = to]  d == [e1 EXCEPT !.i = 1]
  <2>1. e1 \in Calls /\ d \in Calls
    BY Zenon, <1>0, Gone, Fits
  <2>2. d = [c EXCEPT !.pc = to, !.i = 1]
    BY Zenon
  <2>3. d.pc = to /\ d.key = c.key /\ d.class = c.class /\ d.seq = c.seq /\ d.gen = c.gen
    BY Zenon, <1>0 DEF Calls
  <2> HIDE DEF d
  <2>4. Step(p, d) /\ call'[p] = d
    BY Zenon, <1>1, <2>2, Mine
  <2>5. LocalsInv(p)' /\ ReaderInv(p)' /\ WriterInv(p)'
    BY Zenon, <1>0, <2>3, <2>4 DEF LocalsInv, ReaderInv, WriterInv, Putting, Getting
  <2> QED
    BY Zenon, <1>0, <1>1, <2>1, <2>4, <2>5, PrivateStep DEF Private, Table, World
<1>2. CASE Step(p, Next1(p)) /\ UNCHANGED slot
  <2>1. Next1(p) \in Calls /\ call'[p] = Next1(p)
    BY Zenon, <1>2, Mine, NextOne
  <2>2. LocalsInv(p)' /\ ReaderInv(p)' /\ WriterInv(p)'
    BY ZenonT(60), <1>0, <2>1, NextOne DEF LocalsInv, ReaderInv, WriterInv, Putting, Getting
  <2> QED
    BY Zenon, <1>0, <1>2, <2>1, <2>2, PrivateStep DEF Private, Table, World
<1>3. ASSUME NEW s, s = Probes[e.key][c.i], ~RetireDone(p, e), Retires(p, s, e),
             slot' = [slot EXCEPT ![s].version = claim_word(@, p)], Goto(p, clear)
      PROVE  CacheInv'
  <2> DEFINE w == claim_word(slot[s].version, p)  t == [slot[s] EXCEPT !.version = w]
  <2>1. e.key \in Keys /\ ~Done(p, Probes[e.key])
    BY Zenon, <1>a, <1>3 DEF RetireDone
  <2>2. Probes[e.key] \in Seq(Slots) /\ c.i \in Nat \ {0} /\ Len(Probes[e.key]) \in Nat
    <3>1. Probes[e.key] \in Seq(Slots)
      BY Zenon, <2>1 DEF CacheConstants
    <3> QED
      BY <3>1, Gone
  <2>3. c.i <= Len(Probes[e.key])
    BY <2>1, <2>2 DEF Done
  <2>4. s \in Slots
    <3>1. Probes[e.key][c.i] \in Slots
      BY <2>2, <2>3
    <3> QED
      BY Zenon, <1>3, <3>1
  <2>5. /\ slot[s] \in SlotStates /\ slot[s].version \in Versions
        /\ slot \in [Slots -> SlotStates] /\ newest \in [Keys -> Nat]
    BY Zenon, <2>4 DEF CacheInv, Types, SlotStates
  <2>6. w \in Versions /\ w.owner = p
    BY Zenon, <2>5 DEF Versions, claim_word
  <2> HIDE DEF w
  <2>7. t \in SlotStates /\ t.version = w
    BY Zenon, <2>5, <2>6 DEF SlotStates
  <2>8. slot' = [slot EXCEPT ![s] = t] /\ slot'[s] = t
    BY Zenon, <1>3, <2>4, <2>5 DEF w
  <2> HIDE DEF t
  <2>9. SlotMoves(p, s)
    BY Zenon, <1>3, <2>7, <2>8 DEF SlotMoves, w, Retires, Stable
  <2>10. ~Stable(t.version)
    BY Zenon, <2>6, <2>7 DEF Stable, CacheConstants
  <2>11. /\ call'[p] \in Calls /\ Step(p, call'[p])
         /\ call'[p].pc = clear /\ Alike(call'[p], c)
    BY Zenon, <1>0, <1>3, GotoIs
  <2>12. slot'[Probes[e.key][c.i]].version.owner = p
    BY Zenon, <1>3, <2>6, <2>7, <2>8
  <2>13. LocalsInv(p)' /\ ReaderInv(p)' /\ WriterInv(p)'
    <3>1. CASE clear = "clear" /\ e = Own(p) /\ from = "retire"
      <4>1. e.key = c.key
        BY Zenon, <3>1 DEF Own
      <4> QED
        BY Zenon, <1>0, <2>3, <2>11, <2>12, <3>1, <4>1 DEF LocalsInv, ReaderInv, WriterInv, Putting, Getting, Alike
    <3>2. CASE clear = "clear_evicted" /\ e = c.evicted /\ from = "retire_evicted"
      BY Zenon, <1>0, <2>1, <2>3, <2>11, <2>12, <3>2 DEF LocalsInv, ReaderInv, WriterInv, Putting, Getting, Alike
    <3> QED
      BY Zenon, <3>1, <3>2
  <2> QED
    BY Zenon, <1>0, <2>4, <2>5, <2>7, <2>8, <2>9, <2>10, <2>11, <2>13, WriteStep
<1> QED
  BY Zenon, <1>1, <1>2, <1>3 DEF retire_older

(* A retired copy is cleared and its slot given back.                       *)
LEMMA RetireClear ==
    ASSUME CacheConstants, CacheInv, NEW p \in Workers, NEW clear, NEW from, NEW e,
           \/ from = "retire" /\ clear = "clear" /\ e = Own(p)
           \/ from = "retire_evicted" /\ clear = "clear_evicted" /\ e = call[p].evicted,
           retire_clear(p, clear, from, e)
    PROVE  CacheInv'
<1> DEFINE c == call[p]  s == Probes[e.key][c.i]  w == publish_word(slot[s].version)
           t1 == [slot[s] EXCEPT !.generation = 0]  t2 == [t1 EXCEPT !.expires = 0]
           t == [t2 EXCEPT !.version = w]  d == [Next1(p) EXCEPT !.pc = from]
<1>0. /\ c.pc = clear /\ c \in Calls /\ LocalsInv(p) /\ WriterInv(p) /\ clear \in Putting /\ from \in Putting
      /\ UNCHANGED <<generation, sequence, marks, now, dead, open, newest, changed>>
      /\ Step(p, d)
      /\ slot' = [slot EXCEPT ![s].generation = 0, ![s].expires = 0, ![s].version = publish_word(@)]
  BY Zenon, Mine DEF retire_clear, At, Putting, World
<1>1. e.key \in Keys /\ c.i <= Len(Probes[e.key]) /\ slot[s].version.owner = p
  <2>1. CASE clear = "clear" /\ e = Own(p)
    <3>1. e.key = c.key
      BY Zenon, <2>1 DEF Own
    <3> QED
      BY Zenon, <1>0, <2>1, <3>1, Gone DEF LocalsInv, WriterInv
  <2>2. CASE clear = "clear_evicted" /\ e = c.evicted
    BY ZenonT(60), <1>0, <2>2 DEF LocalsInv, WriterInv
  <2> QED
    BY Zenon, <2>1, <2>2
<1>2. s \in Slots
  <2>1. Probes[e.key] \in Seq(Slots) /\ c.i \in Nat \ {0}
    BY Zenon, <1>1, Gone DEF CacheConstants
  <2> QED
    BY <1>1, <2>1
<1> HIDE DEF s
<1>3. /\ slot[s] \in SlotStates /\ slot[s].version \in Versions
      /\ slot \in [Slots -> SlotStates] /\ newest \in [Keys -> Nat]
  BY Zenon, <1>2 DEF CacheInv, Types, SlotStates
<1>4. w \in Versions
  BY <1>3 DEF Versions, publish_word
<1> HIDE DEF w
<1>5. t1 \in SlotStates
  <2>1. 0 \in 0..MaxGeneration
    BY DEF CacheConstants
  <2> QED
    BY Zenon, <1>3, <2>1 DEF SlotStates
<1>6. t2 \in SlotStates
  BY Zenon, <1>5 DEF SlotStates
<1>7. t \in SlotStates
  BY Zenon, <1>4, <1>6 DEF SlotStates
<1>8. t.version = w /\ t.generation = 0
  BY Zenon, <1>3 DEF SlotStates
<1>9. slot' = [slot EXCEPT ![s] = t] /\ slot'[s] = t
  BY Zenon, <1>0, <1>2, <1>3 DEF w, SlotStates
<1> HIDE DEF t
<1>10. SlotMoves(p, s)
  BY Zenon, <1>1, <1>8, <1>9 DEF SlotMoves, w
<1>11. Next1(p) \in Calls
  BY Zenon, NextOne
<1>12. d \in Calls
  BY Zenon, <1>0, <1>11, Fits
<1>13. /\ d.pc = from /\ d.key = Next1(p).key /\ d.class = Next1(p).class /\ d.seq = Next1(p).seq
       /\ d.gen = Next1(p).gen
  BY Zenon, <1>11 DEF Calls
<1> HIDE DEF d
<1>14. call'[p] = d /\ d.key = c.key /\ d.class = c.class /\ d.seq = c.seq /\ d.gen = c.gen
  BY Zenon, <1>0, <1>13, Mine, NextOne
<1>15. LocalsInv(p)' /\ ReaderInv(p)' /\ WriterInv(p)'
  BY Zenon, <1>0, <1>13, <1>14 DEF LocalsInv, ReaderInv, WriterInv, Putting, Getting
<1> QED
  BY Zenon, <1>0, <1>2, <1>3, <1>7, <1>8, <1>9, <1>10, <1>12, <1>15, WriteStep

(* The mark of the replaced copy is raised.                                 *)
LEMMA Raise ==
    ASSUME CacheConstants, CacheInv, NEW p \in Workers, raise(p)
    PROVE  CacheInv'
<1> DEFINE c == call[p]  m == MarkOf[c.evicted.key]  x == c.evicted.sequence - 1
<1>0. /\ c.pc = "raise" /\ c \in Calls /\ LocalsInv(p) /\ "claim" \in Putting /\ Goto(p, "claim")
      /\ UNCHANGED <<generation, sequence, slot, now, dead, open, newest, changed>>
      /\ marks' = [marks EXCEPT ![m] = Max({@, x})]
  BY Zenon, Mine DEF raise, raise_mark, At, Putting, World
<1>1. c.evicted.key \in Keys /\ c.evicted.sequence \in Numbers /\ c.evicted.sequence > 0
  BY Zenon, <1>0 DEF LocalsInv, Calls
<1>2. m \in Marks /\ marks \in [Marks -> Numbers] /\ marks[m] \in Numbers
  BY ZenonT(60), <1>1 DEF CacheConstants, CacheInv, Types
<1>3. marks[m] \in Nat /\ x \in Nat /\ x \in Numbers
  BY <1>1, <1>2 DEF Numbers, CacheConstants
<1> HIDE DEF m, x
<1>4. Max({marks[m], x}) \in Numbers /\ Max({marks[m], x}) >= marks[m]
  BY Zenon, <1>2, <1>3, MaxIs
<1>5. marks' \in [Marks -> Numbers]
  BY Zenon, <1>0, <1>2, <1>4
<1>6. \A n \in Marks : marks[n] <= marks'[n]
  <2>1. \A n \in Marks : marks[n] \in Nat
    BY <1>2 DEF Numbers
  <2> QED
    BY <1>0, <1>2, <1>3, <1>4, <2>1
<1>7. /\ call'[p] \in Calls /\ Step(p, call'[p])
      /\ call'[p].pc = "claim" /\ Alike(call'[p], c)
  BY Zenon, <1>0, GotoIs
<1>8. Types' /\ \A q \in Workers : q # p => call'[q] = call[q]
  BY Zenon, <1>0, <1>5, <1>7 DEF Step, CacheInv, Types
<1>9. ChangeIsMarked' /\ \A k \in Keys : changed[k] <= changed'[k]
  <2>1. ASSUME NEW k \in Keys PROVE changed'[k] <= marks'[MarkOf[k]] /\ changed[k] <= changed'[k]
    <3>1. MarkOf[k] \in Marks /\ changed[k] <= marks[MarkOf[k]]
      BY Zenon DEF CacheConstants, CacheInv, ChangeIsMarked
    <3>2. marks[MarkOf[k]] \in Nat /\ marks'[MarkOf[k]] \in Nat /\ changed[k] \in Nat
      BY <1>2, <1>5, <3>1 DEF CacheInv, Types, Numbers
    <3>3. marks[MarkOf[k]] <= marks'[MarkOf[k]]
      BY Zenon, <1>6, <3>1
    <3> QED
      BY <1>0, <3>1, <3>2, <3>3
  <2> QED
    BY Zenon, <2>1 DEF ChangeIsMarked
<1>10. LocalsInv(p)' /\ ReaderInv(p)' /\ WriterInv(p)'
  BY Zenon, <1>0, <1>7 DEF LocalsInv, ReaderInv, WriterInv, Putting, Getting, Alike
<1> QED
  BY Zenon, <1>0, <1>8, <1>9, <1>10, StillStep

(* A store begins.                                                          *)
LEMMA Put ==
    ASSUME CacheConstants, CacheInv, NEW p \in Workers, NEW r \in open[p], NEW cl \in Classes, put(p, r, cl)
    PROVE  CacheInv'
<1> DEFINE e1 == [IdleCall EXCEPT !.pc = "put_mark"]  e2 == [e1 EXCEPT !.key = r.key]
           e3 == [e2 EXCEPT !.seq = r.sequence]  e4 == [e3 EXCEPT !.class = cl]
           e5 == [e4 EXCEPT !.gen = generation]  d == [e5 EXCEPT !.time = now]
<1>1. /\ generation \in 0..MaxGeneration /\ generation > 0 /\ now \in Nat /\ "put_mark" \in Putting
      /\ open \in [Workers -> SUBSET [key : Keys, sequence : Numbers \ {0}]]
  BY DEF CacheInv, Types, Putting
<1>2. r \in [key : Keys, sequence : Numbers \ {0}]
  BY ZenonT(60), <1>1
<1>3. r.key \in Keys /\ r.sequence \in Numbers /\ r.sequence > 0
  BY <1>2 DEF Numbers
<1>4. IdleCall \in Calls
  BY Zenon, IdleFits
<1>5. e1 \in Calls /\ e2 \in Calls
  BY Zenon, <1>1, <1>3, <1>4, BeginsFit
<1>6. e3 \in Calls /\ e4 \in Calls
  BY Zenon, <1>3, <1>5, BeginsFit
<1>7. e5 \in Calls /\ d \in Calls
  BY Zenon, <1>1, <1>6, BeginsFit
<1>8. /\ d.pc = "put_mark" /\ d.key = r.key /\ d.seq = r.sequence /\ d.class = cl /\ d.gen = generation
      /\ d.best = IdleCall.best
  BY Zenon, <1>4 DEF Calls
<1>9. d = [IdleCall EXCEPT !.pc = "put_mark", !.key = r.key, !.seq = r.sequence, !.class = cl,
                           !.gen = generation, !.time = now]
  BY Zenon
<1>10. IdleCall.best = None
  BY Zenon DEF IdleCall
<1> HIDE DEF d
<1>11. Step(p, d) /\ call'[p] = d
  BY Zenon, <1>9, Mine DEF put
<1>12. LocalsInv(p)' /\ ReaderInv(p)' /\ WriterInv(p)'
  BY ZenonT(60), <1>1, <1>3, <1>8, <1>10, <1>11 DEF LocalsInv, ReaderInv, WriterInv, Putting, Getting
<1>13. /\ UNCHANGED <<generation, sequence, marks, slot, now, dead, newest, changed>>
       /\ open' = [open EXCEPT ![p] = @ \ {r}]
  BY Zenon DEF put, Table
<1>14. open' \in [Workers -> SUBSET [key : Keys, sequence : Numbers \ {0}]]
  BY Zenon, <1>1, <1>13
<1>15. Types' /\ \A q \in Workers : q # p => call'[q] = call[q]
  BY ZenonT(60), <1>7, <1>11, <1>13, <1>14 DEF Step, CacheInv, Types
<1>16. ChangeIsMarked' /\ \A k \in Keys : changed[k] <= changed'[k]
  <2>1. \A k \in Keys : changed[k] <= changed[k]
    BY DEF CacheInv, Types
  <2> QED
    BY Zenon, <1>13, <2>1 DEF CacheInv, ChangeIsMarked
<1> QED
  BY Zenon, <1>12, <1>13, <1>15, <1>16, StillStep

(* A change takes its number.                                               *)
LEMMA Invalidate ==
    ASSUME CacheConstants, CacheInv, NEW p \in Workers, NEW m \in Marks, invalidate(p, m)
    PROVE  CacheInv'
<1> DEFINE e1 == [IdleCall EXCEPT !.pc = "invalidate"]  e2 == [e1 EXCEPT !.class = m]
           d == [e2 EXCEPT !.seq = sequence + 1]
<1>0. /\ UNCHANGED <<generation, marks, slot, now, dead, open, newest, changed>>
      /\ sequence' = sequence + 1 /\ sequence < MaxSequence
  BY Zenon DEF invalidate, World
<1>1. sequence + 1 \in Numbers /\ sequence' \in 1..MaxSequence
  BY <1>0 DEF CacheInv, Types, Numbers, CacheConstants
<1>2. IdleCall \in Calls
  BY Zenon, IdleFits
<1>3. e1 \in Calls /\ e2 \in Calls
  BY Zenon, <1>2, BeginsFit
<1>4. d \in Calls
  BY Zenon, <1>1, <1>3, BeginsFit
<1>5. d.pc = "invalidate" /\ d.class = m
  BY Zenon, <1>2 DEF Calls
<1>6. d = [IdleCall EXCEPT !.pc = "invalidate", !.class = m, !.seq = sequence + 1]
  BY Zenon
<1> HIDE DEF d
<1>7. Step(p, d) /\ call'[p] = d
  BY Zenon, <1>6, Mine DEF invalidate
<1>8. LocalsInv(p)' /\ ReaderInv(p)' /\ WriterInv(p)'
  BY Zenon, <1>5, <1>7 DEF LocalsInv, ReaderInv, WriterInv, Putting, Getting
<1>9. Types' /\ \A q \in Workers : q # p => call'[q] = call[q]
  BY ZenonT(60), <1>0, <1>1, <1>4, <1>7 DEF Step, CacheInv, Types
<1>10. ChangeIsMarked' /\ \A k \in Keys : changed[k] <= changed'[k]
  <2>1. \A k \in Keys : changed[k] <= changed[k]
    BY DEF CacheInv, Types
  <2> QED
    BY Zenon, <1>0, <2>1 DEF CacheInv, ChangeIsMarked
<1> QED
  BY Zenon, <1>0, <1>8, <1>9, <1>10, StillStep

(* The change is complete: it is in the mark and in the history at once.    *)
LEMMA Invalidated ==
    ASSUME CacheConstants, CacheInv, NEW p \in Workers, invalidated(p)
    PROVE  CacheInv'
<1> DEFINE c == call[p]  m == c.class  x == c.seq
<1>0. /\ c.pc = "invalidate" /\ c \in Calls /\ LocalsInv(p) /\ Step(p, IdleCall)
      /\ UNCHANGED <<generation, sequence, slot, now, dead, open, newest>>
      /\ marks' = [marks EXCEPT ![m] = Max({@, x})]
      /\ changed' = [k \in Keys |-> IF MarkOf[k] = m THEN Max({changed[k], x}) ELSE changed[k]]
  BY Zenon, Mine DEF invalidated, raise_mark, Return, At
<1>1. m \in Marks /\ x \in Numbers
  BY Zenon, <1>0 DEF LocalsInv, Calls
<1>2. marks \in [Marks -> Numbers] /\ changed \in [Keys -> Nat]
  BY Zenon DEF CacheInv, Types
<1>3. marks[m] \in Nat /\ x \in Nat /\ marks[m] \in Numbers
  BY <1>1, <1>2 DEF Numbers
<1> HIDE DEF m, x
<1>4. Max({marks[m], x}) \in Numbers /\ Max({marks[m], x}) >= marks[m] /\ Max({marks[m], x}) >= x
  BY Zenon, <1>1, <1>3, MaxIs
<1>5. marks' \in [Marks -> Numbers]
  BY Zenon, <1>0, <1>2, <1>4
<1>6. ASSUME NEW k \in Keys
      PROVE  changed'[k] \in Nat /\ changed[k] <= changed'[k] /\ changed'[k] <= marks'[MarkOf[k]]
  <2>1. MarkOf[k] \in Marks /\ changed[k] <= marks[MarkOf[k]] /\ changed[k] \in Nat
    BY Zenon, <1>2 DEF CacheConstants, CacheInv, ChangeIsMarked
  <2>2. CASE MarkOf[k] = m
    <3>1. changed'[k] = Max({changed[k], x}) /\ marks'[MarkOf[k]] = Max({marks[m], x})
      BY Zenon, <1>0, <1>1, <1>2, <2>2
    <3>2. Max({changed[k], x}) \in {changed[k], x} /\ Max({changed[k], x}) >= changed[k]
      BY Zenon, <1>3, <2>1, MaxIs
    <3>3. Max({marks[m], x}) \in Nat
      BY <1>4 DEF Numbers
    <3> HIDE DEF x
    <3> QED
      BY <1>3, <1>4, <2>1, <2>2, <3>1, <3>2, <3>3
  <2>3. CASE MarkOf[k] # m
    <3>1. changed'[k] = changed[k] /\ marks'[MarkOf[k]] = marks[MarkOf[k]]
      BY Zenon, <1>0, <1>2, <2>1, <2>3
    <3> QED
      BY <2>1, <3>1
  <2> QED
    BY Zenon, <2>2, <2>3
<1>7. changed' \in [Keys -> Nat]
  BY Zenon, <1>0, <1>6
<1>8. call'[p] = IdleCall
  BY Zenon, <1>0, Mine
<1>9. Types' /\ \A q \in Workers : q # p => call'[q] = call[q]
  BY ZenonT(60), <1>0, <1>5, <1>7, IdleFits DEF Step, CacheInv, Types
<1> QED
  BY Zenon, <1>0, <1>6, <1>8, <1>9, IdleOwes, StillStep DEF ChangeIsMarked

(* Steps that change neither slots nor calls.                               *)
LEMMA QuietStep ==
    ASSUME CacheInv, Types', UNCHANGED <<call, slot, marks, changed>>, dead \subseteq dead'
    PROVE  CacheInv'
<1>1. \A p \in Workers : LocalsInv(p)'
  BY Zenon DEF CacheInv, LocalsInv
<1>2. \A p \in Workers : ReaderInv(p)'
  BY ZenonT(60) DEF CacheInv, ReaderInv, Picked
<1>3. \A p \in Workers \ dead' : WriterInv(p)'
  BY ZenonT(60) DEF CacheInv, WriterInv, Own
<1> QED
  BY ZenonT(60), <1>1, <1>2, <1>3 DEF CacheInv, StableIsWhole, StableIsOfRequest, ChangeIsMarked

(* They are: a request begins or is answered, a flush, a death, the clock.  *)
LEMMA Quiet ==
    ASSUME CacheConstants, CacheInv,
           \/ \E p \in Workers : \/ \E k \in Keys : begin(p, k)
                                 \/ \E r \in open[p] : answer(p, r)
                                 \/ flush(p) \/ die(p)
           \/ tick
    PROVE  CacheInv'
<1>0. open \in [Workers -> SUBSET [key : Keys, sequence : Numbers \ {0}]]
  BY Zenon DEF CacheInv, Types
<1>1. ASSUME NEW p \in Workers, NEW k \in Keys, begin(p, k) PROVE CacheInv'
  <2>1. sequence' \in 1..MaxSequence /\ sequence + 1 \in Numbers \ {0}
    BY <1>1 DEF begin, CacheInv, Types, Numbers, CacheConstants
  <2>2. [key |-> k, sequence |-> sequence + 1] \in [key : Keys, sequence : Numbers \ {0}]
    BY Zenon, <2>1
  <2>3. open' \in [Workers -> SUBSET [key : Keys, sequence : Numbers \ {0}]]
    BY Zenon, <1>0, <1>1, <2>2 DEF begin
  <2>4. Types'
    BY Zenon, <1>1, <2>1, <2>3 DEF begin, CacheInv, Types
  <2> QED
    BY ZenonT(60), <1>1, <2>4, QuietStep DEF begin
<1>2. ASSUME NEW p \in Workers, NEW r \in open[p], answer(p, r) PROVE CacheInv'
  <2>1. open' \in [Workers -> SUBSET [key : Keys, sequence : Numbers \ {0}]]
    BY Zenon, <1>0, <1>2 DEF answer
  <2>2. Types' /\ UNCHANGED <<call, slot, marks, changed, dead>>
    BY Zenon, <1>2, <2>1 DEF answer, CacheInv, Types, Table
  <2> QED
    BY Zenon, <2>2, QuietStep
<1>3. ASSUME NEW p \in Workers, flush(p) PROVE CacheInv'
  <2>1. Types'
    BY <1>3 DEF flush, CacheInv, Types, CacheConstants
  <2> QED
    BY ZenonT(60), <1>3, <2>1, QuietStep DEF flush
<1>4. ASSUME NEW p \in Workers, die(p) PROVE CacheInv'
  <2>1. Types' /\ UNCHANGED <<call, slot, marks, changed>> /\ dead \subseteq dead'
    BY Zenon, <1>4 DEF die, CacheInv, Types, Table
  <2> QED
    BY Zenon, <2>1, QuietStep
<1>5. CASE tick
  <2>1. Types' /\ UNCHANGED <<call, slot, marks, changed, dead>>
    BY <1>5 DEF tick, CacheInv, Types, Table
  <2> QED
    BY Zenon, <2>1, QuietStep
<1> QED
  BY Zenon, <1>1, <1>2, <1>3, <1>4, <1>5

(* The invariant holds of the empty table.                                  *)
LEMMA CacheInit ==
    ASSUME CacheConstants, Init
    PROVE  CacheInv
<1>1. EmptySlot \in SlotStates /\ EmptySlot.generation = 0
  BY DEF EmptySlot, SlotStates, NoVersion, Versions, NoCopy, Copies, Numbers, CacheConstants
<1>2. Types
  BY <1>1, IdleFits DEF Init, Types, Numbers, CacheConstants
<1>3. StableIsWhole /\ StableIsOfRequest
  BY Zenon, <1>1 DEF Init, StableIsWhole, StableIsOfRequest
<1>4. ChangeIsMarked
  BY DEF Init, ChangeIsMarked, CacheConstants
<1>5. \A p \in Workers : call[p] = IdleCall
  BY Zenon DEF Init
<1>6. IdleCall.pc = "idle"
  BY Zenon DEF IdleCall
<1>7. \A p \in Workers : LocalsInv(p) /\ ReaderInv(p) /\ WriterInv(p)
  BY ZenonT(60), <1>5, <1>6 DEF LocalsInv, ReaderInv, WriterInv, Putting, Getting
<1> QED
  BY Zenon, <1>2, <1>3, <1>4, <1>7 DEF CacheInv

(* Every step keeps the invariant.                                          *)
LEMMA CacheNext ==
    ASSUME CacheConstants, CacheInv, [Next]_vars
    PROVE  CacheInv'
<1>1. CASE UNCHANGED vars
  <2>1. Types' /\ UNCHANGED <<call, slot, marks, changed, dead>>
    BY Zenon, <1>1 DEF vars, CacheInv, Types
  <2> QED
    BY Zenon, <2>1, QuietStep
<1>2. ASSUME NEW p \in Workers, PutStep(p) PROVE CacheInv'
  <2>1. ASSUME NEW ttl \in 1..MaxTime+1, fields(p, ttl) PROVE CacheInv'
    <3>1. ttl \in Nat
      BY DEF CacheConstants
    <3> QED
      BY Zenon, <2>1, <3>1, FieldsStep
  <2>2. CASE \/ put_mark(p) \/ holds_newer(p) \/ choose(p) \/ choose_rank(p) \/ evict(p)
             \/ put_result(p) \/ returned(p)
    BY ZenonT(60), <2>2, PutMark, HoldsNewer, Choose, ChooseRank, Evict, PutResult, Returned
  <2>3. CASE raise(p) \/ claim(p) \/ body(p) \/ publish(p)
    BY Zenon, <2>3, Raise, Claim, BodyStep, Publish
  <2>4. CASE \/ retire_older(p, "retire", "clear", "retire_evicted", Own(p))
             \/ retire_older(p, "retire_evicted", "clear_evicted", "put_result", call[p].evicted)
    BY Zenon, <2>4, RetireOlder
  <2>5. CASE \/ retire_clear(p, "clear", "retire", Own(p))
             \/ retire_clear(p, "clear_evicted", "retire_evicted", call[p].evicted)
    BY Zenon, <2>5, RetireClear
  <2> QED
    BY Zenon, <1>2, <2>1, <2>2, <2>3, <2>4, <2>5 DEF PutStep
<1>3. ASSUME NEW p \in Workers, GetStep(p) PROVE CacheInv'
  BY Zenon, <1>3, Lookup, CopyOut, Confirm, CheckMark DEF GetStep
<1>4. ASSUME NEW p \in Workers, NEW k \in Keys, get(p, k) PROVE CacheInv'
  BY Zenon, <1>4, Get
<1>5. ASSUME NEW p \in Workers, NEW r \in open[p], NEW c \in Classes, put(p, r, c) PROVE CacheInv'
  BY Zenon, <1>5, Put
<1>6. ASSUME NEW p \in Workers, NEW m \in Marks, invalidate(p, m) PROVE CacheInv'
  BY Zenon, <1>6, Invalidate
<1>7. ASSUME NEW p \in Workers, invalidated(p) PROVE CacheInv'
  BY Zenon, <1>7, Invalidated
<1> QED
  BY Zenon, <1>1, <1>2, <1>3, <1>4, <1>5, <1>6, <1>7, Quiet DEF Next

(* The inductive invariant of the cache holds in every reachable state, for *)
(* any number of processes, slots, keys and deaths.                         *)
THEOREM CacheInvariant ==
    ASSUME CacheConstants
    PROVE  Spec => []CacheInv
<1>1. Init => CacheInv
  BY Zenon, CacheInit
<1>2. CacheInv /\ [Next]_vars => CacheInv'
  BY Zenon, CacheNext
<1> QED
  BY <1>1, <1>2, PTL DEF Spec

(* claim, owner_gone, publish: a slot is written by one live process, whose *)
(* claim it carries, however often writers die and others take over.        *)
THEOREM CacheOneWriter ==
    ASSUME CacheConstants
    PROVE  Spec => []SlotExclusive
<1>1. CacheInv => SlotExclusive
  <2> SUFFICES ASSUME CacheInv, NEW p \in Workers \ dead, NEW s \in Writing(p)
               PROVE  slot[s].version.owner = p
    BY Zenon DEF SlotExclusive
  <2> DEFINE c == call[p]
  <2>1. WriterInv(p) /\ c \in Calls
    BY Zenon, Mine
  <2>2. CASE c.pc \in {"fields", "body", "publish"}
    <3>1. s = c.best /\ slot[s].version = claim_word(c.version, p) /\ c.version \in Versions
      BY Zenon, <2>1, <2>2 DEF Writing, WriterInv, Calls
    <3> QED
      BY Zenon, <3>1 DEF claim_word, Versions
  <2>3. CASE c.pc \in {"clear", "clear_evicted"}
    BY Zenon, <2>1, <2>3 DEF Writing, WriterInv
  <2>4. CASE c.pc \notin {"fields", "body", "publish", "clear", "clear_evicted"}
    BY Zenon, <2>4 DEF Writing
  <2> QED
    BY Zenon, <2>2, <2>3, <2>4
<1> QED
  BY <1>1, CacheInvariant, PTL

(* av_cache_get: a hit returns the whole of one response, to the request    *)
(* that was asked, whatever was written while it was copied and whoever     *)
(* died; and every stable slot that a lookup could match holds one whole    *)
(* response.                                                                *)
THEOREM CacheHitWhole ==
    ASSUME CacheConstants
    PROVE  Spec => [](IntactGet /\ StableIsWhole)
<1>1. CacheInv => IntactGet /\ StableIsWhole
  <2> SUFFICES ASSUME CacheInv PROVE IntactGet /\ StableIsWhole
    BY Zenon
  <2>1. ASSUME NEW p \in Workers, call[p].pc = "hit" PROVE call[p].got = Picked(p)
    BY Zenon, <2>1, Mine DEF ReaderInv
  <2> QED
    BY Zenon, <2>1 DEF IntactGet, Picked, CacheInv
<1> QED
  BY <1>1, CacheInvariant, PTL

(* av_cache_invalidate, raise_mark: a hit was dispatched after every change *)
(* of its target that was complete when the lookup began, also when a slow  *)
(* store of the old response is published after the change.                 *)
THEOREM CacheHitAfterChange ==
    ASSUME CacheConstants
    PROVE  Spec => []NotAfterChange
<1>1. CacheInv => NotAfterChange
  BY Zenon, Mine DEF NotAfterChange, ReaderInv
<1> QED
  BY <1>1, CacheInvariant, PTL
=============================================================================
