----------------------------- MODULE LoadProofs -----------------------------
(***************************************************************************)
(* Proofs about the load page for any number of slots, workers and times,  *)
(* with stores that become visible in order or not: LoadInv is inductive.  *)
(* A slot has one holder, which stores the state last; and, with stores in *)
(* order, the turn on the page is the worker's whenever it does not wait.  *)
(***************************************************************************)
EXTENDS Load, WellFoundedInduction, TLAPS

(* A store on its way, and what a reader keeps.                             *)
Stores == [field : Fields, value : Nat]
Readers ==
    [at : {"rest", "state", "busy", "since", "turn", "rest of it"}, now : Nat, slot : Nat, busy : Nat,
     waiting_since : Nat, turn_started : Nat, held : BOOLEAN, seen : Nat, holders : SUBSET Nat]

Types ==
    /\ TypeOK
    /\ home \in [Workers -> Nat] /\ turn \in [Workers -> Nat]
    /\ stores \in [Workers -> Seq(Stores)] /\ reader \in Readers

(* The worker has issued the stores of av_load_join, and the last of them,  *)
(* that of the state, is not visible.                                       *)
Joining(w) == stores[w] # <<>> /\ stores[w][Len(stores[w])] = Store("state", ACTIVE)

(* The worker has issued a store that is not visible.                       *)
Pending(w, field, value) == \E i \in DOMAIN stores[w] : stores[w][i] = Store(field, value)

(* What may be on its way: the state is stored last, and the figures and    *)
(* the pid by av_load_join only.                                            *)
StoreInv(w) ==
    /\ ~Runs(w) => stores[w] = <<>>
    /\ life[w] = "new" => turn[w] = 0
    /\ \A i \in DOMAIN stores[w] :
        /\ stores[w][i].field = "state" =>
            /\ i = Len(stores[w])
            /\ stores[w][i].value = ACTIVE \/ life[w] = "stopping"
            /\ stores[w][i].value \in {ABSENT, ACTIVE, DRAINING}
        /\ stores[w][i].field \in {"figures", "pid"} => stores[w][i].value = w /\ Joining(w)
        /\ stores[w][i].field = "busy" => stores[w][i].value <= Full

(* The slot of a worker that runs says what it is, or is about to; the      *)
(* state says so last.                                                      *)
WorkerInv(w) ==
    /\ life[w] \in {"up", "stopping", "gone"} => home[w] \in Slots
    /\ Runs(w) =>
        /\ page[home[w]].figures = w \/ Pending(w, "figures", w)
        /\ page[home[w]].pid = w \/ Pending(w, "pid", w)
        /\ Joining(w) => life[w] = "up" /\ page[home[w]].state # ACTIVE
        /\ life[w] = "up" /\ ~Joining(w) => page[home[w]].state = ACTIVE

(* A slot has one holder, and a pid in it is that of its holder.            *)
OneHolder == \A w, v \in Workers : \A s \in Slots : Holds(w, s) /\ Holds(v, s) => w = v
PidIsHolder == \A s \in Slots : page[s].pid # NoPid => page[s].pid \in Workers /\ Holds(page[s].pid, s)

(* The worker that the reader saw has joined, and the slot says what it is  *)
(* for as long as the worker holds it.                                      *)
Reading == reader.at \in {"busy", "since", "turn", "rest of it"}
SeenInv ==
    Reading =>
        /\ reader.slot \in Slots /\ reader.seen \in Workers /\ home[reader.seen] = reader.slot
        /\ life[reader.seen] # "new" /\ ~Joining(reader.seen)
        /\ Holds(reader.seen, reader.slot) => page[reader.slot].figures = reader.seen

PageInv ==
    /\ \A w \in Workers : StoreInv(w) /\ WorkerInv(w)
    /\ OneHolder /\ PidIsHolder /\ ActiveIsHeld
    /\ reader.at = "state" => left # {}
    /\ SeenInv /\ ViewIsHolders

(* With stores in order: the turn that the page shows of a worker that does *)
(* not wait is the one it is on.                                            *)
Shown(w) == page[home[w]].waiting_since = 0 => page[home[w]].turn_started = turn[w]

(* In av_load_join both times are cleared before the state is stored; in    *)
(* av_load_awake the new turn is there before the wait is over.             *)
TurnInv(w) ==
    Runs(w) =>
        /\ Joining(w) =>
            /\ turn[w] = 0
            /\ page[home[w]].waiting_since = 0 \/ Pending(w, "waiting_since", 0)
            /\ page[home[w]].turn_started = 0 \/ Pending(w, "turn_started", 0)
            /\ \A i \in DOMAIN stores[w] :
                stores[w][i].field \in {"waiting_since", "turn_started"} => stores[w][i].value = 0
        /\ ~Joining(w) =>
            /\ Shown(w)
            /\ \A i \in DOMAIN stores[w] : stores[w][i].field = "waiting_since" => i = Len(stores[w])
            /\ \A i \in DOMAIN stores[w] : stores[w][i].field = "turn_started" =>
                /\ i = 1 /\ Len(stores[w]) = 2 /\ stores[w][2] = Store("waiting_since", 0)
                /\ stores[w][1].value = turn[w] /\ page[home[w]].waiting_since > 0
            /\ Pending(w, "waiting_since", 0) =>
                page[home[w]].turn_started = turn[w] \/ Pending(w, "turn_started", turn[w])

(* What the reader will find, for as long as the worker it saw holds the    *)
(* slot: the turn it finds is the one it measured, or began since.          *)
Long(began) == began > 0 /\ reader.now > began /\ reader.now - began >= StallUs
StallInv ==
    LET w == reader.seen IN
    /\ reader.now <= now
    /\ reader.at \in {"busy", "since"} /\ Holds(w, reader.slot) => Shown(w)
    /\ reader.at = "turn" /\ Holds(w, reader.slot) /\ reader.waiting_since = 0 =>
        /\ \A i \in DOMAIN stores[w] : stores[w][i].field = "turn_started" => stores[w][i].value >= reader.now
        /\ Long(page[reader.slot].turn_started) => reader.held
    /\ reader.at = "rest of it" /\ Holds(w, reader.slot) /\ Stalled(reader) => reader.held

OrderInv ==
    /\ \A w \in Workers : TurnInv(w)
    /\ \A w \in Workers : life[w] = "gone" /\ page[home[w]].state = ACTIVE => Shown(w)
    /\ StallInv /\ StalledIsTrue

LoadInv == Types /\ PageInv /\ (~WeakStores => OrderInv)

(* A set of numbers has a least one.                                        *)
LEMMA LowestIs ==
    ASSUME NEW S \in SUBSET Nat, S # {}
    PROVE  Lowest(S) \in S
<1> DEFINE R == OpToRel(<, Nat)
<1>1. IsWellFoundedOn(R, Nat)
  BY Zenon, NatLessThanWellFounded
<1>2. \A x, y \in Nat : <<y, x>> \in R <=> y < x
  BY Zenon DEF OpToRel
<1> HIDE DEF R
<1>3. PICK x \in S : \A y \in S : ~(<<y, x>> \in R)
  BY Zenon, <1>1, WFMin
<1>4. ASSUME NEW y \in S PROVE x <= y
  <2>1. x \in Nat /\ y \in Nat
    BY Zenon
  <2>2. ~(y < x)
    BY Zenon, <1>2, <1>3, <2>1
  <2> QED
    BY <2>1, <2>2
<1> QED
  BY Zenon, <1>4 DEF Lowest

(* The holder of a slot is the one worker that holds it.                    *)
LEMMA HolderIs ==
    ASSUME OneHolder, NEW s \in Slots, NEW w \in Workers, Holds(w, s)
    PROVE  Holder(s) = w
  BY Zenon DEF Holder, OneHolder

(* Whom Holder names.                                                       *)
LEMMA HolderHolds ==
    ASSUME LoadConstants, NEW s \in Slots
    PROVE  /\ Holder(s) \in Nat
           /\ Holder(s) # NoPid => Holder(s) \in Workers /\ Holds(Holder(s), s)
           /\ Holder(s) = NoPid => \A w \in Workers : ~Holds(w, s)
<1>1. NoPid \in Nat
  BY Zenon DEF NoPid
<1> QED
  BY Zenon, <1>1 DEF Holder, LoadConstants

(* A list without its i-th element.                                         *)
Without(q, i) == SubSeq(q, 1, i - 1) \o SubSeq(q, i + 1, Len(q))

(* What is in it.                                                           *)
LEMMA WithoutIs ==
    ASSUME NEW S, NEW q \in Seq(S), NEW i \in DOMAIN q
    PROVE  /\ Without(q, i) \in Seq(S) /\ Len(Without(q, i)) = Len(q) - 1
           /\ \A j \in DOMAIN Without(q, i) : Without(q, i)[j] = IF j < i THEN q[j] ELSE q[j + 1]
<1> DEFINE a == SubSeq(q, 1, i - 1)
           b == SubSeq(q, i + 1, Len(q))
<1>1. i \in 1..Len(q) /\ Len(q) \in Nat
  OBVIOUS
<1>2. a \in Seq(S) /\ Len(a) = i - 1 /\ \A j \in 1..(i - 1) : a[j] = q[j]
  BY <1>1
<1>3. b \in Seq(S) /\ Len(b) = Len(q) - i /\ \A j \in 1..(Len(q) - i) : b[j] = q[i + j]
  BY <1>1
<1> HIDE DEF a, b
<1>4. a \o b \in Seq(S) /\ Len(a \o b) = Len(q) - 1
  BY <1>1, <1>2, <1>3
<1>5. ASSUME NEW j \in DOMAIN (a \o b) PROVE (a \o b)[j] = IF j < i THEN q[j] ELSE q[j + 1]
  <2>1. j \in 1..(Len(q) - 1)
    BY <1>1, <1>4
  <2>2. CASE j < i
    BY <1>1, <1>2, <1>3, <2>1, <2>2
  <2>3. CASE ~(j < i)
    <3>1. (a \o b)[j] = b[j - (i - 1)]
      BY <1>1, <1>2, <1>3, <2>1, <2>3
    <3>2. j - (i - 1) \in 1..(Len(q) - i) /\ i + (j - (i - 1)) = j + 1
      BY <1>1, <2>1, <2>3
    <3> QED
      BY Zenon, <1>3, <2>3, <3>1, <3>2
  <2> QED
    BY Zenon, <2>2, <2>3
<1> QED
  BY Zenon, <1>4, <1>5 DEF Without, a, b

(* What stays on its way, and where.                                        *)
LEMMA WithoutKeeps ==
    ASSUME NEW S, NEW q \in Seq(S), NEW i \in DOMAIN q
    PROVE  /\ \A j \in DOMAIN Without(q, i) : \E k \in DOMAIN q : k # i /\ Without(q, i)[j] = q[k]
           /\ \A k \in DOMAIN q : k # i => \E j \in DOMAIN Without(q, i) : Without(q, i)[j] = q[k]
           /\ i # Len(q) => Without(q, i) # <<>> /\ Without(q, i)[Len(Without(q, i))] = q[Len(q)]
<1> DEFINE r == Without(q, i)
<1>1. r \in Seq(S) /\ Len(r) = Len(q) - 1 /\ \A j \in DOMAIN r : r[j] = IF j < i THEN q[j] ELSE q[j + 1]
  BY Zenon, WithoutIs
<1> HIDE DEF r
<1>2. i \in 1..Len(q) /\ Len(q) \in Nat
  OBVIOUS
<1>3. ASSUME NEW j \in DOMAIN r PROVE \E k \in DOMAIN q : k # i /\ r[j] = q[k]
  BY <1>1, <1>2
<1>4. ASSUME NEW k \in DOMAIN q, k # i PROVE \E j \in DOMAIN r : r[j] = q[k]
  <2>1. CASE k < i
    BY <1>1, <1>2, <1>4, <2>1
  <2>2. CASE k > i
    <3>1. k - 1 \in DOMAIN r /\ r[k - 1] = q[k]
      BY <1>1, <1>2, <1>4, <2>2
    <3> QED
      BY Zenon, <3>1
  <2> QED
    BY <1>2, <1>4, <2>1, <2>2
<1>5. i # Len(q) => r # <<>> /\ r[Len(r)] = q[Len(q)]
  BY <1>1, <1>2
<1> QED
  BY Zenon, <1>3, <1>4, <1>5 DEF r

(* What a step of w leaves alone: the other workers, their slots and the    *)
(* reader.                                                                  *)
WorkerStep(w) ==
    /\ UNCHANGED <<now, reader, left, views>>
    /\ \A v \in Workers \ {w} :
        /\ life'[v] = life[v] /\ home'[v] = home[v] /\ stores'[v] = stores[v] /\ turn'[v] = turn[v]
        /\ Holds(v, home[v]) => page'[home[v]] = page[home[v]]

(* Who holds a slot has been started in it.                                 *)
LEMMA HomeIs ==
    ASSUME NEW w \in Workers, NEW s, Holds(w, s)
    PROVE  home[w] = s /\ Holds(w, home[w])
  BY Zenon DEF Holds

(* What the invariant says of another worker is kept.                       *)
LEMMA OtherKept ==
    ASSUME LoadInv, NEW w \in Workers, WorkerStep(w), NEW v \in Workers \ {w}
    PROVE  /\ StoreInv(v)' /\ WorkerInv(v)'
           /\ \A s : Holds(v, s)' <=> Holds(v, s)
           /\ Joining(v)' <=> Joining(v)
           /\ ~WeakStores => TurnInv(v)' /\ (life'[v] = "gone" /\ page'[home[v]].state = ACTIVE => Shown(v)')
<1>1. life'[v] = life[v] /\ home'[v] = home[v] /\ stores'[v] = stores[v] /\ turn'[v] = turn[v]
  BY Zenon DEF WorkerStep
<1>2. Runs(v) => page'[home[v]] = page[home[v]]
  BY Zenon DEF WorkerStep, Holds, Runs
<1>3. life[v] = "gone" => page'[home[v]] = page[home[v]]
  BY Zenon DEF WorkerStep, Holds
<1>4. Joining(v)' <=> Joining(v)
  BY Zenon, <1>1 DEF Joining
<1>5. \A f, x : Pending(v, f, x)' <=> Pending(v, f, x)
  BY Zenon, <1>1 DEF Pending
<1>6. StoreInv(v)'
  <2>1. StoreInv(v)
    BY Zenon DEF LoadInv, PageInv
  <2> QED
    BY <1>1, <1>4, <2>1 DEF StoreInv, Runs
<1>7. WorkerInv(v)'
  <2>1. WorkerInv(v)
    BY Zenon DEF LoadInv, PageInv
  <2> QED
    BY Zenon, <1>1, <1>2, <1>4, <1>5, <2>1 DEF WorkerInv, Runs
<1>8. \A s : Holds(v, s)' <=> Holds(v, s)
  BY Zenon, <1>1 DEF Holds
<1>9. ASSUME ~WeakStores PROVE TurnInv(v)'
  <2>1. TurnInv(v)
    BY Zenon, <1>9 DEF LoadInv, OrderInv
  <2>2. Runs(v) => (Shown(v)' <=> Shown(v))
    BY Zenon, <1>1, <1>2 DEF Shown
  <2> QED
    BY ZenonT(60), <1>1, <1>2, <1>4, <1>5, <2>1, <2>2 DEF TurnInv, Runs
<1>10. ASSUME ~WeakStores, life'[v] = "gone", page'[home[v]].state = ACTIVE PROVE Shown(v)'
  <2>1. Shown(v)
    BY Zenon, <1>1, <1>3, <1>10 DEF LoadInv, OrderInv
  <2> QED
    BY Zenon, <1>1, <1>3, <1>10, <2>1 DEF Shown
<1> QED
  BY Zenon, <1>4, <1>6, <1>7, <1>8, <1>9, <1>10

(* So is what it says of the reader, unless the reader saw w.               *)
LEMMA SeenKept ==
    ASSUME LoadInv, NEW w \in Workers, WorkerStep(w), reader.seen # w \/ ~Reading
    PROVE  SeenInv' /\ (~WeakStores => StallInv')
<1> DEFINE v == reader.seen
<1>1. reader' = reader /\ now' = now
  BY Zenon DEF WorkerStep
<1>2. CASE ~Reading
  BY Zenon, <1>1, <1>2 DEF Reading, SeenInv, StallInv, LoadInv, OrderInv
<1>3. CASE Reading /\ v # w
  <2>1. /\ v \in Workers \ {w} /\ reader.slot \in Slots /\ home[v] = reader.slot /\ life[v] # "new" /\ ~Joining(v)
        /\ Holds(v, reader.slot) => page[reader.slot].figures = v
    BY Zenon, <1>3 DEF LoadInv, PageInv, SeenInv
  <2>2. /\ life'[v] = life[v] /\ home'[v] = home[v] /\ stores'[v] = stores[v] /\ turn'[v] = turn[v]
        /\ Holds(v, reader.slot) => page'[reader.slot] = page[reader.slot]
    BY Zenon, <2>1 DEF WorkerStep
  <2>3. (Holds(v, reader.slot)' <=> Holds(v, reader.slot)) /\ (Joining(v)' <=> Joining(v))
    BY Zenon, <1>1, <2>1, <2>2 DEF Holds, Joining
  <2>4. SeenInv'
    BY Zenon, <1>1, <2>1, <2>2, <2>3 DEF SeenInv
  <2>5. ASSUME ~WeakStores PROVE StallInv'
    <3>1. StallInv
      BY Zenon, <2>5 DEF LoadInv, OrderInv
    <3>2. Holds(v, reader.slot) => (Shown(v)' <=> Shown(v))
      BY Zenon, <1>1, <2>1, <2>2 DEF Shown
    <3> QED
      BY ZenonT(60), <1>1, <2>2, <2>3, <3>1, <3>2 DEF StallInv, Long, Stalled
  <2> QED
    BY Zenon, <2>4, <2>5
<1> QED
  BY Zenon, <1>2, <1>3

(* So it is enough to look at w, at the slots and, if it saw w, the reader. *)
LEMMA Assemble ==
    ASSUME LoadInv, Types', NEW w \in Workers, WorkerStep(w),
           StoreInv(w)', WorkerInv(w)', OneHolder', PidIsHolder', ActiveIsHeld',
           reader.seen = w /\ Reading => SeenInv',
           ~WeakStores => /\ TurnInv(w)'
                          /\ life'[w] = "gone" /\ page'[home'[w]].state = ACTIVE => Shown(w)'
                          /\ reader.seen = w /\ Reading => StallInv'
    PROVE  LoadInv'
<1>1. reader' = reader /\ views' = views /\ left' = left
  BY Zenon DEF WorkerStep
<1>2. SeenInv' /\ (~WeakStores => StallInv')
  BY Zenon, SeenKept
<1>3. \A v \in Workers : StoreInv(v)' /\ WorkerInv(v)'
  BY Zenon, OtherKept
<1>4. PageInv'
  BY Zenon, <1>1, <1>2, <1>3 DEF PageInv, ViewIsHolders, LoadInv
<1>5. ASSUME ~WeakStores PROVE OrderInv'
  <2>1. \A v \in Workers : TurnInv(v)'
    BY Zenon, <1>5, OtherKept
  <2>2. ASSUME NEW v \in Workers, life'[v] = "gone", page'[home'[v]].state = ACTIVE PROVE Shown(v)'
    <3>1. CASE v = w
      BY Zenon, <1>5, <2>2, <3>1
    <3>2. CASE v # w
      <4>1. life[v] = "gone" /\ home'[v] = home[v]
        BY Zenon, <2>2, <3>2 DEF WorkerStep
      <4> QED
        BY Zenon, <1>5, <2>2, <3>2, <4>1, OtherKept
    <3> QED
      BY Zenon, <3>1, <3>2
  <2>3. StalledIsTrue'
    BY Zenon, <1>1, <1>5 DEF LoadInv, OrderInv, StalledIsTrue
  <2> QED
    BY Zenon, <1>2, <1>5, <2>1, <2>2, <2>3 DEF OrderInv
<1> QED
  BY Zenon, <1>4, <1>5 DEF LoadInv

(* A call that only issues stores: nothing of the page changes.             *)
Issues(w, list, l, t) ==
    /\ Idle(w) /\ Issue(w, list)
    /\ life' = [life EXCEPT ![w] = l] /\ l \in {life[w], "stopping"}
    /\ turn' = [turn EXCEPT ![w] = t] /\ t \in Nat
    /\ UNCHANGED <<now, page, home, reader, left, views>>
    /\ readings' \in 0..MaxReadings
    /\ list \in Seq(Stores) /\ list # <<>>
    /\ \A i \in DOMAIN list :
        /\ list[i].field = "state" => i = Len(list) /\ list[i].value \in {ABSENT, DRAINING} /\ l = "stopping"
        /\ list[i].field \notin {"figures", "pid"}
        /\ list[i].field = "busy" => list[i].value <= Full

(* What such a call does.                                                   *)
LEMMA IssuesIs ==
    ASSUME LoadInv, NEW w \in Workers, NEW list, NEW l, NEW t, Issues(w, list, l, t)
    PROVE  /\ Types' /\ WorkerStep(w)
           /\ stores'[w] = list /\ life'[w] = l /\ turn'[w] = t
           /\ l \in {"up", "stopping"} /\ ~Joining(w)' /\ ~Joining(w) /\ stores[w] = <<>>
<1>1. /\ Types
      /\ stores \in [Workers -> Seq(Stores)] /\ turn \in [Workers -> Nat]
      /\ life \in [Workers -> {"new", "up", "stopping", "gone", "reaped"}]
  BY Zenon DEF LoadInv, Types, TypeOK
<1>2. life[w] \in {"up", "stopping"} /\ stores[w] = <<>>
  BY Zenon DEF Issues, Idle, Runs
<1>3. l \in {"up", "stopping"}
  BY Zenon, <1>2 DEF Issues
<1>4. stores'[w] = list /\ life'[w] = l /\ turn'[w] = t
  BY Zenon, <1>1 DEF Issues, Issue
<1>5. Types'
  <2>1. life' \in [Workers -> {"new", "up", "stopping", "gone", "reaped"}]
    BY <1>1, <1>3 DEF Issues
  <2>2. turn' \in [Workers -> Nat] /\ stores' \in [Workers -> Seq(Stores)]
    BY <1>1 DEF Issues, Issue
  <2> QED
    BY <1>1, <2>1, <2>2 DEF Issues, Types, TypeOK
<1>6. WorkerStep(w)
  BY Zenon, <1>1 DEF WorkerStep, Issues, Issue
<1>7. ~Joining(w)'
  <2>1. Len(list) \in DOMAIN list
    BY DEF Issues
  <2>2. ~(list[Len(list)] = Store("state", ACTIVE))
    BY <2>1 DEF Issues, Store, ABSENT, ACTIVE, DRAINING
  <2> QED
    BY Zenon, <1>4, <2>2 DEF Joining
<1>8. ~Joining(w)
  BY Zenon, <1>2 DEF Joining
<1> QED
  BY Zenon, <1>2, <1>3, <1>4, <1>5, <1>6, <1>7, <1>8

(* Who holds which slot depends on life and home only.                      *)
LEMMA SameHolders ==
    ASSUME LoadInv, home' = home, page' = page, \A v \in Workers, s \in Slots : Holds(v, s)' <=> Holds(v, s)
    PROVE  OneHolder' /\ PidIsHolder' /\ ActiveIsHeld'
<1>1. OneHolder'
  BY Zenon DEF LoadInv, PageInv, OneHolder
<1>2. PidIsHolder'
  BY Zenon DEF LoadInv, PageInv, PidIsHolder
<1>3. ActiveIsHeld'
  BY Zenon DEF LoadInv, PageInv, ActiveIsHeld
<1> QED
  BY Zenon, <1>1, <1>2, <1>3

(* Such a call keeps the invariant, turns aside.                            *)
LEMMA IssuesKeeps ==
    ASSUME LoadInv, NEW w \in Workers, NEW list, NEW l, NEW t, Issues(w, list, l, t),
           ~WeakStores => TurnInv(w)' /\ (reader.seen = w /\ Reading => StallInv')
    PROVE  LoadInv'
<1>1. /\ Types' /\ WorkerStep(w)
      /\ stores'[w] = list /\ life'[w] = l /\ turn'[w] = t
      /\ l \in {"up", "stopping"} /\ ~Joining(w)' /\ ~Joining(w) /\ stores[w] = <<>>
  BY Zenon, IssuesIs
<1>2. /\ life[w] \in {"up", "stopping"} /\ l \in {life[w], "stopping"}
      /\ page' = page /\ home' = home /\ reader' = reader
  BY Zenon DEF Issues, Idle, Runs
<1>3. StoreInv(w)'
  BY <1>1 DEF StoreInv, Runs, Issues
<1>4. WorkerInv(w)'
  <2>1. WorkerInv(w)
    BY Zenon DEF LoadInv, PageInv
  <2>2. \A f, x : ~Pending(w, f, x)
    BY <1>1 DEF Pending
  <2>3. /\ page[home[w]].figures = w /\ page[home[w]].pid = w /\ home[w] \in Slots
        /\ life[w] = "up" => page[home[w]].state = ACTIVE
    BY Zenon, <1>1, <1>2, <2>1, <2>2 DEF WorkerInv, Runs
  <2> QED
    BY Zenon, <1>1, <1>2, <2>3 DEF WorkerInv
<1>5. \A v \in Workers, s \in Slots : Holds(v, s)' <=> Holds(v, s)
  <2> TAKE v \in Workers, s \in Slots
  <2>1. CASE v = w
    BY Zenon, <1>1, <1>2, <2>1 DEF Holds
  <2>2. CASE v # w
    BY Zenon, <1>1, <2>2, OtherKept
  <2> QED
    BY Zenon, <2>1, <2>2
<1>6. OneHolder' /\ PidIsHolder' /\ ActiveIsHeld'
  BY Zenon, <1>2, <1>5, SameHolders
<1>7. ASSUME reader.seen = w, Reading PROVE SeenInv'
  <2>1. SeenInv /\ (reader.slot \in Slots => (Holds(w, reader.slot)' <=> Holds(w, reader.slot)))
    BY Zenon, <1>2, <1>5 DEF LoadInv, PageInv
  <2>2. l # "new"
    BY Zenon, <1>1
  <2> QED
    BY Zenon, <1>1, <1>2, <1>7, <2>1, <2>2 DEF SeenInv
<1>8. life'[w] # "gone"
  BY Zenon, <1>1
<1> QED
  BY Zenon, <1>1, <1>3, <1>4, <1>6, <1>7, <1>8, Assemble

(* One that has nothing to do with turns.                                   *)
LEMMA IssuesPlain ==
    ASSUME LoadInv, NEW w \in Workers, NEW list, NEW l, Issues(w, list, l, turn[w]),
           \A i \in DOMAIN list :
               list[i].field # "turn_started" /\ list[i] # Store("waiting_since", 0) /\ i = Len(list)
    PROVE  LoadInv'
<1>1. /\ stores'[w] = list /\ life'[w] = l /\ turn'[w] = turn[w]
      /\ l \in {"up", "stopping"} /\ ~Joining(w)' /\ ~Joining(w) /\ stores[w] = <<>>
  BY Zenon, IssuesIs
<1>2. Runs(w) /\ page' = page /\ home' = home /\ reader' = reader /\ now' = now
  BY Zenon DEF Issues, Idle
<1>3. ASSUME ~WeakStores PROVE TurnInv(w)'
  <2>1. TurnInv(w)
    BY Zenon, <1>3 DEF LoadInv, OrderInv
  <2>2. Shown(w)'
    BY Zenon, <1>1, <1>2, <2>1 DEF Shown, TurnInv
  <2>3. ~Pending(w, "waiting_since", 0)'
    BY Zenon, <1>1 DEF Pending
  <2> QED
    BY Zenon, <1>1, <2>2, <2>3 DEF TurnInv
<1>4. ASSUME ~WeakStores, reader.seen = w, Reading PROVE StallInv'
  <2>1. StallInv /\ reader.slot \in Slots /\ home[w] = reader.slot
    BY Zenon, <1>4 DEF LoadInv, OrderInv, PageInv, SeenInv
  <2>2. Holds(w, reader.slot)' <=> Holds(w, reader.slot)
    BY Zenon, <1>1, <1>2 DEF Holds, Runs
  <2>3. Shown(w)' <=> Shown(w)
    BY Zenon, <1>1, <1>2 DEF Shown
  <2> QED
    BY ZenonT(60), <1>1, <1>2, <1>4, <2>1, <2>2, <2>3 DEF StallInv, Long, Stalled
<1> QED
  BY Zenon, <1>3, <1>4, IssuesKeeps

(* av_load_publish.                                                         *)
LEMMA Publish ==
    ASSUME LoadConstants, LoadInv, NEW w \in Workers, NEW permille \in Nat, publish(w, permille)
    PROVE  LoadInv'
<1> DEFINE x == Store("busy", IF permille > Full THEN Full ELSE permille)
<1>1. x \in Stores /\ x.field = "busy" /\ x.value <= Full /\ x # Store("waiting_since", 0)
  BY DEF Stores, Store, Fields, Full
<1>6. x = Store("busy", IF permille > Full THEN Full ELSE permille)
  BY Zenon
<1> HIDE DEF x
<1>2. <<x>> \in Seq(Stores) /\ <<x>> # <<>> /\ \A i \in DOMAIN <<x>> : <<x>>[i] = x /\ i = Len(<<x>>)
  BY <1>1
<1>3. turn[w] \in Nat /\ life = [life EXCEPT ![w] = life[w]] /\ turn = [turn EXCEPT ![w] = turn[w]]
  BY Zenon DEF LoadInv, Types, TypeOK
<1>4. readings' \in 0..MaxReadings
  BY DEF publish, LoadInv, Types, TypeOK, LoadConstants
<1>5. Issues(w, <<x>>, life[w], turn[w])
  <2>1. Idle(w) /\ Issue(w, <<x>>) /\ UNCHANGED <<now, page, life, home, turn, reader, left, views>>
    BY Zenon, <1>6 DEF publish
  <2> QED
    BY Zenon, <1>1, <1>2, <1>3, <1>4, <2>1 DEF Issues
<1> QED
  BY Zenon, <1>1, <1>2, <1>5, IssuesPlain

(* av_load_waiting: the turn is over when the store is visible.             *)
LEMMA Waiting ==
    ASSUME LoadConstants, LoadInv, NEW w \in Workers, waiting(w)
    PROVE  LoadInv'
<1> DEFINE x == Store("waiting_since", now)
<1>1. now \in Nat \ {0}
  BY DEF LoadInv, Types, TypeOK, LoadConstants
<1>2. x \in Stores /\ x.field = "waiting_since" /\ x # Store("waiting_since", 0)
  BY Zenon, <1>1 DEF Stores, Store, Fields
<1>3. x = Store("waiting_since", now)
  BY Zenon
<1> HIDE DEF x
<1>4. <<x>> \in Seq(Stores) /\ <<x>> # <<>> /\ \A i \in DOMAIN <<x>> : <<x>>[i] = x /\ i = Len(<<x>>)
  BY <1>2
<1>5. /\ life = [life EXCEPT ![w] = life[w]] /\ turn = [turn EXCEPT ![w] = turn[w]]
      /\ turn[w] \in Nat /\ readings \in 0..MaxReadings
  BY Zenon DEF LoadInv, Types, TypeOK
<1>6. Issues(w, <<x>>, life[w], turn[w])
  BY Zenon, <1>2, <1>3, <1>4, <1>5 DEF Issues, waiting
<1> QED
  BY Zenon, <1>2, <1>4, <1>6, IssuesPlain

(* av_load_draining and av_load_leave.                                      *)
LEMMA Stopping ==
    ASSUME LoadConstants, LoadInv, NEW w \in Workers, draining(w) \/ leave(w)
    PROVE  LoadInv'
<1>1. PICK state \in {ABSENT, DRAINING} :
        /\ Idle(w) /\ life' = [life EXCEPT ![w] = "stopping"] /\ Issue(w, <<Store("state", state)>>)
        /\ UNCHANGED <<now, page, home, turn, readings, reader, left, views>>
  BY Zenon DEF draining, leave
<1> DEFINE x == Store("state", state)
<1>2. x \in Stores /\ x.field = "state" /\ x.value = state /\ x # Store("waiting_since", 0)
  BY DEF Stores, Store, Fields, ABSENT, DRAINING
<1>3. x = Store("state", state)
  BY Zenon
<1> HIDE DEF x
<1>4. <<x>> \in Seq(Stores) /\ <<x>> # <<>> /\ \A i \in DOMAIN <<x>> : <<x>>[i] = x /\ i = Len(<<x>>)
  BY <1>2
<1>5. turn[w] \in Nat /\ turn = [turn EXCEPT ![w] = turn[w]] /\ readings \in 0..MaxReadings
  BY Zenon DEF LoadInv, Types, TypeOK
<1>6. Issues(w, <<x>>, "stopping", turn[w])
  BY Zenon, <1>1, <1>2, <1>3, <1>4, <1>5 DEF Issues
<1> QED
  BY Zenon, <1>2, <1>4, <1>6, IssuesPlain

(* av_load_awake: the page still says that the worker waits.                *)
LEMMA Awake ==
    ASSUME LoadConstants, LoadInv, NEW w \in Workers, awake(w)
    PROVE  LoadInv'
<1> DEFINE x == Store("turn_started", now)
           y == Store("waiting_since", 0)
<1>1. now \in Nat \ {0}
  BY DEF LoadInv, Types, TypeOK, LoadConstants
<1>2. /\ x \in Stores /\ x.field = "turn_started" /\ x.value = now
      /\ y \in Stores /\ y.field = "waiting_since" /\ y.value = 0
  BY Zenon, <1>1 DEF Stores, Store, Fields
<1>3. x = Store("turn_started", now) /\ y = Store("waiting_since", 0) /\ AwakeStores = <<x, y>>
  BY Zenon DEF AwakeStores
<1> HIDE DEF x, y
<1>4. /\ <<x, y>> \in Seq(Stores) /\ <<x, y>> # <<>> /\ Len(<<x, y>>) = 2
      /\ <<x, y>>[1] = x /\ <<x, y>>[2] = y /\ DOMAIN <<x, y>> = {1, 2}
  BY <1>2
<1>5. life = [life EXCEPT ![w] = life[w]] /\ readings \in 0..MaxReadings
  BY Zenon DEF LoadInv, Types, TypeOK
<1>6. Issues(w, <<x, y>>, life[w], now)
  BY Zenon, <1>1, <1>2, <1>3, <1>4, <1>5 DEF Issues, awake
<1>7. /\ stores'[w] = <<x, y>> /\ turn'[w] = now /\ ~Joining(w)' /\ life'[w] = life[w] /\ stores[w] = <<>>
  BY Zenon, <1>6, IssuesIs
<1>8. Runs(w) /\ page' = page /\ home' = home /\ reader' = reader /\ now' = now /\ page[home[w]].waiting_since > 0
  BY Zenon DEF awake, Idle
<1>9. Shown(w)'
  BY <1>8 DEF Shown
<1>10. TurnInv(w)'
  <2>1. Pending(w, "turn_started", turn[w])'
    BY Zenon, <1>3, <1>4, <1>7 DEF Pending
  <2>2. \A i \in DOMAIN stores'[w] : stores'[w][i].field = "turn_started" => i = 1
    BY Zenon, <1>2, <1>4, <1>7
  <2> QED
    BY Zenon, <1>2, <1>3, <1>4, <1>7, <1>8, <1>9, <2>1, <2>2 DEF TurnInv
<1>11. ASSUME ~WeakStores, reader.seen = w, Reading PROVE StallInv'
  <2>1. StallInv /\ reader.slot \in Slots /\ home[w] = reader.slot /\ reader.now \in Nat
    BY Zenon, <1>11 DEF LoadInv, OrderInv, PageInv, SeenInv, Types, Readers
  <2>2. Holds(w, reader.slot)' <=> Holds(w, reader.slot)
    BY Zenon, <1>7, <1>8 DEF Holds
  <2>3. \A i \in DOMAIN stores'[w] : stores'[w][i].field = "turn_started" => stores'[w][i].value >= reader.now
    <3>1. reader.now <= now
      BY Zenon, <2>1 DEF StallInv
    <3>2. now >= reader.now
      BY <1>1, <2>1, <3>1
    <3>3. x.field = "turn_started" => x.value >= reader.now
      BY Zenon, <1>2, <3>2
    <3>4. y.field # "turn_started"
      BY Zenon, <1>2
    <3>5. \A i \in DOMAIN stores'[w] : stores'[w][i] = x \/ stores'[w][i] = y
      BY Zenon, <1>4, <1>7
    <3> QED
      BY Zenon, <3>3, <3>4, <3>5
  <2> QED
    BY ZenonT(60), <1>8, <1>9, <1>11, <2>1, <2>2, <2>3 DEF StallInv, Long, Stalled
<1> QED
  BY Zenon, <1>6, <1>10, <1>11, IssuesKeeps

(* The clock: a reader's now is in the past.                                *)
LEMMA Tick ==
    ASSUME LoadConstants, LoadInv, tick
    PROVE  LoadInv'
<1>1. UNCHANGED <<page, life, home, stores, turn, readings, reader, left, views>>
  BY Zenon DEF tick
<1>2. now \in Nat /\ now' = now + 1 /\ now' \in 1..MaxTime /\ reader.now \in Nat
  <2>1. now \in 1..MaxTime /\ now < MaxTime /\ now' = now + 1 /\ reader \in Readers
    BY Zenon DEF tick, LoadInv, Types, TypeOK
  <2>2. reader.now \in Nat
    BY Zenon, <2>1 DEF Readers
  <2> QED
    BY <2>1, <2>2 DEF LoadConstants
<1>3. Types'
  BY Zenon, <1>1, <1>2 DEF LoadInv, Types, TypeOK
<1>4. PageInv'
  <2>1. \A w \in Workers : StoreInv(w)' /\ WorkerInv(w)'
    <3>1. ASSUME NEW w \in Workers PROVE StoreInv(w)'
      <4>1. StoreInv(w)
        BY Zenon DEF LoadInv, PageInv
      <4> QED
        BY <1>1, <4>1 DEF StoreInv, Runs, Joining
    <3>2. ASSUME NEW w \in Workers PROVE WorkerInv(w)'
      BY Zenon, <1>1 DEF LoadInv, PageInv, WorkerInv, Runs, Joining, Pending
    <3> QED
      BY Zenon, <3>1, <3>2
  <2>2. OneHolder' /\ PidIsHolder' /\ ActiveIsHeld'
    BY Zenon, <1>1, SameHolders DEF Holds
  <2>3. SeenInv' /\ ViewIsHolders' /\ (reader'.at = "state" => left' # {})
    BY Zenon, <1>1 DEF LoadInv, PageInv, SeenInv, Reading, Joining, Holds, ViewIsHolders
  <2> QED
    BY Zenon, <2>1, <2>2, <2>3 DEF PageInv
<1>5. ASSUME ~WeakStores PROVE OrderInv'
  <2>1. ASSUME NEW w \in Workers PROVE TurnInv(w)'
    <3>1. TurnInv(w)
      BY Zenon, <1>5 DEF LoadInv, OrderInv
    <3>2. (Runs(w)' <=> Runs(w)) /\ (Joining(w)' <=> Joining(w)) /\ (Shown(w)' <=> Shown(w))
      BY Zenon, <1>1 DEF Runs, Joining, Shown
    <3>3. \A f, x : Pending(w, f, x)' <=> Pending(w, f, x)
      BY Zenon, <1>1 DEF Pending
    <3> QED
      BY ZenonT(60), <1>1, <3>1, <3>2, <3>3 DEF TurnInv
  <2>2. \A w \in Workers : Shown(w)' <=> Shown(w)
    BY Zenon, <1>1 DEF Shown
  <2>3. StallInv
    BY Zenon, <1>5 DEF LoadInv, OrderInv
  <2>4. reader.now <= now'
    <3>1. reader.now <= now
      BY Zenon, <2>3 DEF StallInv
    <3> QED
      BY <1>2, <3>1
  <2>5. StallInv'
    BY Zenon, <1>1, <2>3, <2>4 DEF StallInv, Shown, Holds, Long, Stalled
  <2> QED
    BY Zenon, <1>1, <1>5, <2>1, <2>2, <2>5 DEF LoadInv, OrderInv, StalledIsTrue
<1> QED
  BY Zenon, <1>3, <1>4, <1>5 DEF LoadInv

(* The stores of av_load_join.                                              *)
LEMMA JoinList ==
    ASSUME LoadConstants, NEW w \in Workers
    PROVE  LET q == JoinStores(w) IN
           /\ q \in Seq(Stores) /\ Len(q) = 6 /\ q # <<>>
           /\ q[2] = Store("waiting_since", 0) /\ q[3] = Store("figures", w) /\ q[4] = Store("pid", w)
           /\ q[5] = Store("turn_started", 0) /\ q[6] = Store("state", ACTIVE)
           /\ \A i \in DOMAIN q :
                /\ q[i].field = "state" => i = 6 /\ q[i].value = ACTIVE
                /\ q[i].field \in {"figures", "pid"} => q[i].value = w
                /\ q[i].field = "busy" => q[i].value <= Full
                /\ q[i].field \in {"waiting_since", "turn_started"} => q[i].value = 0
<1>1. w \in Nat
  BY Zenon DEF LoadConstants
<1>2. /\ Store("busy", 0) \in Stores /\ Store("waiting_since", 0) \in Stores /\ Store("figures", w) \in Stores
      /\ Store("pid", w) \in Stores /\ Store("turn_started", 0) \in Stores /\ Store("state", ACTIVE) \in Stores
  BY Zenon, <1>1 DEF Store, Stores, Fields, ACTIVE
<1>3. JoinStores(w) \in Seq(Stores)
  BY <1>2 DEF JoinStores
<1> QED
  BY <1>1, <1>3 DEF JoinStores, Store, Full

(* The supervisor starts a worker, which joins.                             *)
LEMMA Join ==
    ASSUME LoadConstants, LoadInv, NEW w \in Workers, NEW s \in Slots, join(w, s)
    PROVE  LoadInv'
<1> DEFINE q == JoinStores(w)
<1>1. /\ Types /\ life \in [Workers -> {"new", "up", "stopping", "gone", "reaped"}]
      /\ home \in [Workers -> Nat] /\ stores \in [Workers -> Seq(Stores)] /\ s \in Nat
  BY Zenon DEF LoadInv, Types, TypeOK, LoadConstants
<1>2. /\ q \in Seq(Stores) /\ Len(q) = 6 /\ q # <<>>
      /\ q[2] = Store("waiting_since", 0) /\ q[3] = Store("figures", w) /\ q[4] = Store("pid", w)
      /\ q[5] = Store("turn_started", 0) /\ q[6] = Store("state", ACTIVE)
      /\ \A i \in DOMAIN q :
           /\ q[i].field = "state" => i = 6 /\ q[i].value = ACTIVE
           /\ q[i].field \in {"figures", "pid"} => q[i].value = w
           /\ q[i].field = "busy" => q[i].value <= Full
           /\ q[i].field \in {"waiting_since", "turn_started"} => q[i].value = 0
  BY Zenon, JoinList
<1>3. /\ life[w] = "new" /\ life' = [life EXCEPT ![w] = "up"] /\ home' = [home EXCEPT ![w] = s]
      /\ stores' = [stores EXCEPT ![w] = q] /\ UNCHANGED <<now, page, turn, readings, reader, left, views>>
      /\ Holder(s) = NoPid
  BY Zenon DEF join, Issue
<1> HIDE DEF q
<1>4. 2 \in DOMAIN q /\ 3 \in DOMAIN q /\ 4 \in DOMAIN q /\ 5 \in DOMAIN q
  BY <1>2
<1>5. life'[w] = "up" /\ home'[w] = s /\ stores'[w] = q /\ turn'[w] = 0
  <2>1. turn[w] = 0
    BY Zenon, <1>3 DEF LoadInv, PageInv, StoreInv
  <2> QED
    BY Zenon, <1>1, <1>3, <2>1
<1>6. Types'
  <2>1. /\ life' \in [Workers -> {"new", "up", "stopping", "gone", "reaped"}]
        /\ home' \in [Workers -> Nat] /\ stores' \in [Workers -> Seq(Stores)]
    BY <1>1, <1>2, <1>3
  <2> QED
    BY <1>1, <1>3, <2>1 DEF Types, TypeOK
<1>7. WorkerStep(w)
  BY Zenon, <1>1, <1>3 DEF WorkerStep
<1>8. Joining(w)'
  BY Zenon, <1>2, <1>5 DEF Joining
<1>9. StoreInv(w)'
  BY <1>2, <1>5, <1>8 DEF StoreInv, Runs
<1>10. \A v \in Workers : ~Holds(v, s)
  BY Zenon, <1>3, HolderHolds
<1>11. page[s].state # ACTIVE
  BY Zenon, <1>10 DEF LoadInv, PageInv, ActiveIsHeld
<1>12. WorkerInv(w)'
  <2>1. Pending(w, "figures", w)' /\ Pending(w, "pid", w)'
    BY <1>2, <1>4, <1>5 DEF Pending
  <2> QED
    BY Zenon, <1>3, <1>5, <1>8, <1>11, <2>1 DEF WorkerInv
<1>13. \A v \in Workers, r \in Slots : Holds(v, r) => v # w /\ Holds(v, r)'
  BY Zenon, <1>3, <1>7 DEF Holds, WorkerStep
<1>14. \A v \in Workers, r \in Slots : Holds(v, r)' => Holds(v, r) \/ (v = w /\ r = s)
  BY Zenon, <1>5, <1>7 DEF Holds, WorkerStep
<1>15. OneHolder'
  <2> SUFFICES ASSUME NEW v \in Workers, NEW u \in Workers, NEW r \in Slots, Holds(v, r)', Holds(u, r)' PROVE v = u
    BY Zenon DEF OneHolder
  <2>1. (Holds(v, r) \/ (v = w /\ r = s)) /\ (Holds(u, r) \/ (u = w /\ r = s))
    BY Zenon, <1>14
  <2> QED
    BY Zenon, <1>10, <2>1 DEF LoadInv, PageInv, OneHolder
<1>16. PidIsHolder'
  BY Zenon, <1>3, <1>13 DEF LoadInv, PageInv, PidIsHolder
<1>17. ActiveIsHeld'
  BY Zenon, <1>3, <1>13 DEF LoadInv, PageInv, ActiveIsHeld
<1>18. ~(reader.seen = w /\ Reading)
  BY Zenon, <1>3 DEF LoadInv, PageInv, SeenInv
<1>19. TurnInv(w)'
  <2>1. Pending(w, "waiting_since", 0)' /\ Pending(w, "turn_started", 0)'
    BY <1>2, <1>4, <1>5 DEF Pending
  <2>2. \A i \in DOMAIN stores'[w] :
          stores'[w][i].field \in {"waiting_since", "turn_started"} => stores'[w][i].value = 0
    BY <1>2, <1>5
  <2> QED
    BY Zenon, <1>5, <1>8, <2>1, <2>2 DEF TurnInv
<1>20. life'[w] # "gone"
  BY Zenon, <1>5
<1> QED
  BY Zenon, <1>6, <1>7, <1>9, <1>12, <1>15, <1>16, <1>17, <1>18, <1>19, <1>20, Assemble

(* A worker ends: the page stays as it is.                                  *)
LEMMA Exit ==
    ASSUME LoadConstants, LoadInv, NEW w \in Workers, exit(w)
    PROVE  LoadInv'
<1>1. /\ Types /\ life \in [Workers -> {"new", "up", "stopping", "gone", "reaped"}]
      /\ stores \in [Workers -> Seq(Stores)] /\ StoreInv(w) /\ WorkerInv(w)
  BY Zenon DEF LoadInv, Types, TypeOK, PageInv
<1>2. /\ Runs(w) /\ life' = [life EXCEPT ![w] = "gone"] /\ stores' = [stores EXCEPT ![w] = <<>>]
      /\ UNCHANGED <<now, page, home, turn, readings, reader, left, views>>
  BY Zenon DEF exit
<1>3. life'[w] = "gone" /\ stores'[w] = <<>>
  BY Zenon, <1>1, <1>2
<1>4. Types'
  <2>1. life' \in [Workers -> {"new", "up", "stopping", "gone", "reaped"}] /\ stores' \in [Workers -> Seq(Stores)]
    BY <1>1, <1>2
  <2> QED
    BY <1>1, <1>2, <2>1 DEF Types, TypeOK
<1>5. WorkerStep(w)
  BY Zenon, <1>1, <1>2 DEF WorkerStep
<1>6. ~Joining(w)' /\ ~Runs(w)'
  BY Zenon, <1>3 DEF Joining, Runs
<1>7. DOMAIN stores'[w] = {}
  BY <1>3
<1>8. StoreInv(w)'
  BY Zenon, <1>3, <1>7 DEF StoreInv
<1>9. WorkerInv(w)'
  BY Zenon, <1>1, <1>2, <1>6 DEF WorkerInv, Runs
<1>10. \A v \in Workers, s \in Slots : Holds(v, s)' <=> Holds(v, s)
  <2> TAKE v \in Workers, s \in Slots
  <2>1. CASE v = w
    BY Zenon, <1>2, <1>3, <2>1 DEF Holds, Runs
  <2>2. CASE v # w
    BY Zenon, <1>5, <2>2, OtherKept
  <2> QED
    BY Zenon, <2>1, <2>2
<1>11. OneHolder' /\ PidIsHolder' /\ ActiveIsHeld'
  BY Zenon, <1>2, <1>10, SameHolders
<1>12. ASSUME reader.seen = w, Reading PROVE SeenInv'
  <2>1. SeenInv
    BY Zenon DEF LoadInv, PageInv
  <2> QED
    BY Zenon, <1>2, <1>3, <1>6, <1>10, <1>12, <2>1 DEF SeenInv
<1>13. TurnInv(w)'
  BY Zenon, <1>6 DEF TurnInv
<1>14. ASSUME ~WeakStores, page'[home'[w]].state = ACTIVE PROVE Shown(w)'
  <2>1. TurnInv(w) /\ ~Joining(w)
    BY Zenon, <1>1, <1>2, <1>14 DEF LoadInv, OrderInv, WorkerInv
  <2> QED
    BY Zenon, <1>2, <2>1 DEF TurnInv, Shown
<1>15. ASSUME ~WeakStores, reader.seen = w, Reading PROVE StallInv'
  <2>1. StallInv /\ reader.slot \in Slots
    BY Zenon, <1>15 DEF LoadInv, OrderInv, PageInv, SeenInv
  <2>2. Shown(w)' <=> Shown(w)
    BY Zenon, <1>2 DEF Shown
  <2> QED
    BY ZenonT(60), <1>2, <1>7, <1>10, <1>15, <2>1, <2>2 DEF StallInv, Long, Stalled
<1> QED
  BY Zenon, <1>4, <1>5, <1>8, <1>9, <1>11, <1>12, <1>13, <1>14, <1>15, Assemble

(* av_load_reap: a slot with that pid is the worker's, and no other's.      *)
LEMMA Reap ==
    ASSUME LoadConstants, LoadInv, NEW w \in Workers, reap(w)
    PROVE  LoadInv'
<1>1. /\ Types /\ life \in [Workers -> {"new", "up", "stopping", "gone", "reaped"}]
      /\ page \in [Slots -> [Fields -> Nat]] /\ StoreInv(w) /\ WorkerInv(w)
      /\ OneHolder /\ PidIsHolder /\ ActiveIsHeld
      /\ \A v \in Workers : WorkerInv(v)
  BY Zenon DEF LoadInv, Types, TypeOK, PageInv
<1>2. /\ life[w] = "gone" /\ life' = [life EXCEPT ![w] = "reaped"]
      /\ UNCHANGED <<now, home, stores, turn, readings, reader, left, views>>
  BY Zenon DEF reap
<1>3. life'[w] = "reaped" /\ life' \in [Workers -> {"new", "up", "stopping", "gone", "reaped"}]
  BY Zenon, <1>1, <1>2
<1>4. w \in Nat /\ w # NoPid
  BY Zenon DEF LoadConstants
<1>5. \A s \in Slots : page[s].pid # w => page'[s] = page[s]
  BY Zenon DEF reap
<1>6. \A s \in Slots : page[s].pid = w =>
        page'[s].state = ABSENT /\ page'[s].pid = NoPid /\ page'[s].busy = page[s].busy
  BY Zenon, <1>1 DEF reap, Fields
<1>7. page' \in [Slots -> [Fields -> Nat]]
  <2>1. \A s \in Slots : [page[s] EXCEPT !.state = ABSENT, !.pid = NoPid] \in [Fields -> Nat]
    BY Zenon, <1>1 DEF Fields, ABSENT, NoPid
  <2> QED
    BY Zenon, <1>1, <2>1 DEF reap
<1>8. Types'
  <2>1. \A s \in Slots : page'[s].state \in {ABSENT, ACTIVE, DRAINING} /\ page'[s].busy <= Full
    <3> TAKE s \in Slots
    <3>1. page[s].state \in {ABSENT, ACTIVE, DRAINING} /\ page[s].busy <= Full
      BY Zenon, <1>1 DEF Types, TypeOK
    <3>2. page[s].pid # w \/ page[s].pid = w
      BY Zenon
    <3> QED
      BY Zenon, <1>5, <1>6, <3>1, <3>2
  <2> QED
    BY Zenon, <1>1, <1>2, <1>3, <1>7, <2>1 DEF Types, TypeOK
<1>9. \A v \in Workers \ {w}, s \in Slots : Holds(v, s) => page[s].pid # w
  <2> SUFFICES ASSUME NEW v \in Workers \ {w}, NEW s \in Slots, Holds(v, s), page[s].pid = w PROVE FALSE
    BY Zenon
  <2>1. Holds(w, s)
    BY Zenon, <1>1, <1>4 DEF PidIsHolder
  <2> QED
    BY Zenon, <1>1, <2>1 DEF OneHolder
<1>10. WorkerStep(w)
  <2>1. ASSUME NEW v \in Workers \ {w}, Holds(v, home[v]) PROVE page'[home[v]] = page[home[v]]
    <3>1. home[v] \in Slots
      BY Zenon, <1>1, <2>1 DEF WorkerInv, Holds
    <3> QED
      BY Zenon, <1>5, <1>9, <2>1, <3>1
  <2> QED
    BY Zenon, <1>1, <1>2, <2>1 DEF WorkerStep
<1>11. ~Runs(w) /\ ~Runs(w)' /\ stores[w] = <<>> /\ stores'[w] = <<>> /\ ~Joining(w)'
  BY Zenon, <1>1, <1>2, <1>3 DEF Runs, StoreInv, Joining
<1>12. StoreInv(w)'
  BY <1>3, <1>11 DEF StoreInv
<1>13. WorkerInv(w)'
  BY Zenon, <1>3, <1>11 DEF WorkerInv
<1>14. \A v \in Workers, s \in Slots : Holds(v, s)' <=> Holds(v, s) /\ v # w
  <2> TAKE v \in Workers, s \in Slots
  <2>1. CASE v = w
    BY Zenon, <1>3, <2>1 DEF Holds
  <2>2. CASE v # w
    BY Zenon, <1>10, <2>2, OtherKept
  <2> QED
    BY Zenon, <2>1, <2>2
<1>15. OneHolder'
  BY Zenon, <1>1, <1>14 DEF OneHolder
<1>16. PidIsHolder'
  <2> SUFFICES ASSUME NEW s \in Slots, page'[s].pid # NoPid
               PROVE  page'[s].pid \in Workers /\ Holds(page[s].pid, s)' /\ page'[s] = page[s]
    BY Zenon DEF PidIsHolder, Holds
  <2>1. page[s].pid # w /\ page'[s] = page[s]
    BY Zenon, <1>5, <1>6
  <2> QED
    BY Zenon, <1>1, <1>14, <2>1 DEF PidIsHolder
<1>17. ActiveIsHeld'
  <2> SUFFICES ASSUME NEW s \in Slots, page'[s].state = ACTIVE
               PROVE  \E v \in Workers : Holds(v, s)' /\ page'[s].figures = v /\ page'[s].pid = v
    BY Zenon DEF ActiveIsHeld
  <2>1. ABSENT # ACTIVE
    BY DEF ABSENT, ACTIVE
  <2>2. page[s].pid # w /\ page'[s] = page[s]
    BY Zenon, <1>5, <1>6, <2>1
  <2> QED
    BY Zenon, <1>1, <1>14, <2>2 DEF ActiveIsHeld
<1>18. ASSUME reader.seen = w, Reading PROVE SeenInv'
  <2>1. SeenInv
    BY Zenon DEF LoadInv, PageInv
  <2> QED
    BY Zenon, <1>2, <1>3, <1>11, <1>14, <1>18, <2>1 DEF SeenInv
<1>19. TurnInv(w)' /\ life'[w] # "gone"
  BY Zenon, <1>3, <1>11 DEF TurnInv
<1>20. ASSUME ~WeakStores, reader.seen = w, Reading PROVE StallInv'
  <2>1. StallInv /\ reader.slot \in Slots
    BY Zenon, <1>20 DEF LoadInv, OrderInv, PageInv, SeenInv
  <2>2. ~Holds(w, reader.slot)'
    BY Zenon, <1>2, <1>14, <2>1
  <2> QED
    BY Zenon, <1>2, <1>20, <2>1, <2>2 DEF StallInv
<1> QED
  BY Zenon, <1>8, <1>10, <1>12, <1>13, <1>15, <1>16, <1>17, <1>18, <1>19, <1>20, Assemble

(* What a store that becomes visible does.                                  *)
LEMMA VisibleIs ==
    ASSUME LoadInv, NEW w \in Workers, NEW i, visible(w, i)
    PROVE  /\ stores[w] \in Seq(Stores) /\ i \in DOMAIN stores[w] /\ stores[w][i] \in Stores
           /\ home[w] \in Slots /\ Holds(w, home[w]) /\ Runs(w)
           /\ stores[w][i].field = "state" => i = 1
           /\ ~WeakStores => i = 1
           /\ stores'[w] = Without(stores[w], i)
           /\ stores' \in [Workers -> Seq(Stores)] /\ turn' \in [Workers -> Nat]
           /\ turn'[w] = IF stores[w][i].field = "waiting_since" /\ stores[w][i].value > 0 THEN 0 ELSE turn[w]
           /\ \A v \in Workers \ {w} : stores'[v] = stores[v] /\ turn'[v] = turn[v]
           /\ page' \in [Slots -> [Fields -> Nat]] /\ \A z \in Slots \ {home[w]} : page'[z] = page[z]
           /\ \A f \in Fields :
                page'[home[w]][f] = IF f = stores[w][i].field THEN stores[w][i].value ELSE page[home[w]][f]
           /\ UNCHANGED <<now, life, home, readings, reader, left, views>>
<1> DEFINE q == stores[w]
           x == stores[w][i]
           s == home[w]
<1>1. /\ stores \in [Workers -> Seq(Stores)] /\ turn \in [Workers -> Nat] /\ page \in [Slots -> [Fields -> Nat]]
      /\ WorkerInv(w)
  BY Zenon DEF LoadInv, Types, TypeOK, PageInv
<1>2. /\ Runs(w) /\ i \in DOMAIN q /\ (i = 1 \/ (WeakStores /\ x.field # "state"))
      /\ page' = [page EXCEPT ![s][x.field] = x.value]
      /\ stores' = [stores EXCEPT ![w] = Without(@, i)]
      /\ turn' = IF x.field = "waiting_since" /\ x.value > 0 THEN [turn EXCEPT ![w] = 0] ELSE turn
      /\ UNCHANGED <<now, life, home, readings, reader, left, views>>
  BY Zenon DEF visible, Without
<1>3. q \in Seq(Stores) /\ x \in Stores
  BY <1>1, <1>2
<1>4. s \in Slots /\ Holds(w, s)
  BY Zenon, <1>1, <1>2 DEF WorkerInv, Runs, Holds
<1>5. Without(q, i) \in Seq(Stores)
  BY Zenon, <1>2, <1>3, WithoutIs
<1>6. /\ stores' \in [Workers -> Seq(Stores)] /\ stores'[w] = Without(q, i)
      /\ \A v \in Workers \ {w} : stores'[v] = stores[v]
  BY Zenon, <1>1, <1>2, <1>5
<1>7. /\ turn' \in [Workers -> Nat] /\ \A v \in Workers \ {w} : turn'[v] = turn[v]
      /\ turn'[w] = IF x.field = "waiting_since" /\ x.value > 0 THEN 0 ELSE turn[w]
  BY Zenon, <1>1, <1>2
<1>8. x.field \in Fields /\ x.value \in Nat
  BY Zenon, <1>3 DEF Stores
<1>9. /\ page' \in [Slots -> [Fields -> Nat]] /\ \A z \in Slots \ {s} : page'[z] = page[z]
      /\ \A f \in Fields : page'[s][f] = IF f = x.field THEN x.value ELSE page[s][f]
  <2> HIDE DEF x, s
  <2>1. page[s] \in [Fields -> Nat]
    BY Zenon, <1>1, <1>4
  <2> DEFINE y == [page[s] EXCEPT ![x.field] = x.value]
  <2>2. y \in [Fields -> Nat] /\ \A f \in Fields : y[f] = IF f = x.field THEN x.value ELSE page[s][f]
    BY Zenon, <1>8, <2>1
  <2>3. page' = [page EXCEPT ![s] = y]
    BY Zenon, <1>2
  <2> HIDE DEF y
  <2> QED
    BY Zenon, <1>1, <1>4, <2>2, <2>3
<1> QED
  BY Zenon, <1>2, <1>3, <1>4, <1>6, <1>7, <1>9

(* The order of what is on its way.                                         *)
LEMMA VisibleOrder ==
    ASSUME LoadInv, NEW w \in Workers, NEW i, visible(w, i)
    PROVE  /\ Joining(w)' <=> Joining(w) /\ i # Len(stores[w])
           /\ Joining(w) /\ i = Len(stores[w]) =>
                /\ Len(stores[w]) = 1 /\ stores'[w] = <<>> /\ stores[w][i] = Store("state", ACTIVE)
           /\ \A j \in DOMAIN stores'[w] : \E k \in DOMAIN stores[w] : k # i /\ stores'[w][j] = stores[w][k]
           /\ \A k \in DOMAIN stores[w] : k # i => \E j \in DOMAIN stores'[w] : stores'[w][j] = stores[w][k]
           /\ StoreInv(w)'
<1> DEFINE q == stores[w]
           r == stores'[w]
<1>1. /\ q \in Seq(Stores) /\ i \in DOMAIN q /\ r = Without(q, i) /\ Runs(w) /\ life' = life
      /\ q[i].field = "state" => i = 1
  BY VisibleIs
<1>2. StoreInv(w)
  BY Zenon DEF LoadInv, PageInv
<1>3. /\ \A j \in DOMAIN r : \E k \in DOMAIN q : k # i /\ r[j] = q[k]
      /\ \A k \in DOMAIN q : k # i => \E j \in DOMAIN r : r[j] = q[k]
      /\ i # Len(q) => r # <<>> /\ r[Len(r)] = q[Len(q)]
  <2>1. /\ \A j \in DOMAIN Without(q, i) : \E k \in DOMAIN q : k # i /\ Without(q, i)[j] = q[k]
        /\ \A k \in DOMAIN q : k # i => \E j \in DOMAIN Without(q, i) : Without(q, i)[j] = q[k]
        /\ i # Len(q) => Without(q, i) # <<>> /\ Without(q, i)[Len(Without(q, i))] = q[Len(q)]
    BY Zenon, <1>1, WithoutKeeps
  <2> HIDE DEF q, r
  <2> QED
    BY Zenon, <1>1, <2>1
<1>4. r \in Seq(Stores) /\ Len(r) = Len(q) - 1 /\ \A j \in DOMAIN r : r[j] = IF j < i THEN q[j] ELSE q[j + 1]
  BY ZenonT(60), <1>1, WithoutIs
<1>5. \A k \in DOMAIN q : q[k].field = "state" => k = Len(q)
  BY Zenon, <1>2 DEF StoreInv
<1>6. Store("state", ACTIVE).field = "state"
  BY Zenon DEF Store
<1> HIDE DEF q, r
<1>7. i \in 1..Len(q) /\ Len(q) \in Nat /\ Len(r) \in Nat
  BY <1>1, <1>4
<1>8. Joining(w) /\ i = Len(q) => Len(q) = 1 /\ r = <<>> /\ q[i] = Store("state", ACTIVE)
  <2>1. Joining(w) /\ i = Len(q) => q[i] = Store("state", ACTIVE)
    BY Zenon DEF Joining, q
  <2> QED
    BY <1>1, <1>4, <1>6, <2>1
<1>9. Joining(w) <=> q # <<>> /\ q[Len(q)] = Store("state", ACTIVE)
  BY Zenon DEF Joining, q
<1>10. Joining(w)' <=> r # <<>> /\ r[Len(r)] = Store("state", ACTIVE)
  BY Zenon DEF Joining, r
<1>11. Joining(w)' <=> Joining(w) /\ i # Len(q)
  <2>1. CASE i # Len(q)
    BY <1>3, <1>7, <1>9, <1>10, <2>1
  <2>2. CASE i = Len(q) /\ r # <<>>
    <3>1. Len(r) \in DOMAIN r /\ r[Len(r)] = q[Len(r)] /\ Len(r) \in DOMAIN q /\ Len(r) # Len(q)
      BY <1>1, <1>4, <1>7, <2>2
    <3> QED
      BY Zenon, <1>5, <1>6, <1>10, <2>2, <3>1
  <2>3. CASE i = Len(q) /\ r = <<>>
    BY Zenon, <1>10, <2>3
  <2> QED
    BY Zenon, <2>1, <2>2, <2>3
<1>12. StoreInv(w)'
  <2>1. ASSUME NEW j \in DOMAIN r, r[j].field = "state" PROVE j = Len(r)
    BY <1>1, <1>4, <1>5, <1>7, <2>1
  <2>2. ASSUME NEW j \in DOMAIN r, r[j].field \in {"figures", "pid"} PROVE r[j].value = w /\ Joining(w)'
    <3>1. PICK k \in DOMAIN q : k # i /\ r[j] = q[k]
      BY Zenon, <1>3
    <3>2. r[j].value = w /\ Joining(w)
      BY <1>2, <2>2, <3>1 DEF StoreInv, q
    <3>3. r # <<>>
      BY <2>2
    <3> QED
      BY Zenon, <1>8, <1>11, <3>2, <3>3
  <2>3. ASSUME NEW j \in DOMAIN r
        PROVE  /\ r[j].field = "state" =>
                    /\ r[j].value = ACTIVE \/ life'[w] = "stopping"
                    /\ r[j].value \in {ABSENT, ACTIVE, DRAINING}
               /\ r[j].field = "busy" => r[j].value <= Full
    <3>1. PICK k \in DOMAIN q : k # i /\ r[j] = q[k]
      BY Zenon, <1>3
    <3> QED
      BY <1>1, <1>2, <3>1 DEF StoreInv, q
  <2>4. Runs(w)' /\ life'[w] # "new"
    BY Zenon, <1>1 DEF Runs
  <2> QED
    BY <2>1, <2>2, <2>3, <2>4 DEF StoreInv, r
<1> QED
  BY ZenonT(60), <1>3, <1>8, <1>11, <1>12 DEF q, r

(* A store becomes visible.                                                 *)
LEMMA Visible ==
    ASSUME LoadConstants, LoadInv, NEW w \in Workers, NEW i, visible(w, i)
    PROVE  LoadInv'
<1> DEFINE q == stores[w]
           r == stores'[w]
           x == stores[w][i]
           s == home[w]
<1>1. /\ q \in Seq(Stores) /\ i \in DOMAIN q /\ x \in Stores
      /\ s \in Slots /\ Holds(w, s) /\ Runs(w)
      /\ x.field = "state" => i = 1
      /\ ~WeakStores => i = 1
      /\ stores' \in [Workers -> Seq(Stores)] /\ turn' \in [Workers -> Nat]
      /\ turn'[w] = IF x.field = "waiting_since" /\ x.value > 0 THEN 0 ELSE turn[w]
      /\ \A v \in Workers \ {w} : stores'[v] = stores[v] /\ turn'[v] = turn[v]
      /\ page' \in [Slots -> [Fields -> Nat]] /\ \A z \in Slots \ {s} : page'[z] = page[z]
      /\ \A f \in Fields : page'[s][f] = IF f = x.field THEN x.value ELSE page[s][f]
      /\ UNCHANGED <<now, life, home, readings, reader, left, views>>
  BY VisibleIs
<1>2. /\ Joining(w)' <=> Joining(w) /\ i # Len(q)
      /\ Joining(w) /\ i = Len(q) => Len(q) = 1 /\ r = <<>> /\ x = Store("state", ACTIVE)
      /\ \A j \in DOMAIN r : \E k \in DOMAIN q : k # i /\ r[j] = q[k]
      /\ \A k \in DOMAIN q : k # i => \E j \in DOMAIN r : r[j] = q[k]
      /\ StoreInv(w)'
  BY Zenon, VisibleOrder
<1>3. /\ Types /\ StoreInv(w) /\ WorkerInv(w) /\ OneHolder /\ PidIsHolder /\ ActiveIsHeld /\ SeenInv
      /\ \A v \in Workers : WorkerInv(v)
  BY ZenonT(60) DEF LoadInv, PageInv
<1>4. /\ x.field = "state" =>
           /\ i = Len(q) /\ x.value \in {ABSENT, ACTIVE, DRAINING}
           /\ x.value = ACTIVE \/ life[w] = "stopping"
      /\ x.field \in {"figures", "pid"} => x.value = w /\ Joining(w)
      /\ x.field = "busy" => x.value <= Full
  BY <1>1, <1>3 DEF StoreInv
<1>5. \A f, n : Pending(w, f, n) <=> \E k \in DOMAIN q : q[k] = Store(f, n)
  BY Zenon DEF Pending
<1>6. \A f, n : Pending(w, f, n)' <=> \E k \in DOMAIN r : r[k] = Store(f, n)
  BY Zenon DEF Pending
<1>7. \A f, n : Store(f, n).field = f /\ Store(f, n).value = n
  BY Zenon DEF Store
<1>8. /\ page'[s].state = IF x.field = "state" THEN x.value ELSE page[s].state
      /\ page'[s].busy = IF x.field = "busy" THEN x.value ELSE page[s].busy
      /\ page'[s].figures = IF x.field = "figures" THEN x.value ELSE page[s].figures
      /\ page'[s].pid = IF x.field = "pid" THEN x.value ELSE page[s].pid
      /\ page'[s].waiting_since = IF x.field = "waiting_since" THEN x.value ELSE page[s].waiting_since
      /\ page'[s].turn_started = IF x.field = "turn_started" THEN x.value ELSE page[s].turn_started
  BY Zenon, <1>1 DEF Fields
<1>9. home'[w] = s /\ life'[w] = life[w] /\ Runs(w)'
  BY Zenon, <1>1 DEF Runs
<1>10. x.value \in Nat /\ x.field \in Fields
  BY Zenon, <1>1 DEF Stores
<1>25. x = q[i]
  BY Zenon
<1> HIDE DEF q, r, x, s
<1>26. /\ Joining(w)' <=> Joining(w) /\ i # Len(q)
       /\ Joining(w) /\ i = Len(q) => Len(q) = 1 /\ r = <<>> /\ x = Store("state", ACTIVE)
  BY Zenon, <1>2
<1>27. i = Len(q) /\ x = Store("state", ACTIVE) => x.field = "state" /\ x.value = ACTIVE
  BY ZenonT(60), <1>7
<1>11. WorkerStep(w)
  <2>1. ASSUME NEW v \in Workers \ {w}, Holds(v, home[v]) PROVE page'[home[v]] = page[home[v]]
    <3>1. home[v] \in Slots
      BY Zenon, <1>3, <2>1 DEF WorkerInv, Holds
    <3>2. home[v] # s
      BY Zenon, <1>1, <1>3, <2>1, <3>1 DEF OneHolder
    <3> QED
      BY Zenon, <1>1, <3>1, <3>2
  <2> QED
    BY Zenon, <1>1, <2>1 DEF WorkerStep
<1>12. Types'
  <2>1. ASSUME NEW z \in Slots PROVE page'[z].state \in {ABSENT, ACTIVE, DRAINING} /\ page'[z].busy <= Full
    <3>1. page[z].state \in {ABSENT, ACTIVE, DRAINING} /\ page[z].busy <= Full
      BY Zenon, <1>3 DEF Types, TypeOK
    <3>2. CASE z = s
      BY <1>4, <1>8, <3>1, <3>2
    <3>3. CASE z # s
      BY Zenon, <1>1, <3>1, <3>3
    <3> QED
      BY Zenon, <3>2, <3>3
  <2> QED
    BY Zenon, <1>1, <1>3, <2>1 DEF Types, TypeOK
<1>13. ASSUME NEW f, NEW n, Pending(w, f, n), x.field # f PROVE Pending(w, f, n)'
  <2>1. PICK k \in DOMAIN q : q[k] = Store(f, n)
    BY Zenon, <1>5, <1>13
  <2>2. k # i
    BY Zenon, <1>7, <1>13, <1>25, <2>1
  <2>3. PICK j \in DOMAIN r : r[j] = q[k]
    BY Zenon, <1>2, <2>2
  <2> QED
    BY Zenon, <1>6, <2>1, <2>3
<1>14. ASSUME NEW f, NEW n, Pending(w, f, n)' PROVE Pending(w, f, n)
  <2>1. PICK j \in DOMAIN r : r[j] = Store(f, n)
    BY Zenon, <1>6, <1>14
  <2>2. PICK k \in DOMAIN q : r[j] = q[k]
    BY Zenon, <1>2
  <2> QED
    BY Zenon, <1>5, <2>1, <2>2
<1>15. WorkerInv(w)'
  <2>1. page'[s].figures = w \/ Pending(w, "figures", w)'
    <3>1. page[s].figures = w \/ Pending(w, "figures", w)
      BY Zenon, <1>1, <1>3 DEF WorkerInv, s
    <3> QED
      BY Zenon, <1>4, <1>8, <1>13, <3>1
  <2>2. page'[s].pid = w \/ Pending(w, "pid", w)'
    <3>1. page[s].pid = w \/ Pending(w, "pid", w)
      BY Zenon, <1>1, <1>3 DEF WorkerInv, s
    <3> QED
      BY Zenon, <1>4, <1>8, <1>13, <3>1
  <2>3. Joining(w)' => life[w] = "up" /\ page'[s].state # ACTIVE
    <3>1. Joining(w) => life[w] = "up" /\ page[s].state # ACTIVE
      BY Zenon, <1>1, <1>3 DEF WorkerInv, s
    <3> QED
      BY Zenon, <1>4, <1>8, <1>26, <3>1
  <2>4. life[w] = "up" /\ ~Joining(w)' => page'[s].state = ACTIVE
    <3>1. life[w] = "up" /\ ~Joining(w) => page[s].state = ACTIVE
      BY Zenon, <1>1, <1>3 DEF WorkerInv, s
    <3>2. "up" # "stopping"
      BY Zenon
    <3> QED
      BY Zenon, <1>4, <1>8, <1>26, <1>27, <3>1, <3>2
  <2> QED
    BY Zenon, <1>1, <1>9, <2>1, <2>2, <2>3, <2>4 DEF WorkerInv
<1>16. \A v \in Workers, z \in Slots : Holds(v, z)' <=> Holds(v, z)
  BY Zenon, <1>1 DEF Holds
<1>17. OneHolder'
  BY Zenon, <1>3, <1>16 DEF OneHolder
<1>18. PidIsHolder'
  <2> SUFFICES ASSUME NEW z \in Slots, page'[z].pid # NoPid
               PROVE  page'[z].pid \in Workers /\ Holds(page'[z].pid, z)
    BY Zenon, <1>1 DEF PidIsHolder, Holds
  <2>1. CASE page'[z].pid = page[z].pid
    BY Zenon, <1>3, <2>1 DEF PidIsHolder
  <2>2. CASE page'[z].pid # page[z].pid
    <3>1. z = s
      BY Zenon, <1>1, <2>2
    <3>2. page'[z].pid = w
      BY Zenon, <1>4, <1>8, <2>2, <3>1
    <3> QED
      BY Zenon, <1>1, <3>1, <3>2
  <2> QED
    BY Zenon, <2>1, <2>2
<1>19. ActiveIsHeld'
  <2> SUFFICES ASSUME NEW z \in Slots, page'[z].state = ACTIVE
               PROVE  \E v \in Workers : Holds(v, z)' /\ page'[z].figures = v /\ page'[z].pid = v
    BY Zenon DEF ActiveIsHeld
  <2>1. CASE z # s
    <3>1. page'[z] = page[z]
      BY Zenon, <1>1, <2>1
    <3> QED
      BY Zenon, <1>3, <1>16, <3>1 DEF ActiveIsHeld
  <2>2. CASE z = s /\ x.field = "state"
    <3>1. Len(q) = 1 /\ i = 1
      BY ZenonT(60), <1>1, <1>4, <2>2
    <3>2. \A k \in DOMAIN q : k = i
      BY <1>1, <3>1
    <3>3. \A n : ~Pending(w, "figures", n) /\ ~Pending(w, "pid", n)
      BY <1>5, <1>7, <2>2, <3>2 DEF q, x
    <3>4. page[s].figures = w /\ page[s].pid = w
      BY Zenon, <1>1, <1>3, <3>3 DEF WorkerInv, s
    <3>5. page'[s].figures = w /\ page'[s].pid = w
      BY Zenon, <1>8, <2>2, <3>4
    <3> QED
      BY Zenon, <1>1, <1>16, <2>2, <3>5
  <2>3. CASE z = s /\ x.field # "state"
    <3>1. PICK v \in Workers : Holds(v, s) /\ page[s].figures = v /\ page[s].pid = v
      BY Zenon, <1>1, <1>3, <1>8, <2>3 DEF ActiveIsHeld
    <3>2. v = w
      BY Zenon, <1>1, <1>3, <3>1 DEF OneHolder
    <3>3. page'[s].figures = w /\ page'[s].pid = w
      BY Zenon, <1>4, <1>8, <3>1, <3>2
    <3> QED
      BY Zenon, <1>1, <1>16, <2>3, <3>3
  <2> QED
    BY Zenon, <2>1, <2>2, <2>3
<1>20. ASSUME reader.seen = w, Reading PROVE SeenInv'
  <2>1. /\ reader.slot = s /\ life[w] # "new" /\ ~Joining(w)
        /\ Holds(w, s) => page[s].figures = w
    BY Zenon, <1>3, <1>20 DEF SeenInv, s
  <2>2. page'[s].figures = w /\ ~Joining(w)'
    BY Zenon, <1>1, <1>2, <1>4, <1>8, <2>1
  <2> QED
    BY Zenon, <1>1, <1>9, <1>20, <2>1, <2>2 DEF SeenInv
<1>21. "gone" # life'[w]
  BY ZenonT(60), <1>1, <1>9 DEF Runs
<1>22. ASSUME ~WeakStores, ~Joining(w)
       PROVE  \A j \in DOMAIN r : r[j].field # "turn_started"
  <2>1. TurnInv(w)
    BY Zenon, <1>22 DEF LoadInv, OrderInv
  <2>2. \A k \in DOMAIN q : q[k].field = "turn_started" => k = 1
    BY Zenon, <1>1, <1>22, <2>1 DEF TurnInv, q
  <2> QED
    BY <1>1, <1>2, <1>22, <2>2
<1>23. ASSUME ~WeakStores PROVE TurnInv(w)'
  <2> USE <1>23
  <2>1. TurnInv(w) /\ page[s].waiting_since \in Nat /\ page[s].turn_started \in Nat /\ turn[w] \in Nat
    <3>1. TurnInv(w)
      BY Zenon DEF LoadInv, OrderInv
    <3> QED
      BY <1>1, <1>3, <3>1 DEF Types, TypeOK, Fields
  <2>2. CASE Joining(w)'
    <3>1. /\ Joining(w) /\ turn[w] = 0
          /\ page[s].waiting_since = 0 \/ Pending(w, "waiting_since", 0)
          /\ page[s].turn_started = 0 \/ Pending(w, "turn_started", 0)
          /\ \A k \in DOMAIN q : q[k].field \in {"waiting_since", "turn_started"} => q[k].value = 0
      BY Zenon, <1>1, <1>2, <2>1, <2>2 DEF TurnInv, q, s
    <3>2. x.field \in {"waiting_since", "turn_started"} => x.value = 0
      BY Zenon, <1>1, <3>1 DEF q, x
    <3>3. turn'[w] = 0
      BY Zenon, <1>1, <3>1
    <3>4. page'[s].waiting_since = 0 \/ Pending(w, "waiting_since", 0)'
      BY Zenon, <1>8, <1>13, <3>1, <3>2
    <3>5. page'[s].turn_started = 0 \/ Pending(w, "turn_started", 0)'
      BY Zenon, <1>8, <1>13, <3>1, <3>2
    <3>6. \A j \in DOMAIN r : r[j].field \in {"waiting_since", "turn_started"} => r[j].value = 0
      BY ZenonT(60), <1>2, <3>1
    <3> QED
      BY Zenon, <1>9, <2>2, <3>3, <3>4, <3>5, <3>6 DEF TurnInv, r
  <2>3. CASE Joining(w) /\ ~Joining(w)'
    <3>1. Len(q) = 1 /\ i = 1 /\ r = <<>> /\ x.field = "state"
      BY Zenon, <1>1, <1>26, <1>27, <2>3
    <3>2. \A k \in DOMAIN q : q[k] = x
      BY <1>1, <3>1 DEF q, x
    <3>3. ~Pending(w, "waiting_since", 0) /\ ~Pending(w, "turn_started", 0)
      BY <1>5, <1>7, <3>1, <3>2
    <3>4. turn[w] = 0 /\ page[s].waiting_since = 0 /\ page[s].turn_started = 0
      BY Zenon, <1>1, <2>1, <2>3, <3>3 DEF TurnInv, s
    <3>5. turn'[w] = 0 /\ page'[s].turn_started = 0
      BY Zenon, <1>1, <1>8, <3>1, <3>4
    <3>6. Shown(w)'
      BY Zenon, <1>9, <3>5 DEF Shown
    <3>7. DOMAIN r = {}
      BY <3>1
    <3>8. ~Pending(w, "waiting_since", 0)'
      BY Zenon, <1>6, <3>7
    <3> QED
      BY Zenon, <2>3, <3>6, <3>7, <3>8 DEF TurnInv, r
  <2>4. CASE ~Joining(w)
    <3>1. /\ ~Joining(w)' /\ i = 1 /\ Shown(w)
          /\ \A k \in DOMAIN q : q[k].field = "waiting_since" => k = Len(q)
          /\ \A k \in DOMAIN q : q[k].field = "turn_started" =>
                q[1].value = turn[w] /\ page[s].waiting_since > 0 /\ k = 1
          /\ Pending(w, "waiting_since", 0) => page[s].turn_started = turn[w] \/ Pending(w, "turn_started", turn[w])
      BY Zenon, <1>1, <1>2, <2>1, <2>4 DEF TurnInv, q, s
    <3>2. \A j \in DOMAIN r : r[j].field # "turn_started"
      BY Zenon, <1>22, <2>4
    <3>3. Len(r) = Len(q) - 1 /\ \A j \in DOMAIN r : r[j] = q[j + 1] /\ j + 1 \in DOMAIN q
      <4>1. r = Without(q, i)
        BY Zenon, VisibleIs DEF r, q
      <4>2. /\ Without(q, i) \in Seq(Stores) /\ Len(Without(q, i)) = Len(q) - 1
            /\ \A j \in DOMAIN Without(q, i) : Without(q, i)[j] = IF j < i THEN q[j] ELSE q[j + 1]
        BY Zenon, <1>1, WithoutIs
      <4> QED
        BY <1>1, <3>1, <4>1, <4>2
    <3>4. \A j \in DOMAIN r : r[j].field = "waiting_since" => j = Len(r)
      <4> SUFFICES ASSUME NEW j \in DOMAIN r, r[j].field = "waiting_since" PROVE j = Len(r)
        BY ZenonT(60)
      <4>1. j + 1 = Len(q) /\ j \in Nat
        BY <1>1, <3>1, <3>3 DEF r
      <4> QED
        BY <3>3, <4>1
    <3>5. x.field # "turn_started" => \A n : ~Pending(w, "turn_started", n)
      <4> SUFFICES ASSUME NEW n, Pending(w, "turn_started", n) PROVE x.field = "turn_started"
        BY Zenon
      <4>1. PICK k \in DOMAIN q : q[k] = Store("turn_started", n)
        BY Zenon, <1>5
      <4>2. q[k].field = "turn_started"
        BY Zenon, <1>7, <4>1
      <4> QED
        BY Zenon, <1>25, <3>1, <4>2
    <3>6. Pending(w, "waiting_since", 0) => page'[s].turn_started = turn[w]
      <4>1. CASE x.field = "turn_started"
        BY Zenon, <1>1, <1>8, <3>1, <4>1 DEF q, x
      <4>2. CASE x.field # "turn_started"
        BY Zenon, <1>8, <3>1, <3>5, <4>2
      <4> QED
        BY Zenon, <4>1, <4>2
    <3>7. CASE x.field = "waiting_since" /\ x.value > 0
      <4>1. Len(q) = 1
        BY ZenonT(60), <1>1, <3>1, <3>7 DEF q, x
      <4>2. DOMAIN r = {}
        BY <1>1, <3>3, <4>1 DEF r
      <4>3. page'[s].waiting_since # 0
        BY <1>8, <3>7
      <4>4. Shown(w)' /\ ~Pending(w, "waiting_since", 0)'
        BY Zenon, <1>6, <1>9, <4>2, <4>3 DEF Shown
      <4> QED
        BY Zenon, <3>1, <4>2, <4>4 DEF TurnInv, r
    <3>8. CASE ~(x.field = "waiting_since" /\ x.value > 0)
      <4>1. turn'[w] = turn[w]
        BY Zenon, <1>1, <3>8
      <4>2. Pending(w, "waiting_since", 0)' => page'[s].turn_started = turn'[w]
        BY Zenon, <1>14, <3>6, <4>1
      <4>3. Shown(w)'
        <5>1. CASE x.field = "waiting_since"
          <6>1. x = Store("waiting_since", 0)
            BY <1>1, <1>10, <3>8, <5>1 DEF Store, Stores
          <6>2. Pending(w, "waiting_since", 0)
            BY Zenon, <1>1, <1>5, <6>1 DEF q, x
          <6> QED
            BY Zenon, <1>9, <3>6, <4>1, <6>2 DEF Shown
        <5>2. CASE x.field = "turn_started"
          <6>1. page'[s].waiting_since # 0
            BY <1>1, <1>8, <2>1, <3>1, <5>2 DEF q, x
          <6> QED
            BY ZenonT(60), <1>9, <6>1 DEF Shown
        <5>3. CASE x.field \notin {"waiting_since", "turn_started"}
          <6>1. page'[s].waiting_since = page[s].waiting_since /\ page'[s].turn_started = page[s].turn_started
            BY Zenon, <1>8, <5>3
          <6> QED
            BY Zenon, <1>9, <3>1, <4>1, <6>1 DEF Shown, s
        <5> QED
          BY Zenon, <5>1, <5>2, <5>3
      <4> QED
        BY Zenon, <1>9, <3>1, <3>2, <3>4, <4>2, <4>3 DEF TurnInv, r
    <3> QED
      BY Zenon, <3>7, <3>8
  <2> QED
    BY ZenonT(60), <2>2, <2>3, <2>4
<1>24. ASSUME ~WeakStores, reader.seen = w, Reading PROVE StallInv'
  <2>1. /\ reader.slot = s /\ ~Joining(w) /\ ~Joining(w)' /\ StallInv
        /\ reader.now \in Nat
    BY Zenon, <1>2, <1>3, <1>24 DEF SeenInv, LoadInv, OrderInv, s, Types, Readers
  <2>2. Shown(w)'
    BY Zenon, <1>9, <1>23, <1>24, <2>1 DEF TurnInv
  <2>3. \A j \in DOMAIN r : r[j].field # "turn_started"
    BY Zenon, <1>22, <1>24, <2>1
  <2>4. ASSUME reader.at = "turn", reader.waiting_since = 0, Long(page'[s].turn_started) PROVE reader.held
    <3>1. /\ \A k \in DOMAIN q : q[k].field = "turn_started" => q[k].value >= reader.now
          /\ Long(page[s].turn_started) => reader.held
      BY ZenonT(60), <1>1, <1>24, <2>1, <2>4 DEF StallInv, q
    <3>2. CASE x.field = "turn_started"
      <4>1. x.value >= reader.now /\ page'[s].turn_started = x.value
        BY Zenon, <1>1, <1>8, <3>1, <3>2 DEF q, x
      <4> QED
        BY <1>10, <2>1, <2>4, <4>1 DEF Long
    <3>3. CASE x.field # "turn_started"
      BY Zenon, <1>8, <2>4, <3>1, <3>3
    <3> QED
      BY Zenon, <3>2, <3>3
  <2>5. reader' = reader /\ now' = now
    BY Zenon, <1>1
  <2>6. \A n : Long(n)' <=> Long(n)
    BY Zenon, <2>5 DEF Long
  <2>7. Holds(w, s)' /\ Holds(w, s)
    BY Zenon, <1>1, <1>9 DEF Holds, Runs, s
  <2> QED
    BY ZenonT(60), <1>24, <2>1, <2>2, <2>3, <2>4, <2>5, <2>6, <2>7 DEF StallInv, Stalled, r
<1> QED
  BY ZenonT(60), <1>2, <1>11, <1>12, <1>15, <1>17, <1>18, <1>19, <1>20, <1>21, <1>23, <1>24, Assemble

(* What a step of the reader leaves alone, and what is enough to look at.   *)
ReaderStep == UNCHANGED <<now, page, life, home, stores, turn, readings>>

(* The rest of the invariant is kept.                                       *)
LEMMA AssembleReader ==
    ASSUME LoadInv, ReaderStep, reader' \in Readers, left' \subseteq Slots,
           reader'.at = "state" => left' # {}, SeenInv', ViewIsHolders',
           ~WeakStores => StallInv' /\ StalledIsTrue'
    PROVE  LoadInv'
<1>1. UNCHANGED <<now, page, life, home, stores, turn, readings>>
  BY Zenon DEF ReaderStep
<1>2. Types'
  BY Zenon, <1>1 DEF LoadInv, Types, TypeOK
<1>3. ASSUME NEW w \in Workers
      PROVE  (Runs(w)' <=> Runs(w)) /\ (Joining(w)' <=> Joining(w)) /\ (Shown(w)' <=> Shown(w))
             /\ \A f, x : Pending(w, f, x)' <=> Pending(w, f, x)
  BY ZenonT(60), <1>1 DEF Runs, Joining, Shown, Pending
<1>4. ASSUME NEW w \in Workers PROVE StoreInv(w)'
  <2>1. StoreInv(w)
    BY Zenon DEF LoadInv, PageInv
  <2> QED
    BY <1>1, <1>3, <2>1 DEF StoreInv
<1>5. ASSUME NEW w \in Workers PROVE WorkerInv(w)'
  <2>1. WorkerInv(w)
    BY Zenon DEF LoadInv, PageInv
  <2> QED
    BY Zenon, <1>1, <1>3, <2>1 DEF WorkerInv
<1>6. OneHolder' /\ PidIsHolder' /\ ActiveIsHeld'
  BY Zenon, <1>1, SameHolders DEF Holds
<1>7. PageInv'
  BY Zenon, <1>4, <1>5, <1>6 DEF PageInv
<1>8. ASSUME ~WeakStores PROVE OrderInv'
  <2>1. ASSUME NEW w \in Workers PROVE TurnInv(w)'
    <3>1. TurnInv(w)
      BY Zenon, <1>8 DEF LoadInv, OrderInv
    <3> QED
      BY ZenonT(60), <1>1, <1>3, <3>1 DEF TurnInv
  <2>2. ASSUME NEW w \in Workers, life'[w] = "gone", page'[home'[w]].state = ACTIVE PROVE Shown(w)'
    BY Zenon, <1>1, <1>3, <1>8, <2>2 DEF LoadInv, OrderInv
  <2> QED
    BY Zenon, <1>8, <2>1, <2>2 DEF OrderInv
<1> QED
  BY Zenon, <1>2, <1>7, <1>8 DEF LoadInv

(* A reader's record with one field changed.                                *)
LEMMA Fits ==
    ASSUME NEW r \in Readers
    PROVE  /\ \A x \in {"rest", "state", "busy", "since", "turn", "rest of it"} : [r EXCEPT !.at = x] \in Readers
           /\ \A x \in Nat : [r EXCEPT !.now = x] \in Readers /\ [r EXCEPT !.slot = x] \in Readers
                /\ [r EXCEPT !.busy = x] \in Readers /\ [r EXCEPT !.waiting_since = x] \in Readers
                /\ [r EXCEPT !.turn_started = x] \in Readers /\ [r EXCEPT !.seen = x] \in Readers
           /\ \A x \in BOOLEAN : [r EXCEPT !.held = x] \in Readers
           /\ \A x \in SUBSET Nat : [r EXCEPT !.holders = x] \in Readers
<1>1. \A x \in {"rest", "state", "busy", "since", "turn", "rest of it"} : [r EXCEPT !.at = x] \in Readers
  BY Zenon DEF Readers
<1>2. \A x \in Nat : [r EXCEPT !.now = x] \in Readers /\ [r EXCEPT !.slot = x] \in Readers
  BY Zenon DEF Readers
<1>3. \A x \in Nat : [r EXCEPT !.busy = x] \in Readers /\ [r EXCEPT !.waiting_since = x] \in Readers
  BY Zenon DEF Readers
<1>4. \A x \in Nat : [r EXCEPT !.turn_started = x] \in Readers /\ [r EXCEPT !.seen = x] \in Readers
  BY Zenon DEF Readers
<1>5. \A x \in BOOLEAN : [r EXCEPT !.held = x] \in Readers
  BY Zenon DEF Readers
<1>6. \A x \in SUBSET Nat : [r EXCEPT !.holders = x] \in Readers
  BY Zenon DEF Readers
<1> QED
  BY Zenon, <1>1, <1>2, <1>3, <1>4, <1>5, <1>6

(* Between two slots the reader keeps its time only.                        *)
LEMMA RestingFits ==
    /\ Resting \in Readers /\ Resting.at = "rest" /\ Resting.now = 0
    /\ \A t \in Nat : LET r == [Resting EXCEPT !.at = "state", !.now = t] IN
                      r \in Readers /\ r.at = "state" /\ r.now = t
<1>1. Resting \in Readers /\ Resting.at = "rest" /\ Resting.now = 0
  BY Zenon DEF Resting, Readers, NoPid
<1> QED
  <2> SUFFICES ASSUME NEW t \in Nat
               PROVE  LET r == [Resting EXCEPT !.at = "state", !.now = t] IN
                      r \in Readers /\ r.at = "state" /\ r.now = t
    BY Zenon, <1>1
  <2> DEFINE e == [Resting EXCEPT !.at = "state"]
             r == [e EXCEPT !.now = t]
  <2>1. e \in Readers
    BY Zenon, <1>1, Fits
  <2>2. r \in Readers
    <3> HIDE DEF e
    <3> QED
      BY Zenon, <2>1, Fits
  <2>3. r = [Resting EXCEPT !.at = "state", !.now = t] /\ r.at = "state" /\ r.now = t
    BY Zenon DEF Resting
  <2> QED
    BY Zenon, <2>2, <2>3

(* A reader that is not looking at a slot has seen nothing.                 *)
LEMMA NotReading ==
    ASSUME LoadInv, ReaderStep, reader' \in Readers, reader'.at \in {"rest", "state"}, left' \subseteq Slots,
           reader'.at = "state" => left' # {}, ~WeakStores => reader'.now <= now,
           ViewIsHolders', ~WeakStores => StalledIsTrue'
    PROVE  LoadInv'
<1>1. SeenInv'
  BY Zenon DEF SeenInv, Reading
<1>2. now' = now
  BY Zenon DEF ReaderStep
<1>3. ~WeakStores => StallInv'
  BY Zenon, <1>2 DEF StallInv
<1> QED
  BY Zenon, <1>1, <1>3, AssembleReader

(* A snapshot begins.                                                       *)
LEMMA Snapshot ==
    ASSUME LoadConstants, LoadInv, snapshot
    PROVE  LoadInv'
<1>1. now \in Nat
  BY DEF LoadInv, Types, TypeOK
<1>2. reader' \in Readers /\ reader'.at = "state" /\ reader'.now = now
  BY Zenon, <1>1, RestingFits DEF snapshot
<1>3. reader'.now <= now
  BY <1>1, <1>2
<1>4. ReaderStep /\ left' = Slots /\ views' = {} /\ Slots # {}
  BY Zenon DEF snapshot, ReaderStep, LoadConstants
<1>5. ViewIsHolders' /\ StalledIsTrue'
  BY Zenon, <1>4 DEF ViewIsHolders, StalledIsTrue
<1> QED
  BY Zenon, <1>2, <1>3, <1>4, <1>5, NotReading

(* The load of the state: the holder of an active slot has joined.          *)
LEMMA ReadState ==
    ASSUME LoadConstants, LoadInv, readState
    PROVE  LoadInv'
<1> DEFINE s == Lowest(left)
<1>1. reader.at = "state" /\ left # {} /\ ReaderStep /\ views' = views
  BY Zenon DEF readState, ReaderStep
<1>2. reader \in Readers /\ left \subseteq Slots /\ reader.now \in Nat /\ now \in Nat
  <2>1. reader \in Readers /\ left \subseteq Slots /\ now \in Nat
    BY DEF LoadInv, Types, TypeOK
  <2> QED
    BY ZenonT(60), <2>1 DEF Readers
<1>3. s \in left /\ s \in Slots /\ s \in Nat
  BY Zenon, <1>1, <1>2, LowestIs DEF LoadConstants
<1>4. ViewIsHolders' /\ (~WeakStores => StalledIsTrue')
  BY Zenon, <1>1 DEF ViewIsHolders, StalledIsTrue, LoadInv, PageInv, OrderInv
<1>5. ~WeakStores => reader.now <= now
  BY Zenon DEF LoadInv, OrderInv, StallInv
<1>6. /\ page[s].state # ACTIVE => left' = left \ {s} /\ reader' = IF left' = {} THEN Resting ELSE reader
      /\ page[s].state = ACTIVE =>
           /\ reader' = [reader EXCEPT !.at = "busy", !.slot = s, !.seen = Holder(s), !.holders = {Holder(s)}]
           /\ left' = left
  BY Zenon DEF readState
<1> HIDE DEF s
<1>7. CASE page[s].state # ACTIVE
  <2>1. left' \subseteq Slots
    BY Zenon, <1>2, <1>6, <1>7
  <2>2. Resting \in Readers /\ Resting.at = "rest" /\ Resting.now <= now
    <3>1. 0 <= now
      BY <1>2
    <3> QED
      BY Zenon, <3>1, RestingFits
  <2>3. /\ reader' \in Readers /\ reader'.at \in {"rest", "state"} /\ (reader'.at = "state" => left' # {})
        /\ ~WeakStores => reader'.now <= now
    BY Zenon, <1>1, <1>2, <1>5, <1>6, <1>7, <2>2
  <2> QED
    BY Zenon, <1>1, <1>4, <2>1, <2>3, NotReading
<1>8. CASE page[s].state = ACTIVE
  <2>1. PICK w \in Workers : Holds(w, s) /\ page[s].figures = w
    BY Zenon, <1>3, <1>8 DEF LoadInv, PageInv, ActiveIsHeld
  <2>2. Holder(s) = w
    BY Zenon, <1>3, <2>1, HolderIs DEF LoadInv, PageInv
  <2>3. w \in Nat
    BY Zenon DEF LoadConstants
  <2> DEFINE e1 == [reader EXCEPT !.at = "busy"]
             e2 == [e1 EXCEPT !.slot = s]
             e3 == [e2 EXCEPT !.seen = w]
             d == [e3 EXCEPT !.holders = {w}]
  <2>4. d \in Readers
    <3>1. e1 \in Readers
      BY Zenon, <1>2, Fits
    <3>2. e2 \in Readers
      <4> HIDE DEF e1
      <4> QED
        BY Zenon, <1>3, <3>1, Fits
    <3>3. e3 \in Readers
      <4> HIDE DEF e2
      <4> QED
        BY Zenon, <2>3, <3>2, Fits
    <3> HIDE DEF e3
    <3> QED
      BY Zenon, <2>3, <3>3, Fits
  <2>5. d = [reader EXCEPT !.at = "busy", !.slot = s, !.seen = w, !.holders = {w}]
    BY Zenon
  <2>6. d.at = "busy" /\ d.slot = s /\ d.seen = w /\ d.now = reader.now
    BY Zenon, <1>2 DEF Readers
  <2> HIDE DEF d
  <2>7. reader' = d
    BY Zenon, <1>6, <1>8, <2>2, <2>5
  <2>8. home[w] = s /\ life[w] \in {"up", "stopping", "gone"} /\ life[w] # "new"
    BY Zenon, <2>1 DEF Holds
  <2>9. ~Joining(w)
    <3>1. StoreInv(w) /\ WorkerInv(w)
      BY Zenon DEF LoadInv, PageInv
    <3>2. CASE Runs(w)
      BY Zenon, <1>8, <2>8, <3>1, <3>2 DEF WorkerInv
    <3>3. CASE ~Runs(w)
      BY Zenon, <3>1, <3>3 DEF StoreInv, Joining
    <3> QED
      BY Zenon, <3>2, <3>3
  <2>10. UNCHANGED <<now, page, life, home, stores, turn>>
    BY Zenon, <1>1 DEF ReaderStep
  <2>11. SeenInv'
    BY Zenon, <1>3, <2>1, <2>6, <2>7, <2>8, <2>9, <2>10 DEF SeenInv, Joining, Holds
  <2>12. ASSUME ~WeakStores PROVE StallInv'
    <3>1. Shown(w)
      <4>1. CASE Runs(w)
        BY Zenon, <2>9, <2>12, <4>1 DEF LoadInv, OrderInv, TurnInv
      <4>2. CASE life[w] = "gone"
        BY Zenon, <1>8, <2>8, <2>12, <4>2 DEF LoadInv, OrderInv
      <4> QED
        BY Zenon, <2>8, <4>1, <4>2 DEF Runs
    <3>2. Shown(w)'
      BY Zenon, <2>10, <3>1 DEF Shown
    <3> QED
      BY Zenon, <1>5, <2>6, <2>7, <2>10, <2>12, <3>2 DEF StallInv
  <2>13. left' \subseteq Slots /\ reader'.at # "state"
    BY Zenon, <1>2, <1>6, <1>8, <2>6, <2>7
  <2> QED
    BY Zenon, <1>1, <1>4, <2>4, <2>7, <2>11, <2>12, <2>13, AssembleReader
<1> QED
  BY Zenon, <1>7, <1>8

(* The loads after it: the reader goes on with the slot and the worker.     *)
LEMMA ReadOn ==
    ASSUME LoadInv, ReaderStep, Reading, reader' \in Readers, reader'.at \in {"since", "turn", "rest of it"},
           reader'.slot = reader.slot, reader'.seen = reader.seen,
           left' = left, views' = views, ~WeakStores => StallInv'
    PROVE  LoadInv'
<1>1. UNCHANGED <<now, page, life, home, stores, turn>>
  BY Zenon DEF ReaderStep
<1>2. SeenInv'
  BY Zenon, <1>1 DEF LoadInv, PageInv, SeenInv, Joining, Holds
<1>3. ViewIsHolders' /\ (~WeakStores => StalledIsTrue')
  BY Zenon DEF ViewIsHolders, StalledIsTrue, LoadInv, PageInv, OrderInv
<1>4. left' \subseteq Slots /\ reader'.at # "state"
  BY Zenon DEF LoadInv, Types, TypeOK
<1> QED
  BY Zenon, <1>2, <1>3, <1>4, AssembleReader

(* What is there to load.                                                   *)
LEMMA ThereIs ==
    ASSUME LoadConstants, LoadInv, Reading
    PROVE  /\ reader \in Readers /\ reader.now \in Nat /\ reader.slot \in Slots /\ reader.seen \in Workers
           /\ home[reader.seen] = reader.slot /\ turn[reader.seen] \in Nat
           /\ page[reader.slot].busy \in Nat /\ page[reader.slot].waiting_since \in Nat
           /\ page[reader.slot].turn_started \in Nat
           /\ (reader.holders \cup {Holder(reader.slot)}) \in SUBSET Nat
           /\ TrulyStalled \in BOOLEAN
<1>1. reader \in Readers /\ page \in [Slots -> [Fields -> Nat]] /\ turn \in [Workers -> Nat]
  BY Zenon DEF LoadInv, Types, TypeOK
<1>2. reader.slot \in Slots /\ reader.seen \in Workers /\ home[reader.seen] = reader.slot
  BY Zenon DEF LoadInv, PageInv, SeenInv
<1>3. page[reader.slot] \in [Fields -> Nat]
  BY Zenon, <1>1, <1>2
<1>4. /\ page[reader.slot].busy \in Nat /\ page[reader.slot].waiting_since \in Nat
      /\ page[reader.slot].turn_started \in Nat
  BY Zenon, <1>3 DEF Fields
<1>5. reader.now \in Nat /\ reader.holders \in SUBSET Nat
  BY Zenon, <1>1 DEF Readers
<1>6. Holder(reader.slot) \in Nat
  BY Zenon, <1>2, HolderHolds
<1>7. TrulyStalled \in BOOLEAN
  BY Zenon DEF TrulyStalled
<1> QED
  BY Zenon, <1>1, <1>2, <1>4, <1>5, <1>6, <1>7

(* The load of busy.                                                        *)
LEMMA ReadBusy ==
    ASSUME LoadConstants, LoadInv, readBusy
    PROVE  LoadInv'
<1> DEFINE h == reader.holders \cup {Holder(reader.slot)}
           b == page[reader.slot].busy
<1>1. reader.at = "busy" /\ Reading /\ ReaderStep /\ left' = left /\ views' = views
  BY Zenon DEF readBusy, ReaderStep, Reading
<1>2. reader \in Readers /\ h \in SUBSET Nat /\ b \in Nat
  BY Zenon, <1>1, ThereIs
<1>3. reader' = [reader EXCEPT !.at = "since", !.busy = b, !.holders = h]
  BY Zenon DEF readBusy
<1> HIDE DEF h, b
<1> DEFINE e1 == [reader EXCEPT !.at = "since"]
           e2 == [e1 EXCEPT !.busy = b]
           d == [e2 EXCEPT !.holders = h]
<1>4. d \in Readers
  <2>1. e1 \in Readers
    BY Zenon, <1>2, Fits
  <2>2. e2 \in Readers
    <3> HIDE DEF e1
    <3> QED
      BY Zenon, <1>2, <2>1, Fits
  <2> HIDE DEF e2
  <2> QED
    BY Zenon, <1>2, <2>2, Fits
<1>5. d = [reader EXCEPT !.at = "since", !.busy = b, !.holders = h]
  BY Zenon
<1>6. d.at = "since" /\ d.slot = reader.slot /\ d.seen = reader.seen /\ d.now = reader.now
  BY Zenon, <1>2 DEF Readers
<1> HIDE DEF d
<1>7. reader' = d
  BY Zenon, <1>3, <1>5
<1>8. ASSUME ~WeakStores PROVE StallInv'
  <2>1. StallInv /\ UNCHANGED <<now, page, life, home, stores, turn>>
    BY Zenon, <1>1, <1>8 DEF LoadInv, OrderInv, ReaderStep
  <2> QED
    BY Zenon, <1>1, <1>6, <1>7, <2>1 DEF StallInv, Shown, Holds
<1> QED
  BY Zenon, <1>1, <1>4, <1>6, <1>7, <1>8, ReadOn

(* The load of waiting_since: if it is 0, the turn on the page is the       *)
(* worker's, and every later one begins after the reader's time.            *)
LEMMA ReadSince ==
    ASSUME LoadConstants, LoadInv, readSince
    PROVE  LoadInv'
<1> DEFINE h == reader.holders \cup {Holder(reader.slot)}
           n == page[reader.slot].waiting_since
           w == reader.seen
<1>1. reader.at = "since" /\ Reading /\ ReaderStep /\ left' = left /\ views' = views
  BY Zenon DEF readSince, ReaderStep, Reading
<1>2. /\ reader \in Readers /\ h \in SUBSET Nat /\ n \in Nat /\ TrulyStalled \in BOOLEAN
      /\ reader.slot \in Slots /\ w \in Workers /\ home[w] = reader.slot /\ turn[w] \in Nat
  BY Zenon, <1>1, ThereIs
<1>3. reader' = [reader EXCEPT !.at = "turn", !.waiting_since = n, !.held = TrulyStalled, !.holders = h]
  BY Zenon DEF readSince
<1>4. n = page[reader.slot].waiting_since
  BY Zenon
<1> HIDE DEF h, n
<1> DEFINE e1 == [reader EXCEPT !.at = "turn"]
           e2 == [e1 EXCEPT !.waiting_since = n]
           e3 == [e2 EXCEPT !.held = TrulyStalled]
           d == [e3 EXCEPT !.holders = h]
<1>5. d \in Readers
  <2>1. e1 \in Readers
    BY Zenon, <1>2, Fits
  <2>2. e2 \in Readers
    <3> HIDE DEF e1
    <3> QED
      BY Zenon, <1>2, <2>1, Fits
  <2>3. e3 \in Readers
    <3> HIDE DEF e2
    <3> QED
      BY Zenon, <1>2, <2>2, Fits
  <2> HIDE DEF e3
  <2> QED
    BY Zenon, <1>2, <2>3, Fits
<1>6. d = [reader EXCEPT !.at = "turn", !.waiting_since = n, !.held = TrulyStalled, !.holders = h]
  BY Zenon
<1>7. /\ d.at = "turn" /\ d.slot = reader.slot /\ d.seen = w /\ d.now = reader.now
      /\ d.waiting_since = n /\ d.held = TrulyStalled
  BY Zenon, <1>2 DEF Readers
<1> HIDE DEF d
<1>8. reader' = d
  BY Zenon, <1>3, <1>6
<1> HIDE DEF w
<1>9. ASSUME ~WeakStores PROVE StallInv'
  <2>1. UNCHANGED <<now, page, life, home, stores, turn>>
    BY Zenon, <1>1 DEF ReaderStep
  <2>2. reader.now <= now /\ (Holds(w, reader.slot) => Shown(w))
    BY Zenon, <1>1, <1>9 DEF LoadInv, OrderInv, StallInv, w
  <2>3. ASSUME Holds(w, reader.slot), n = 0
        PROVE  /\ \A i \in DOMAIN stores[w] : stores[w][i].field # "turn_started"
               /\ page[reader.slot].turn_started = turn[w]
    <3>1. page[reader.slot].turn_started = turn[w]
      BY Zenon, <1>2, <1>4, <2>2, <2>3 DEF Shown
    <3>2. CASE Runs(w)
      <4>1. TurnInv(w) /\ ~Joining(w)
        BY Zenon, <1>1, <1>2, <1>9 DEF LoadInv, OrderInv, PageInv, SeenInv, w
      <4>2. ~(page[home[w]].waiting_since > 0)
        BY <1>2, <1>4, <2>3
      <4> QED
        BY Zenon, <3>1, <3>2, <4>1, <4>2 DEF TurnInv
    <3>3. CASE ~Runs(w)
      <4>1. stores[w] = <<>>
        BY Zenon, <1>2, <3>3 DEF LoadInv, PageInv, StoreInv
      <4> QED
        BY <3>1, <4>1
    <3> QED
      BY Zenon, <3>2, <3>3
  <2>4. ASSUME Holds(w, reader.slot), turn[w] > 0, reader.now - turn[w] >= StallUs PROVE TrulyStalled
    <3>1. Holder(reader.slot) = w
      BY Zenon, <1>2, <2>4, HolderIs DEF LoadInv, PageInv
    <3>2. w # NoPid
      BY Zenon, <1>2 DEF LoadConstants
    <3> QED
      BY Zenon, <2>4, <3>1, <3>2 DEF TrulyStalled
  <2>6. \A k : Long(k)' <=> Long(k)
    BY Zenon, <1>7, <1>8 DEF Long
  <2>8. ASSUME Holds(w, reader.slot), d.waiting_since = 0
        PROVE  /\ \A i \in DOMAIN stores[w] : stores[w][i].field # "turn_started"
               /\ Long(page[reader.slot].turn_started) => d.held
    BY Zenon, <1>7, <2>3, <2>4, <2>8 DEF Long
  <2> QED
    BY Zenon, <1>7, <1>8, <2>1, <2>2, <2>6, <2>8 DEF StallInv, Holds
<1> QED
  BY Zenon, <1>1, <1>5, <1>7, <1>8, <1>9, ReadOn DEF w

(* The load of turn_started.                                                *)
LEMMA ReadTurn ==
    ASSUME LoadConstants, LoadInv, readTurn
    PROVE  LoadInv'
<1> DEFINE h == reader.holders \cup {Holder(reader.slot)}
           b == page[reader.slot].turn_started
<1>1. reader.at = "turn" /\ Reading /\ ReaderStep /\ left' = left /\ views' = views
  BY Zenon DEF readTurn, ReaderStep, Reading
<1>2. reader \in Readers /\ h \in SUBSET Nat /\ b \in Nat /\ reader.now \in Nat
  BY Zenon, <1>1, ThereIs
<1>3. reader' = [reader EXCEPT !.at = "rest of it", !.turn_started = b, !.holders = h]
  BY Zenon DEF readTurn
<1>4. b = page[reader.slot].turn_started
  BY Zenon
<1> HIDE DEF h, b
<1> DEFINE e1 == [reader EXCEPT !.at = "rest of it"]
           e2 == [e1 EXCEPT !.turn_started = b]
           d == [e2 EXCEPT !.holders = h]
<1>5. d \in Readers
  <2>1. e1 \in Readers
    BY Zenon, <1>2, Fits
  <2>2. e2 \in Readers
    <3> HIDE DEF e1
    <3> QED
      BY Zenon, <1>2, <2>1, Fits
  <2> HIDE DEF e2
  <2> QED
    BY Zenon, <1>2, <2>2, Fits
<1>6. d = [reader EXCEPT !.at = "rest of it", !.turn_started = b, !.holders = h]
  BY Zenon
<1>7. /\ d.at = "rest of it" /\ d.slot = reader.slot /\ d.seen = reader.seen /\ d.now = reader.now
      /\ d.waiting_since = reader.waiting_since /\ d.held = reader.held /\ d.turn_started = b
  BY Zenon, <1>2 DEF Readers
<1> HIDE DEF d
<1>8. reader' = d
  BY Zenon, <1>3, <1>6
<1>9. ASSUME ~WeakStores PROVE StallInv'
  <2>1. StallInv /\ UNCHANGED <<now, page, life, home, stores, turn>>
    BY Zenon, <1>1, <1>9 DEF LoadInv, OrderInv, ReaderStep
  <2>2. Stalled(d) => d.waiting_since = 0 /\ Long(b)
    BY Zenon, <1>7 DEF Stalled, Long
  <2>3. Holds(reader.seen, reader.slot) /\ Stalled(d) => d.held
    BY Zenon, <1>1, <1>4, <1>7, <2>1, <2>2 DEF StallInv
  <2> QED
    BY Zenon, <1>7, <1>8, <2>1, <2>3 DEF StallInv, Holds, Stalled
<1> QED
  BY Zenon, <1>1, <1>5, <1>7, <1>8, <1>9, ReadOn

(* The view: if the slot had one holder all along, that is the worker the   *)
(* reader saw.                                                              *)
LEMMA ReadRest ==
    ASSUME LoadConstants, LoadInv, readRest
    PROVE  LoadInv'
<1> DEFINE h == reader.holders \cup {Holder(reader.slot)}
           v == [slot |-> reader.slot, figures |-> page[reader.slot].figures,
                 busy |-> Discounted(reader), stalled |-> Stalled(reader),
                 held |-> reader.held, seen |-> reader.seen, holders |-> h]
<1>1. reader.at = "rest of it" /\ Reading /\ ReaderStep
  BY Zenon DEF readRest, ReaderStep, Reading
<1>2. /\ left' = left \ {reader.slot} /\ views' = views \cup {v}
      /\ reader' = IF left' = {} THEN Resting ELSE [Resting EXCEPT !.at = "state", !.now = reader.now]
  BY Zenon DEF readRest
<1>3. /\ v.figures = page[reader.slot].figures /\ v.stalled = Stalled(reader) /\ v.held = reader.held
      /\ v.seen = reader.seen /\ v.holders = reader.holders \cup {Holder(reader.slot)}
  BY Zenon
<1> HIDE DEF v, h
<1>4. reader.slot \in Slots /\ reader.seen \in Workers /\ reader.now \in Nat
  BY Zenon, <1>1, ThereIs
<1>5. left' \subseteq Slots /\ now \in Nat
  <2>1. left \subseteq Slots /\ now \in Nat
    BY DEF LoadInv, Types, TypeOK
  <2> QED
    BY Zenon, <1>2, <2>1
<1>6. ~WeakStores => reader.now <= now /\ 0 <= now
  <2>1. ~WeakStores => reader.now <= now
    BY Zenon DEF LoadInv, OrderInv, StallInv
  <2> QED
    BY <1>5, <2>1
<1>7. /\ reader' \in Readers /\ reader'.at \in {"rest", "state"} /\ (reader'.at = "state" => left' # {})
      /\ ~WeakStores => reader'.now <= now
  <2>1. CASE left' = {}
    BY Zenon, <1>2, <1>6, <2>1, RestingFits
  <2>2. CASE left' # {}
    BY Zenon, <1>2, <1>4, <1>6, <2>2, RestingFits
  <2> QED
    BY Zenon, <2>1, <2>2
<1>8. v.holders = {v.seen} => Holds(reader.seen, reader.slot)
  <2>1. v.holders = {v.seen} => Holder(reader.slot) = reader.seen
    BY Zenon, <1>3
  <2>2. reader.seen # NoPid
    BY Zenon, <1>4 DEF LoadConstants
  <2> QED
    BY Zenon, <1>4, <2>1, <2>2, HolderHolds
<1>9. ViewIsHolders'
  <2>1. v.holders = {v.seen} => v.figures = v.seen
    BY Zenon, <1>1, <1>3, <1>8 DEF LoadInv, PageInv, SeenInv
  <2> QED
    BY Zenon, <1>2, <2>1 DEF ViewIsHolders, LoadInv, PageInv
<1>10. ASSUME ~WeakStores PROVE StalledIsTrue'
  <2>1. v.stalled /\ v.holders = {v.seen} => v.held
    BY Zenon, <1>1, <1>3, <1>8, <1>10 DEF LoadInv, OrderInv, StallInv
  <2> QED
    BY Zenon, <1>2, <1>10, <2>1 DEF StalledIsTrue, LoadInv, OrderInv
<1> QED
  BY Zenon, <1>1, <1>5, <1>7, <1>9, <1>10, NotReading

(* The page at the start, all zeros.                                        *)
LEMMA LoadInit ==
    ASSUME LoadConstants, Init
    PROVE  LoadInv
<1>1. now = 1 /\ left = {} /\ views = {} /\ reader = Resting /\ readings = 0
  BY Zenon DEF Init
<1>2. \A w \in Workers : life[w] = "new" /\ home[w] = 0 /\ stores[w] = <<>> /\ turn[w] = 0
  BY Zenon DEF Init
<1>3. \A s \in Slots : page[s].state = 0 /\ page[s].busy = 0 /\ page[s].pid = 0
  BY Zenon DEF Init, Fields
<1>4. Types
  <2>1. now \in 1..MaxTime /\ readings \in 0..MaxReadings
    BY <1>1 DEF LoadConstants
  <2>2. page \in [Slots -> [Fields -> Nat]]
    BY Zenon DEF Init
  <2>3. \A s \in Slots : page[s].state \in {ABSENT, ACTIVE, DRAINING} /\ page[s].busy <= Full
    <3>1. 0 \in {ABSENT, ACTIVE, DRAINING} /\ 0 <= Full
      BY DEF ABSENT, Full
    <3> QED
      BY Zenon, <1>3, <3>1
  <2>4. life \in [Workers -> {"new", "up", "stopping", "gone", "reaped"}] /\ left \subseteq Slots
    BY Zenon, <1>1 DEF Init
  <2>5. home \in [Workers -> Nat] /\ turn \in [Workers -> Nat] /\ stores \in [Workers -> Seq(Stores)]
    BY DEF Init
  <2>6. reader \in Readers
    BY Zenon, <1>1, RestingFits
  <2> QED
    BY Zenon, <2>1, <2>2, <2>3, <2>4, <2>5, <2>6 DEF Types, TypeOK
<1>5. \A w \in Workers : ~Runs(w)
  BY Zenon, <1>2 DEF Runs
<1>6. \A w \in Workers : StoreInv(w)
  BY <1>2 DEF StoreInv
<1>7. \A w \in Workers : WorkerInv(w)
  BY Zenon, <1>2, <1>5 DEF WorkerInv
<1>8. OneHolder /\ PidIsHolder /\ ActiveIsHeld
  <2>1. \A w \in Workers : \A s : ~Holds(w, s)
    BY Zenon, <1>2 DEF Holds
  <2>2. \A s \in Slots : page[s].pid = NoPid /\ page[s].state # ACTIVE
    <3>1. 0 = NoPid /\ 0 # ACTIVE
      BY DEF NoPid, ACTIVE
    <3> QED
      BY Zenon, <1>3, <3>1
  <2> QED
    BY Zenon, <2>1, <2>2 DEF OneHolder, PidIsHolder, ActiveIsHeld
<1>9. reader.at = "rest" /\ reader.now = 0
  BY Zenon, <1>1, RestingFits
<1>10. PageInv
  BY Zenon, <1>1, <1>6, <1>7, <1>8, <1>9 DEF PageInv, SeenInv, Reading, ViewIsHolders
<1>11. OrderInv
  <2>1. reader.now <= now
    BY <1>1, <1>9
  <2>2. StallInv
    BY Zenon, <1>9, <2>1 DEF StallInv
  <2> QED
    BY Zenon, <1>1, <1>2, <1>5, <2>2 DEF OrderInv, TurnInv, StalledIsTrue
<1> QED
  BY Zenon, <1>4, <1>10, <1>11 DEF LoadInv

(* Stuttering.                                                              *)
LEMMA LoadStutter ==
    ASSUME LoadInv, UNCHANGED vars
    PROVE  LoadInv'
<1>1. UNCHANGED <<now, page, life, home, stores, turn, readings, reader, left, views>>
  BY Zenon DEF vars
<1>2. ReaderStep /\ reader' \in Readers /\ left' \subseteq Slots
  BY Zenon, <1>1 DEF ReaderStep, LoadInv, Types, TypeOK
<1>3. SeenInv' /\ ViewIsHolders' /\ (reader'.at = "state" => left' # {})
  BY Zenon, <1>1 DEF LoadInv, PageInv, SeenInv, Reading, Joining, Holds, ViewIsHolders
<1>4. ASSUME ~WeakStores PROVE StallInv' /\ StalledIsTrue'
  <2>1. StallInv /\ StalledIsTrue
    BY Zenon, <1>4 DEF LoadInv, OrderInv
  <2> QED
    BY Zenon, <1>1, <2>1 DEF StallInv, Shown, Holds, Long, Stalled, StalledIsTrue
<1> QED
  BY Zenon, <1>2, <1>3, <1>4, AssembleReader

(* Every step keeps the invariant.                                          *)
LEMMA LoadNext ==
    ASSUME LoadConstants, LoadInv, [Next]_vars
    PROVE  LoadInv'
<1>1. CASE tick
  BY Zenon, <1>1, Tick
<1>2. ASSUME NEW w \in Workers, NEW s \in Slots, join(w, s) PROVE LoadInv'
  BY Zenon, <1>2, Join
<1>3. ASSUME NEW w \in Workers, NEW i \in 1..6, visible(w, i) PROVE LoadInv'
  BY Zenon, <1>3, Visible
<1>4. ASSUME NEW w \in Workers, NEW permille \in {1, Full, Full + 1}, publish(w, permille) PROVE LoadInv'
  <2>1. permille \in Nat
    BY DEF Full
  <2> QED
    BY <1>4, <2>1, Publish
<1>5. ASSUME NEW w \in Workers, waiting(w) PROVE LoadInv'
  BY Zenon, <1>5, Waiting
<1>6. ASSUME NEW w \in Workers, awake(w) PROVE LoadInv'
  BY Zenon, <1>6, Awake
<1>7. ASSUME NEW w \in Workers, draining(w) \/ leave(w) PROVE LoadInv'
  BY Zenon, <1>7, Stopping
<1>8. ASSUME NEW w \in Workers, exit(w) PROVE LoadInv'
  BY Zenon, <1>8, Exit
<1>9. ASSUME NEW w \in Workers, reap(w) PROVE LoadInv'
  BY Zenon, <1>9, Reap
<1>10. CASE snapshot
  BY Zenon, <1>10, Snapshot
<1>11. CASE readState
  BY Zenon, <1>11, ReadState
<1>12. CASE readBusy
  BY Zenon, <1>12, ReadBusy
<1>13. CASE readSince
  BY Zenon, <1>13, ReadSince
<1>14. CASE readTurn
  BY Zenon, <1>14, ReadTurn
<1>15. CASE readRest
  BY Zenon, <1>15, ReadRest
<1>16. CASE UNCHANGED vars
  BY Zenon, <1>16, LoadStutter
<1> QED
  BY <1>1, <1>2, <1>3, <1>4, <1>5, <1>6, <1>7, <1>8, <1>9, <1>10, <1>11, <1>12, <1>13, <1>14, <1>15, <1>16 DEF Next

(* LoadInv holds in every reachable state, of any page.                     *)
THEOREM LoadInvariant ==
    ASSUME LoadConstants
    PROVE  Spec => []LoadInv
<1>1. Init => LoadInv
  BY Zenon, LoadInit
<1>2. LoadInv /\ [Next]_vars => LoadInv'
  BY Zenon, LoadNext
<1> QED
  BY <1>1, <1>2, PTL DEF Spec

(* av_load_join, av_load_reap: only the slot of a worker that was started   *)
(* there and is not reaped is active, and the slot says all of it, whatever *)
(* the order in which stores become visible and wherever workers die; and a *)
(* worker that has joined and is not stopping stays active.                 *)
THEOREM LoadSlotsHeld ==
    ASSUME LoadConstants
    PROVE  Spec => [](ActiveIsHeld /\ OfferedWhileUp)
<1>1. LoadInv => ActiveIsHeld /\ OfferedWhileUp
  <2> SUFFICES ASSUME LoadInv PROVE ActiveIsHeld /\ OfferedWhileUp
    BY Zenon
  <2>1. ASSUME NEW w \in Workers, life[w] = "up", stores[w] = <<>> PROVE page[home[w]].state = ACTIVE
    BY Zenon, <2>1 DEF LoadInv, PageInv, WorkerInv, Runs, Joining
  <2> QED
    BY Zenon, <2>1 DEF LoadInv, PageInv, OfferedWhileUp
<1> QED
  BY <1>1, LoadInvariant, PTL

(* av_load_snapshot: a reader that sees a slot active sees the rest of what *)
(* its worker wrote, so long as the slot does not change hands meanwhile.   *)
THEOREM LoadViewHeld ==
    ASSUME LoadConstants
    PROVE  Spec => []ViewIsHolders
<1>1. LoadInv => ViewIsHolders
  BY Zenon DEF LoadInv, PageInv
<1> QED
  BY <1>1, LoadInvariant, PTL

(* av_load_awake, av_load_snapshot: where stores become visible in the      *)
(* order they are made, a worker is reported stalled only if it has been on *)
(* one turn of work for that long.                                          *)
THEOREM LoadStalledTrue ==
    ASSUME LoadConstants, WeakStores = FALSE
    PROVE  Spec => []StalledIsTrue
<1>1. LoadInv => StalledIsTrue
  BY Zenon DEF LoadInv, OrderInv
<1> QED
  BY <1>1, LoadInvariant, PTL

=============================================================================
