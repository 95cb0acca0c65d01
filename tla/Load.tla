-------------------------------- MODULE Load --------------------------------
(* The shared load page (avian_load.c): each worker writes its own slot, a  *)
(* reader takes a snapshot of every active one, the supervisor clears the   *)
(* slots of the workers it reaps.  Every atomic load and store of a slot is *)
(* a step.  What a slot says of its worker besides busy and the two times   *)
(* (channel, connections, the waits) is one field, `figures`, whose value   *)
(* is the worker it is about.                                               *)
EXTENDS Integers, Sequences

CONSTANTS
    Slots,
    Workers,            \* every worker that ever runs, by its pid
    QuietUs, StallUs,   \* AV_LOAD_QUIET_US, AV_LOAD_STALL_US
    WeakStores,         \* relaxed stores may become visible in any order (arm64)
    MaxTime,            \* bound: the clock
    MaxReadings         \* bound: how often busy is published

Fields == {"state", "busy", "waiting_since", "figures", "pid", "turn_started"}

NoPid == 0
ABSENT == 0
ACTIVE == 1
DRAINING == 2

Full == 1000        \* a busy share is in thousandths

VARIABLES
    now,
    page,       \* per slot, its fields
    life,       \* per worker: new, up, stopping, gone (not reaped yet) or reaped
    home,       \* per worker: the slot it was started in
    stores,     \* per worker: the stores it has issued that are not visible yet
    turn,       \* per worker: (history) when its turn of work began, 0 once it has said that it waits
    readings,   \* how often busy was published
    reader,     \* the slot being read: what was loaded, and (history) by whom it was held
    left,       \* the slots the snapshot has still to look at
    views       \* what the snapshot has written

vars == <<now, page, life, home, stores, turn, readings, reader, left, views>>

Resting ==
    [at |-> "rest", now |-> 0, slot |-> 0, busy |-> 0, waiting_since |-> 0, turn_started |-> 0,
     held |-> FALSE, seen |-> NoPid, holders |-> {}]

Init ==
    /\ now = 1
    /\ page = [s \in Slots |-> [f \in Fields |-> 0]]
    /\ life = [w \in Workers |-> "new"]
    /\ home = [w \in Workers |-> 0]
    /\ stores = [w \in Workers |-> <<>>]
    /\ turn = [w \in Workers |-> 0]
    /\ readings = 0
    /\ reader = Resting
    /\ left = {}
    /\ views = {}

(* The clock.                                                               *)
tick ==
    /\ now < MaxTime
    /\ now' = now + 1
    /\ UNCHANGED <<page, life, home, stores, turn, readings, reader, left, views>>

(* The worker that holds a slot: started there, and not reaped.             *)
Holds(w, s) == home[w] = s /\ life[w] \in {"up", "stopping", "gone"}
Holder(s) == IF \E w \in Workers : Holds(w, s) THEN CHOOSE w \in Workers : Holds(w, s) ELSE NoPid

-----------------------------------------------------------------------------
(* The workers.  A call issues its stores; each becomes visible in a step   *)
(* of its own.  The next call is made when they all are.                    *)

Store(field, value) == [field |-> field, value |-> value]
Runs(w) == life[w] \in {"up", "stopping"}
Idle(w) == Runs(w) /\ stores[w] = <<>>
Issue(w, list) == stores' = [stores EXCEPT ![w] = list]

(* The stores of av_load_join, the state last.                              *)
JoinStores(w) ==
    <<Store("busy", 0), Store("waiting_since", 0), Store("figures", w), Store("pid", w),
      Store("turn_started", 0), Store("state", ACTIVE)>>

(* The supervisor starts a worker in a slot that no other holds; it joins.  *)
join(w, s) ==
    /\ life[w] = "new" /\ Holder(s) = NoPid
    /\ life' = [life EXCEPT ![w] = "up"]
    /\ home' = [home EXCEPT ![w] = s]
    /\ Issue(w, JoinStores(w))
    /\ UNCHANGED <<now, page, turn, readings, reader, left, views>>

(* A store becomes visible: the first one or, with weak stores, any that no *)
(* earlier store to the same field and no release keeps back.  The store of *)
(* the state in av_load_join is a release.                                  *)
visible(w, i) ==
    /\ Runs(w) /\ i \in DOMAIN stores[w]
    /\ (i = 1) \/ (WeakStores /\ stores[w][i].field # "state")
    /\ page' = [page EXCEPT ![home[w]][stores[w][i].field] = stores[w][i].value]
    /\ stores' = [stores EXCEPT ![w] = SubSeq(@, 1, i - 1) \o SubSeq(@, i + 1, Len(@))]
    /\ turn' = IF stores[w][i].field = "waiting_since" /\ stores[w][i].value > 0
               THEN [turn EXCEPT ![w] = 0] ELSE turn
    /\ UNCHANGED <<now, life, home, readings, reader, left, views>>

publish(w, permille) ==
    /\ Idle(w) /\ readings < MaxReadings
    /\ readings' = readings + 1
    /\ Issue(w, <<Store("busy", IF permille > Full THEN Full ELSE permille)>>)
    /\ UNCHANGED <<now, page, life, home, turn, reader, left, views>>

waiting(w) ==
    /\ Idle(w) /\ page[home[w]].waiting_since = 0
    /\ Issue(w, <<Store("waiting_since", now)>>)
    /\ UNCHANGED <<now, page, life, home, turn, readings, reader, left, views>>

(* The stores of av_load_awake.                                             *)
AwakeStores == <<Store("turn_started", now), Store("waiting_since", 0)>>

awake(w) ==
    /\ Idle(w) /\ page[home[w]].waiting_since > 0
    /\ turn' = [turn EXCEPT ![w] = now]
    /\ Issue(w, AwakeStores)
    /\ UNCHANGED <<now, page, life, home, readings, reader, left, views>>

draining(w) ==
    /\ Idle(w) /\ life[w] = "up"
    /\ life' = [life EXCEPT ![w] = "stopping"]
    /\ Issue(w, <<Store("state", DRAINING)>>)
    /\ UNCHANGED <<now, page, home, turn, readings, reader, left, views>>

leave(w) ==
    /\ Idle(w) /\ page[home[w]].state # ABSENT
    /\ life' = [life EXCEPT ![w] = "stopping"]
    /\ Issue(w, <<Store("state", ABSENT)>>)
    /\ UNCHANGED <<now, page, home, turn, readings, reader, left, views>>

(* A worker ends, wherever it is: one that crashes writes nothing more.     *)
exit(w) ==
    /\ Runs(w)
    /\ life' = [life EXCEPT ![w] = "gone"]
    /\ stores' = [stores EXCEPT ![w] = <<>>]
    /\ UNCHANGED <<now, page, home, turn, readings, reader, left, views>>

ReapPidOnly(w) ==
    /\ life[w] = "gone"
    /\ life' = [life EXCEPT ![w] = "reaped"]
    /\ page' = [s \in Slots |-> IF page[s].pid # w THEN page[s] ELSE [page[s] EXCEPT !.pid = NoPid]]
    /\ UNCHANGED <<now, home, stores, turn, readings, reader, left, views>>

(* av_load_reap in the supervisor: every slot with that pid.  No other      *)
(* process writes such a slot, its worker being gone.                       *)
reap(w) ==
    /\ life[w] = "gone"
    /\ life' = [life EXCEPT ![w] = "reaped"]
    /\ page' = [s \in Slots |-> IF page[s].pid # w THEN page[s]
                                ELSE [page[s] EXCEPT !.state = ABSENT, !.pid = NoPid]]
    /\ UNCHANGED <<now, home, stores, turn, readings, reader, left, views>>

-----------------------------------------------------------------------------
(* The reader: av_load_snapshot.                                            *)

snapshot ==
    /\ reader = Resting /\ left = {}
    /\ reader' = [Resting EXCEPT !.at = "state", !.now = now]
    /\ left' = Slots
    /\ views' = {}
    /\ UNCHANGED <<now, page, life, home, stores, turn, readings>>

Lowest(S) == CHOOSE s \in S : \A r \in S : s <= r

readState ==
    /\ reader.at = "state" /\ left # {}
    /\ LET s == Lowest(left) IN
       IF page[s].state # ACTIVE
       THEN /\ left' = left \ {s}
            /\ reader' = IF left' = {} THEN Resting ELSE reader
       ELSE /\ reader' = [reader EXCEPT !.at = "busy", !.slot = s,
                                       !.seen = Holder(s), !.holders = {Holder(s)}]
            /\ UNCHANGED left
    /\ UNCHANGED <<now, page, life, home, stores, turn, readings, views>>

(* Each load of a field is a step.                                          *)
readBusy ==
    /\ reader.at = "busy"
    /\ reader' = [reader EXCEPT !.at = "since", !.busy = page[reader.slot].busy,
                                !.holders = @ \cup {Holder(reader.slot)}]
    /\ UNCHANGED <<now, page, life, home, stores, turn, readings, left, views>>

(* History: whether the worker in the slot really is on a turn that long.   *)
TrulyStalled ==
    LET w == Holder(reader.slot) IN w # NoPid /\ turn[w] > 0 /\ reader.now - turn[w] >= StallUs

readSince ==
    /\ reader.at = "since"
    /\ reader' = [reader EXCEPT !.at = "turn", !.waiting_since = page[reader.slot].waiting_since,
                                !.held = TrulyStalled, !.holders = @ \cup {Holder(reader.slot)}]
    /\ UNCHANGED <<now, page, life, home, stores, turn, readings, left, views>>

readTurn ==
    /\ reader.at = "turn"
    /\ reader' = [reader EXCEPT !.at = "rest of it", !.turn_started = page[reader.slot].turn_started,
                                !.holders = @ \cup {Holder(reader.slot)}]
    /\ UNCHANGED <<now, page, life, home, stores, turn, readings, left, views>>

(* What the reader makes of the three.                                      *)
Stalled(r) ==
    /\ r.waiting_since = 0 /\ r.turn_started > 0
    /\ r.now > r.turn_started /\ r.now - r.turn_started >= StallUs
Discounted(r) ==
    LET quiet == r.now - r.waiting_since IN
    IF r.waiting_since > 0 /\ r.now > r.waiting_since
    THEN IF quiet >= QuietUs THEN 0 ELSE (r.busy * (QuietUs - quiet)) \div QuietUs
    ELSE IF Stalled(r) THEN Full ELSE r.busy

(* The rest is loaded and the view written.                                 *)
readRest ==
    /\ reader.at = "rest of it"
    /\ left' = left \ {reader.slot}
    /\ views' = views \cup
         {[slot |-> reader.slot, figures |-> page[reader.slot].figures,
           busy |-> Discounted(reader), stalled |-> Stalled(reader),
           held |-> reader.held, seen |-> reader.seen,
           holders |-> reader.holders \cup {Holder(reader.slot)}]}
    /\ reader' = IF left' = {} THEN Resting ELSE [Resting EXCEPT !.at = "state", !.now = reader.now]
    /\ UNCHANGED <<now, page, life, home, stores, turn, readings>>

Next ==
    \/ tick
    \/ \E w \in Workers :
        \/ \E s \in Slots : join(w, s)
        \/ \E i \in 1..6 : visible(w, i)
        \/ \E permille \in {1, Full, Full + 1} : publish(w, permille)
        \/ waiting(w) \/ awake(w) \/ draining(w) \/ leave(w) \/ exit(w) \/ reap(w)
    \/ snapshot \/ readState \/ readBusy \/ readSince \/ readTurn \/ readRest

Spec == Init /\ [][Next]_vars

-----------------------------------------------------------------------------
(* What the constants are: slots are numbered, there is one at least, and   *)
(* pids are positive.                                                       *)
LoadConstants ==
    /\ Slots \subseteq Nat /\ Slots # {} /\ Workers \subseteq Nat \ {NoPid}
    /\ QuietUs \in Nat \ {0} /\ StallUs \in Nat /\ WeakStores \in BOOLEAN
    /\ MaxTime \in Nat \ {0} /\ MaxReadings \in Nat

(* The page is well formed.                                                 *)
TypeOK ==
    /\ now \in 1..MaxTime /\ readings \in 0..MaxReadings
    /\ page \in [Slots -> [Fields -> Nat]]
    /\ \A s \in Slots : page[s].state \in {ABSENT, ACTIVE, DRAINING} /\ page[s].busy <= Full
    /\ life \in [Workers -> {"new", "up", "stopping", "gone", "reaped"}]
    /\ left \subseteq Slots

(* Only a worker is offered connections: an active slot is that of a worker *)
(* started there and not reaped, and the slot says all of it.  One that     *)
(* crashed in the middle of av_load_join or later is cleared by             *)
(* av_load_reap, whatever it had written.                                   *)
ActiveIsHeld ==
    \A s \in Slots : page[s].state = ACTIVE =>
        \E w \in Workers : Holds(w, s) /\ page[s].figures = w /\ page[s].pid = w

(* A worker that has joined and is not stopping is offered connections,     *)
(* whatever other workers were reaped since (av_load_reap clears by pid).   *)
OfferedWhileUp ==
    \A w \in Workers : life[w] = "up" /\ stores[w] = <<>> => page[home[w]].state = ACTIVE

(* A reader that sees a slot active sees the rest of what its worker wrote, *)
(* so long as the slot does not change hands while it reads.                *)
ViewIsHolders ==
    \A v \in views : v.holders = {v.seen} => v.figures = v.seen

(* A worker is reported stalled only if it has been on one turn of work for *)
(* that long (av_load.h), so long as its slot does not change hands.        *)
StalledIsTrue ==
    \A v \in views : v.stalled /\ v.holders = {v.seen} => v.held

(* The comment in av_load_join: "a reader that sees the slot active sees    *)
(* the rest of it".                                                         *)
ActiveSeesRest ==
    \A v \in views : v.figures = v.seen

=============================================================================
