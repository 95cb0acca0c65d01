------------------------------ MODULE MCShared ------------------------------
(* The memory that worker processes share, besides the bus: the response    *)
(* cache, the rate limit and the load page.  CacheStoredIsNewest and        *)
(* LoadActiveSeesRest, and some of the others on the instances that the     *)
(* tables name as the last, are what comments say and the code does not do; *)
(* README.md says where.                                                    *)
EXTENDS TLC

CONSTANTS
    Instances,      \* the instances that are run
    p1, p2,         \* the processes
    Nobody,         \* no owner of a slot
    Empty,          \* the key of an entry never used
    None            \* no slot, no key, no entry

VARIABLES
    instance,       \* the one this behaviour is of
    generation, sequence, marks, slot, now, dead, open, call, newest, changed,
    key, tat, clock, check, due,
    loadNow, page, life, home, stores, turn, readings, reader, left, views

Off == "off"        \* the variables of the modules it is not of

Symmetric == Permutations({p1, p2})

-----------------------------------------------------------------------------
(* Two responses that compete for a slot in each of two size classes; one   *)
(* that is stored, read and changed more often; a process that dies with a  *)
(* slot claimed; a flush.  Copies expire in the former.  The last two have  *)
(* a comment that the code does not keep: two slots in one class, and a     *)
(* store that meets a newer copy.                                           *)
CacheBounds == [
    cache_keys |-> [Keys |-> {"a", "b"}, Marks |-> {"m1", "m2"},
        MarkOf |-> [a |-> "m1", b |-> "m2"], Slots |-> {"s1", "s2"},
        ClassOf |-> [s1 |-> "small", s2 |-> "large"],
        Probes |-> [a |-> <<"s1", "s2">>, b |-> <<"s1", "s2">>], MaxSequence |-> 3,
        MaxGeneration |-> 1, MaxTime |-> 0, MaxDeaths |-> 0],
    cache_calls |-> [Keys |-> {"a"}, Marks |-> {"m1"}, MarkOf |-> [a |-> "m1"],
        Slots |-> {"s1", "s2"}, ClassOf |-> [s1 |-> "small", s2 |-> "large"],
        Probes |-> [a |-> <<"s1", "s2">>], MaxSequence |-> 4, MaxGeneration |-> 1,
        MaxTime |-> 0, MaxDeaths |-> 0],
    cache_crash |-> [Keys |-> {"a"}, Marks |-> {"m1"}, MarkOf |-> [a |-> "m1"],
        Slots |-> {"s1", "s2"}, ClassOf |-> [s1 |-> "small", s2 |-> "large"],
        Probes |-> [a |-> <<"s1", "s2">>], MaxSequence |-> 3, MaxGeneration |-> 1,
        MaxTime |-> 1, MaxDeaths |-> 1],
    cache_flush |-> [Keys |-> {"a"}, Marks |-> {"m1"}, MarkOf |-> [a |-> "m1"],
        Slots |-> {"s1", "s2"}, ClassOf |-> [s1 |-> "small", s2 |-> "large"],
        Probes |-> [a |-> <<"s1", "s2">>], MaxSequence |-> 3, MaxGeneration |-> 2,
        MaxTime |-> 0, MaxDeaths |-> 0],
    cache_older |-> [Keys |-> {"a"}, Marks |-> {"m1"}, MarkOf |-> [a |-> "m1"],
        Slots |-> {"s1", "s2", "s3"},
        ClassOf |-> [s1 |-> "small", s2 |-> "large", s3 |-> "large"],
        Probes |-> [a |-> <<"s1", "s2", "s3">>], MaxSequence |-> 4,
        MaxGeneration |-> 1, MaxTime |-> 0, MaxDeaths |-> 0],
    cache_stored |-> [Keys |-> {"a"}, Marks |-> {"m1"}, MarkOf |-> [a |-> "m1"],
        Slots |-> {"s1", "s2"}, ClassOf |-> [s1 |-> "small", s2 |-> "large"],
        Probes |-> [a |-> <<"s1", "s2">>], MaxSequence |-> 3, MaxGeneration |-> 1,
        MaxTime |-> 0, MaxDeaths |-> 0]]

cacheVars == <<generation, sequence, marks, slot, now, dead, open, call, newest, changed>>
CacheInstances == Instances \cap DOMAIN CacheBounds
Cache(k) == INSTANCE Cache WITH
    Workers <- {p1, p2}, Classes <- {"small", "large"}, Keys <- CacheBounds[k].Keys,
    Marks <- CacheBounds[k].Marks, MarkOf <- CacheBounds[k].MarkOf,
    Slots <- CacheBounds[k].Slots, ClassOf <- CacheBounds[k].ClassOf,
    Probes <- CacheBounds[k].Probes, MaxSequence <- CacheBounds[k].MaxSequence,
    MaxGeneration <- CacheBounds[k].MaxGeneration, MaxTime <- CacheBounds[k].MaxTime,
    MaxDeaths <- CacheBounds[k].MaxDeaths

CacheOff ==
    /\ generation = Off /\ sequence = Off /\ marks = Off /\ slot = Off
    /\ now = Off /\ dead = Off /\ open = Off /\ call = Off
    /\ newest = Off /\ changed = Off

-----------------------------------------------------------------------------
(* Two workers that charge the same two clients; one worker with more       *)
(* clients than entries.  The last has both, and a client gets two entries. *)
RateBounds == [
    rate_workers |-> [Workers |-> {p1, p2}, Clients |-> {"u", "v"},
        Probes |-> [u |-> <<"e1", "e2">>, v |-> <<"e1", "e2">>], Tolerance |-> 2,
        MaxTime |-> 5],
    rate_takeover |-> [Workers |-> {p1}, Clients |-> {"u", "v", "w"},
        Probes |-> [u |-> <<"e1", "e2">>, v |-> <<"e1", "e2">>, w |-> <<"e2", "e1">>],
        Tolerance |-> 2, MaxTime |-> 7],
    rate_full |-> [Workers |-> {p1, p2}, Clients |-> {"u", "v", "w"},
        Probes |-> [u |-> <<"e1", "e2">>, v |-> <<"e1", "e2">>, w |-> <<"e2", "e1">>],
        Tolerance |-> 0, MaxTime |-> 4]]

rateVars == <<key, tat, clock, check, due>>
RateInstances == Instances \cap DOMAIN RateBounds
Rate(k) == INSTANCE RateLimit WITH
    Entries <- {"e1", "e2"}, Emission <- 2, Workers <- RateBounds[k].Workers,
    Clients <- RateBounds[k].Clients, Probes <- RateBounds[k].Probes,
    Tolerance <- RateBounds[k].Tolerance, MaxTime <- RateBounds[k].MaxTime, call <- check

RateOff ==
    /\ key = Off /\ tat = Off /\ clock = Off /\ check = Off
    /\ due = Off

-----------------------------------------------------------------------------
(* Two workers in two slots whose stores become visible in any order; two   *)
(* that follow each other in one slot while a snapshot is taken; one that   *)
(* publishes its busy share.  The last has one worker whose stores are seen *)
(* in any order.                                                            *)
LoadBounds == [
    load_page |-> [Slots |-> {0, 1}, Workers |-> {1, 2}, QuietUs |-> 1,
        WeakStores |-> TRUE, MaxTime |-> 1, MaxReadings |-> 0],
    load_view |-> [Slots |-> {0}, Workers |-> {1, 2}, QuietUs |-> 2,
        WeakStores |-> FALSE, MaxTime |-> 3, MaxReadings |-> 0],
    load_busy |-> [Slots |-> {0}, Workers |-> {1}, QuietUs |-> 2,
        WeakStores |-> FALSE, MaxTime |-> 2, MaxReadings |-> 1],
    load_weak |-> [Slots |-> {0}, Workers |-> {1}, QuietUs |-> 2,
        WeakStores |-> TRUE, MaxTime |-> 3, MaxReadings |-> 0]]

loadVars == <<loadNow, page, life, home, stores, turn, readings, reader, left, views>>
LoadInstances == Instances \cap DOMAIN LoadBounds
Load(k) == INSTANCE Load WITH
    StallUs <- 1, Slots <- LoadBounds[k].Slots, Workers <- LoadBounds[k].Workers,
    QuietUs <- LoadBounds[k].QuietUs, WeakStores <- LoadBounds[k].WeakStores,
    MaxTime <- LoadBounds[k].MaxTime, MaxReadings <- LoadBounds[k].MaxReadings,
    now <- loadNow

LoadOff ==
    /\ loadNow = Off /\ page = Off /\ life = Off /\ home = Off
    /\ stores = Off /\ turn = Off /\ readings = Off /\ reader = Off
    /\ left = Off /\ views = Off

-----------------------------------------------------------------------------
Init ==
    \/ \E k \in CacheInstances :
        instance = k /\ Cache(k)!Init /\ RateOff /\ LoadOff
    \/ \E k \in RateInstances :
        instance = k /\ Rate(k)!Init /\ CacheOff /\ LoadOff
    \/ \E k \in LoadInstances :
        instance = k /\ Load(k)!Init /\ CacheOff /\ RateOff

vars == <<instance, cacheVars, rateVars, loadVars>>

Next ==
    /\ UNCHANGED instance
    /\ \/ \E k \in CacheInstances : instance = k /\ Cache(k)!Next /\ UNCHANGED <<rateVars, loadVars>>
       \/ \E k \in RateInstances : instance = k /\ Rate(k)!Next /\ UNCHANGED <<cacheVars, loadVars>>
       \/ \E k \in LoadInstances : instance = k /\ Load(k)!Next /\ UNCHANGED <<cacheVars, rateVars>>
       \/ instance \in LoadInstances /\ UNCHANGED vars

Spec == Init /\ [][Next]_vars

-----------------------------------------------------------------------------
(* av_cache_get, claim, owner_gone: a hit returns the whole of one          *)
(* response, to the request that was asked, no part of it from another,     *)
(* whatever was written while it was copied; a slot is written by one live  *)
(* process, whose claim it carries; and every stable slot that a lookup     *)
(* could match holds one whole response, also after the process that was    *)
(* writing it died.                                                         *)
CacheGetIsWhole ==
    \A k \in CacheInstances : instance = k =>
        /\ Cache(k)!CacheConstants
        /\ Cache(k)!TypeOK
        /\ Cache(k)!SlotExclusive
        /\ Cache(k)!IntactGet
        /\ Cache(k)!StableIsWhole

(* av_cache_get, av_cache_invalidate, retire_older: a hit was dispatched    *)
(* after every change of its target that was complete when the lookup       *)
(* began, and is as recent as every copy published in its generation before *)
(* that, unless a flush came meanwhile.                                     *)
CacheGetIsFresh ==
    \A k \in CacheInstances : instance = k =>
        /\ Cache(k)!NotAfterChange
        /\ Cache(k)!NeverOlder

(* What avian_cache.h promises: a store that succeeds is not of a response  *)
(* that a more recent copy is kept of.                                      *)
CacheStoredIsNewest == \A k \in CacheInstances : instance = k => Cache(k)!StoredIsNewest

(* av_ratelimit_check, find: the requests of a client that were charged run *)
(* ahead of the sustained rate by no more than the burst, whichever workers *)
(* took them; a request is refused only if its own client has used up its   *)
(* burst; and a client has one entry.                                       *)
RateIsKept ==
    \A k \in RateInstances : instance = k =>
        /\ Rate(k)!TypeOK
        /\ Rate(k)!RateKept
        /\ Rate(k)!RefusedFairly
        /\ Rate(k)!OneEntry

(* av_load_join, av_load_reap, av_load_snapshot: an active slot is that of  *)
(* a worker started there and not reaped, and one that has joined and is    *)
(* not stopping stays active whatever others were reaped since; so long as  *)
(* a slot does not change hands, a reader that sees it active sees the rest *)
(* of what its worker wrote, and reports it stalled only if it has been on  *)
(* one turn that long.                                                      *)
LoadViewIsTrue ==
    \A k \in LoadInstances : instance = k =>
        /\ Load(k)!LoadConstants
        /\ Load(k)!TypeOK
        /\ Load(k)!ActiveIsHeld
        /\ Load(k)!OfferedWhileUp
        /\ Load(k)!ViewIsHolders
        /\ Load(k)!StalledIsTrue

(* The comment in av_load_join: "a reader that sees the slot active sees    *)
(* the rest of it".                                                         *)
LoadActiveSeesRest == \A k \in LoadInstances : instance = k => Load(k)!ActiveSeesRest
=============================================================================
