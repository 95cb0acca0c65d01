----------------------------- MODULE BusProofs ------------------------------
(***************************************************************************)
(* The safety of the ring and of the bus, for any number of processes,     *)
(* slots, messages, entries and deaths.                                    *)
(* The ring: first its types, and what steps leave alone: every step keeps *)
(* TypeOK and ClaimInv of BusRing; a step that only advances the ring      *)
(* (Advances) cannot mislead a reader (ReaderStable); one that leaves the  *)
(* ring, the holder or a process as it was keeps what IInv says of them.   *)
(* Then the steps of a call, one by one; last, that IInv is inductive, and *)
(* what follows from it.                                                   *)
(* The bus: each of its steps is a step of the ring or leaves the ring     *)
(* alone; cursors are numbers given, calls are where the slots say, living *)
(* workers have slots of their own, and SleepInv of Bus is kept by the     *)
(* steps that touch the slots. So the bus implements the ring, no worker   *)
(* sleeps through a message, and no cursor passes a message that the ring  *)
(* still holds.                                                            *)
(***************************************************************************)
EXTENDS Bus, TLAPS

(* Two positions that share a place in the ring are a whole ring apart.     *)
LEMMA ModApart ==
    ASSUME NEW n \in Nat \ {0}, NEW a \in Nat, NEW b \in Nat, a % n = b % n, a < b
    PROVE  b >= a + n
<1>1. a = n * (a \div n) + (a % n) /\ b = n * (b \div n) + (b % n)
  OBVIOUS
<1>2. a \div n \in Int /\ b \div n \in Int
  OBVIOUS
<1>3. n * (b \div n) > n * (a \div n)
  BY <1>1, <1>2
<1>4. b \div n > a \div n
  BY <1>2, <1>3
<1>5. b \div n >= (a \div n) + 1
  BY <1>2, <1>4
<1>6. n * (b \div n) >= n * ((a \div n) + 1)
  BY <1>2, <1>5
<1>7. n * ((a \div n) + 1) = n * (a \div n) + n
  BY <1>2
<1> QED
  BY <1>1, <1>2, <1>6, <1>7

(* Two different positions less than a ring apart are different places.     *)
LEMMA PlaceApart ==
    /\ \A a \in Nat : Place(a) \in 0..Capacity-1
    /\ \A a, b \in Nat : Place(a) = Place(b) => a = b \/ b >= a + Capacity \/ a >= b + Capacity
<1>1. Capacity \in Nat \ {0}
  BY SizeAssumption DEF RecordSize
<1>2. \A a \in Nat : Place(a) \in 0..Capacity-1
  BY <1>1 DEF Place
<1>3. ASSUME NEW a \in Nat, NEW b \in Nat, Place(a) = Place(b)
      PROVE  a = b \/ b >= a + Capacity \/ a >= b + Capacity
  <2>1. CASE a < b
    BY Zenon, <1>1, <1>3, <2>1, ModApart DEF Place
  <2>2. CASE b < a
    BY Zenon, <1>1, <1>3, <2>2, ModApart DEF Place
  <2> QED
    BY <2>1, <2>2
<1> QED
  BY Zenon, <1>2, <1>3

(* Two different numbers less than an index apart are different entries.    *)
LEMMA SlotApart ==
    /\ \A a \in Nat : Slot(a) \in 0..Entries-1
    /\ \A a, b \in Nat : Slot(a) = Slot(b) => a = b \/ b >= a + Entries \/ a >= b + Entries
<1>1. Entries \in Nat \ {0}
  BY Zenon, SizeAssumption
<1>2. \A a \in Nat : Slot(a) \in 0..Entries-1
  BY <1>1 DEF Slot
<1>3. ASSUME NEW a \in Nat, NEW b \in Nat, Slot(a) = Slot(b)
      PROVE  a = b \/ b >= a + Entries \/ a >= b + Entries
  <2>1. CASE a < b
    BY Zenon, <1>1, <1>3, <2>1, ModApart DEF Slot
  <2>2. CASE b < a
    BY Zenon, <1>1, <1>3, <2>2, ModApart DEF Slot
  <2> QED
    BY <2>1, <2>2
<1> QED
  BY Zenon, <1>2, <1>3

-----------------------------------------------------------------------------
(* The facts about cells and buffers every typing step needs.               *)
LEMMA CellTypes ==
    /\ ZeroCell \in Cells
    /\ \A s \in Nat, p \in Procs, len \in 0..MaxBody, i \in Nat : Cell(s, p, len, i) \in Cells
    /\ \A len \in 0..MaxBody : RecordCells(len) \subseteq BufferCells
    /\ RecordCells(0) \subseteq BufferCells
    /\ BufferCells \subseteq Nat
    /\ 0 \in BufferCells /\ 1 \in BufferCells
BY SizeAssumption DEF ZeroCell, Cells, Cell, RecordCells, BufferCells, RecordSize

(* What the types say of the numbers one process works with.                *)
LEMMA LocalTypes ==
    ASSUME TypeOK, NEW p \in Procs
    PROVE  /\ tail \in Nat /\ high \in Nat /\ oldest \in Nat /\ next \in Nat
           /\ wseq[p] \in Nat /\ wpos[p] \in Nat /\ wlen[p] \in 0..MaxBody
           /\ wleft[p] \subseteq BufferCells
           /\ rseq[p] \in Nat /\ rbuf[p] \in Nat /\ rpos[p] \in Nat /\ rlen[p] \in 0..MaxBody
           /\ rleft[p] \subseteq BufferCells
           /\ got[p] \in [BufferCells -> Cells]
           /\ \A len \in LengthIn(got[p][1]) : len \in 0..MaxBody+1
           /\ MaxBody \in Nat /\ RecordSize \in Nat /\ Capacity \in Nat
           /\ \A s \in First-1..next : s \in Nat
           /\ \A len \in 0..MaxBody : len \in Nat
<1>1. MaxBody \in Nat /\ RecordSize \in Nat /\ Capacity \in Nat
  BY Zenon, SizeAssumption DEF RecordSize
<1>2. got[p] \in [BufferCells -> Cells]
  BY Zenon DEF TypeOK
<1>3. got[p][1] \in Cells
  BY Zenon, <1>2, CellTypes
<1>4. got[p][1].len \in 0..MaxBody
  BY Zenon, <1>3 DEF Cells
<1>5. \A len \in LengthIn(got[p][1]) : len \in 0..MaxBody+1
  BY <1>1, <1>4 DEF LengthIn
<1>6. next \in Nat
  BY Zenon DEF TypeOK
<1>7. \A s \in First-1..next : s \in Nat
  BY <1>6, SizeAssumption
<1>8. \A len \in 0..MaxBody : len \in Nat
  BY <1>1
<1> QED
  BY Zenon, <1>1, <1>2, <1>5, <1>7, <1>8 DEF TypeOK

(* The ring that av_bus_init leaves is well typed.                          *)
LEMMA TypeOKInit == Init => TypeOK
<1> SUFFICES ASSUME Init PROVE TypeOK
  BY Zenon
<1> USE SizeAssumption, CellTypes
<1>1. DOMAIN log = {} /\ log \in [DOMAIN log -> [by : Procs, len : 0..MaxBody, position : Nat]]
  BY Zenon DEF Init
<1> QED
  BY <1>1 DEF Init, TypeOK, Labels

(* The types are preserved by every step.                                   *)
LEMMA TypeOKNext == TypeOK /\ [Next]_vars => TypeOK'
<1> SUFFICES ASSUME TypeOK, [Next]_vars PROVE TypeOK'
  BY Zenon
<1> USE SizeAssumption
<1>1. ASSUME NEW p \in Procs, NEW len \in Bodies, publish(p, len) PROVE TypeOK'
  <2>1. wlen' \in [Procs -> 0..MaxBody]
    BY <1>1 DEF TypeOK, publish
  <2>2. pc' \in [Procs -> Labels]
    BY Zenon, <1>1 DEF TypeOK, publish, At, Goto, Return, Labels
  <2> QED
    BY Zenon, <1>1, <2>1, <2>2 DEF TypeOK, publish, ring, writer, reader
<1>2. ASSUME NEW p \in Procs, take_claim(p) PROVE TypeOK'
  <2>1. claim' \in Procs \cup {Nobody}
    BY Zenon, <1>2 DEF TypeOK, take_claim
  <2>2. pc' \in [Procs -> Labels]
    BY Zenon, <1>2 DEF TypeOK, take_claim, At, Goto, Return, Labels
  <2> QED
    BY Zenon, <1>2, <2>1, <2>2 DEF TypeOK, take_claim, ring, writer, reader
<1>3. ASSUME NEW p \in Procs, raise_high(p) PROVE TypeOK'
  <2>1. wseq' \in [Procs -> Nat]
    BY Zenon, <1>3 DEF TypeOK, raise_high
  <2>2. wpos' \in [Procs -> Nat]
    BY Zenon, <1>3 DEF TypeOK, raise_high
  <2>3. high' \in Nat
    BY <1>3, LocalTypes DEF raise_high
  <2>4. pc' \in [Procs -> Labels]
    BY Zenon, <1>3 DEF TypeOK, raise_high, At, Goto, Return, Labels
  <2> QED
    BY Zenon, <1>3, <2>1, <2>2, <2>3, <2>4 DEF TypeOK, raise_high, ring, writer, reader
<1>4. ASSUME NEW p \in Procs, evict(p) PROVE TypeOK'
  <2>1. oldest' \in Nat
    BY <1>4, LocalTypes DEF evict
  <2>2. wleft' \in [Procs -> SUBSET BufferCells]
    BY Zenon, <1>4, CellTypes DEF TypeOK, evict
  <2>3. pc' \in [Procs -> Labels]
    BY Zenon, <1>4 DEF TypeOK, evict, At, Goto, Return, Labels
  <2> QED
    BY Zenon, <1>4, <2>1, <2>2, <2>3 DEF TypeOK, evict, ring, writer, reader
<1>5. ASSUME NEW p \in Procs, copy_in(p) PROVE TypeOK'
  <2>1. bytes' \in [0..Capacity-1 -> Cells]
    <3>1. PICK i \in wleft[p] : bytes' = [bytes EXCEPT ![Place(wpos[p] + i)] = Cell(wseq[p], p, wlen[p], i)]
      BY Zenon, <1>5 DEF copy_in
    <3>2. Cell(wseq[p], p, wlen[p], i) \in Cells
      BY Zenon, CellTypes DEF TypeOK
    <3> QED
      BY Zenon, <3>1, <3>2 DEF TypeOK
  <2>2. wleft' \in [Procs -> SUBSET BufferCells]
    <3>1. wleft \in [Procs -> SUBSET BufferCells]
      BY Zenon DEF TypeOK
    <3>2. PICK i \in wleft[p] : wleft' = [wleft EXCEPT ![p] = wleft[p] \ {i}]
      BY Zenon, <1>5 DEF copy_in
    <3> QED
      BY Zenon, <3>1, <3>2
  <2>3. pc' \in [Procs -> Labels]
    BY Zenon, <1>5 DEF TypeOK, copy_in, At, Goto, Return, Labels
  <2> QED
    BY Zenon, <1>5, <2>1, <2>2, <2>3 DEF TypeOK, copy_in, ring, writer, reader
<1>6. ASSUME NEW p \in Procs, index_position(p) PROVE TypeOK'
  <2>1. index' \in [0..Entries-1 -> [sequence : Nat, position : Nat]]
    BY ZenonT(60), <1>6 DEF TypeOK, index_position
  <2>2. pc' \in [Procs -> Labels]
    BY Zenon, <1>6 DEF TypeOK, index_position, At, Goto, Return, Labels
  <2> QED
    BY Zenon, <1>6, <2>1, <2>2 DEF TypeOK, index_position, ring, writer, reader
<1>7. ASSUME NEW p \in Procs, index_sequence(p) PROVE TypeOK'
  <2>1. index' \in [0..Entries-1 -> [sequence : Nat, position : Nat]]
    BY ZenonT(60), <1>7 DEF TypeOK, index_sequence
  <2>2. pc' \in [Procs -> Labels]
    BY Zenon, <1>7 DEF TypeOK, index_sequence, At, Goto, Return, Labels
  <2> QED
    BY Zenon, <1>7, <2>1, <2>2 DEF TypeOK, index_sequence, ring, writer, reader
<1>8. ASSUME NEW p \in Procs, advance_tail(p) PROVE TypeOK'
  <2>1. tail' \in Nat
    BY <1>8, LocalTypes DEF advance_tail
  <2>2. pc' \in [Procs -> Labels]
    BY Zenon, <1>8 DEF TypeOK, advance_tail, At, Goto, Return, Labels
  <2> QED
    BY Zenon, <1>8, <2>1, <2>2 DEF TypeOK, advance_tail, ring, writer, reader
<1>9. ASSUME NEW p \in Procs, store_next(p) PROVE TypeOK'
  <2>1. next' \in Nat
    BY <1>9, LocalTypes DEF store_next
  <2>2. DOMAIN log' \subseteq Nat /\ log' \in [DOMAIN log' -> [by : Procs, len : 0..MaxBody, position : Nat]]
    <3> DEFINE S == DOMAIN log \cup {wseq[p]}
               Entry == [by |-> p, len |-> wlen[p], position |-> wpos[p]]
               Types == [by : Procs, len : 0..MaxBody, position : Nat]
    <3>1. S \subseteq Nat
      BY Zenon, LocalTypes DEF TypeOK
    <3>2. Entry \in Types
      BY Zenon, LocalTypes
    <3>3. \A s \in DOMAIN log : log[s] \in Types
      BY Zenon DEF TypeOK
    <3>4. log' = [s \in S |-> IF s = wseq[p] THEN Entry ELSE log[s]]
      BY Zenon, <1>9 DEF store_next
    <3> HIDE DEF Entry, Types
    <3>5. log' \in [S -> Types] /\ DOMAIN log' = S
      BY Zenon, <3>2, <3>3, <3>4
    <3> QED
      BY Zenon, <3>1, <3>5 DEF Types
  <2>3. pc' \in [Procs -> Labels]
    BY Zenon, <1>9 DEF TypeOK, store_next, At, Goto, Return, Labels
  <2> QED
    BY Zenon, <1>9, <2>1, <2>2, <2>3 DEF TypeOK, store_next, ring, writer, reader
<1>10. ASSUME NEW p \in Procs, give_claim(p) PROVE TypeOK'
  <2>1. claim' \in Procs \cup {Nobody}
    BY Zenon, <1>10 DEF TypeOK, give_claim
  <2>2. pc' \in [Procs -> Labels]
    BY Zenon, <1>10 DEF TypeOK, give_claim, At, Goto, Return, Labels
  <2> QED
    BY Zenon, <1>10, <2>1, <2>2 DEF TypeOK, give_claim, ring, writer, reader
<1>11. ASSUME NEW p \in Procs, published(p) PROVE TypeOK'
  <2>1. wseq' \in [Procs -> Nat]
    BY Zenon, <1>11 DEF TypeOK, published
  <2>2. wpos' \in [Procs -> Nat]
    BY Zenon, <1>11 DEF TypeOK, published
  <2>3. wlen' \in [Procs -> 0..MaxBody]
    BY <1>11 DEF TypeOK, published
  <2>4. pc' \in [Procs -> Labels]
    BY Zenon, <1>11 DEF TypeOK, published, At, Goto, Return, Labels
  <2> QED
    BY Zenon, <1>11, <2>1, <2>2, <2>3, <2>4 DEF TypeOK, published, ring, writer, reader
<1>12. ASSUME NEW p \in Procs, NEW s \in First-1..next, NEW capacity \in Buffers, read(p, s, capacity) PROVE TypeOK'
  <2>1. rseq' \in [Procs -> Nat]
    <3>1. s \in Nat
      BY Zenon, LocalTypes
    <3> QED
      BY Zenon, <1>12, <3>1 DEF TypeOK, read
  <2>2. rbuf' \in [Procs -> Nat]
    BY Zenon, <1>12 DEF TypeOK, read
  <2>3. pc' \in [Procs -> Labels]
    BY Zenon, <1>12 DEF TypeOK, read, At, Goto, Return, Labels
  <2> QED
    BY Zenon, <1>12, <2>1, <2>2, <2>3 DEF TypeOK, read, ring, writer, reader
<1>13. ASSUME NEW p \in Procs, load_next(p) PROVE TypeOK'
  <2>1. ret' \in [Procs -> {-2, -1, 0, 1}]
    BY Zenon, <1>13 DEF TypeOK, load_next, At, Goto, Return
  <2>2. pc' \in [Procs -> Labels]
    <3>1. pc' = [pc EXCEPT ![p] = "returned"] \/ pc' = [pc EXCEPT ![p] = "load_oldest"]
      BY Zenon, <1>13 DEF load_next, Goto, Return
    <3> QED
      BY Zenon, <3>1 DEF TypeOK, Labels
  <2> QED
    BY Zenon, <1>13, <2>1, <2>2 DEF TypeOK, load_next, ring, writer, reader, Goto, Return
<1>14. ASSUME NEW p \in Procs, load_oldest(p) PROVE TypeOK'
  <2>1. ret' \in [Procs -> {-2, -1, 0, 1}]
    BY Zenon, <1>14 DEF TypeOK, load_oldest, At, Goto, Return
  <2>2. pc' \in [Procs -> Labels]
    <3>1. pc' = [pc EXCEPT ![p] = "returned"] \/ pc' = [pc EXCEPT ![p] = "load_before"]
      BY Zenon, <1>14 DEF load_oldest, Goto, Return
    <3> QED
      BY Zenon, <3>1 DEF TypeOK, Labels
  <2> QED
    BY Zenon, <1>14, <2>1, <2>2 DEF TypeOK, load_oldest, ring, writer, reader, Goto, Return
<1>15. ASSUME NEW p \in Procs, load_before(p) PROVE TypeOK'
  <2>1. ret' \in [Procs -> {-2, -1, 0, 1}]
    BY Zenon, <1>15 DEF TypeOK, load_before, At, Goto, Return
  <2>2. pc' \in [Procs -> Labels]
    <3>1. pc' = [pc EXCEPT ![p] = "returned"] \/ pc' = [pc EXCEPT ![p] = "load_position"]
      BY Zenon, <1>15 DEF load_before, Goto, Return
    <3> QED
      BY Zenon, <3>1 DEF TypeOK, Labels
  <2> QED
    BY Zenon, <1>15, <2>1, <2>2 DEF TypeOK, load_before, ring, writer, reader, Goto, Return
<1>16. ASSUME NEW p \in Procs, load_position(p) PROVE TypeOK'
  <2>1. rpos' \in [Procs -> Nat]
    BY Zenon, <1>16, SlotApart DEF TypeOK, load_position
  <2>2. pc' \in [Procs -> Labels]
    BY Zenon, <1>16 DEF TypeOK, load_position, At, Goto, Return, Labels
  <2> QED
    BY Zenon, <1>16, <2>1, <2>2 DEF TypeOK, load_position, ring, writer, reader
<1>17. ASSUME NEW p \in Procs, load_after(p) PROVE TypeOK'
  <2>1. rleft' \in [Procs -> SUBSET BufferCells]
    <3>1. rleft' = rleft \/ rleft' = [rleft EXCEPT ![p] = RecordCells(0)]
      BY Zenon, <1>17 DEF load_after
    <3>2. rleft \in [Procs -> SUBSET BufferCells]
      BY Zenon DEF TypeOK
    <3> QED
      BY Zenon, <3>1, <3>2, CellTypes
  <2>2. ret' \in [Procs -> {-2, -1, 0, 1}]
    BY Zenon, <1>17 DEF TypeOK, load_after, At, Goto, Return
  <2>3. pc' \in [Procs -> Labels]
    <3>1. pc' = [pc EXCEPT ![p] = "returned"] \/ pc' = [pc EXCEPT ![p] = "copy_record"]
      BY Zenon, <1>17 DEF load_after, Goto, Return
    <3> QED
      BY Zenon, <3>1 DEF TypeOK, Labels
  <2> QED
    BY Zenon, <1>17, <2>1, <2>2, <2>3 DEF TypeOK, load_after, ring, writer, reader, Goto, Return
<1>18. ASSUME NEW p \in Procs, NEW from \in Labels, NEW to \in Labels, copy_out(p, from, to) PROVE TypeOK'
  <2>1. got' \in [Procs -> [BufferCells -> Cells]]
    <3>1. PICK i \in rleft[p] : got' = [got EXCEPT ![p] = [got[p] EXCEPT ![i] = bytes[Place(rpos[p] + i)]]]
      BY Zenon, <1>18 DEF copy_out
    <3>2. i \in BufferCells
      BY Zenon, <3>1, LocalTypes
    <3>3. i \in Nat
      BY Zenon, <3>2, CellTypes
    <3>4. rpos[p] + i \in Nat
      BY <3>3, LocalTypes
    <3>5. bytes[Place(rpos[p] + i)] \in Cells
      BY Zenon, <3>4, PlaceApart DEF TypeOK
    <3>6. got \in [Procs -> [BufferCells -> Cells]]
      BY Zenon DEF TypeOK
    <3> QED
      BY Zenon, <3>1, <3>2, <3>5, <3>6
  <2>2. rleft' \in [Procs -> SUBSET BufferCells]
    <3>1. rleft \in [Procs -> SUBSET BufferCells]
      BY Zenon DEF TypeOK
    <3>2. PICK i \in rleft[p] : rleft' = [rleft EXCEPT ![p] = rleft[p] \ {i}]
      BY Zenon, <1>18 DEF copy_out
    <3> QED
      BY Zenon, <3>1, <3>2
  <2>3. pc' \in [Procs -> Labels]
    BY Zenon, <1>18 DEF TypeOK, copy_out, At, Goto, Return
  <2> QED
    BY Zenon, <1>18, <2>1, <2>2, <2>3 DEF TypeOK, copy_out, ring, writer, reader
<1>19. ASSUME NEW p \in Procs, check_record(p) PROVE TypeOK'
  <2>1. rlen' \in [Procs -> 0..MaxBody]
    <3>1. rlen \in [Procs -> 0..MaxBody]
      BY Zenon DEF TypeOK
    <3>2. \A len \in LengthIn(got[p][1]) : len \in 0..MaxBody+1
      BY Zenon, LocalTypes
    <3>3. rlen' = rlen \/ \E len \in 0..MaxBody : rlen' = [rlen EXCEPT ![p] = len]
      BY <1>19, <3>2 DEF check_record
    <3> QED
      BY Zenon, <3>1, <3>3
  <2>2. rleft' \in [Procs -> SUBSET BufferCells]
    <3>1. rleft \in [Procs -> SUBSET BufferCells]
      BY Zenon DEF TypeOK
    <3>2. \A len \in LengthIn(got[p][1]) : len \in 0..MaxBody+1
      BY Zenon, LocalTypes
    <3>3. \/ rleft' = rleft
          \/ \E len \in 0..MaxBody : rleft' = [rleft EXCEPT ![p] = RecordCells(len) \ RecordCells(0)]
      BY <1>19, <3>2 DEF check_record
    <3> QED
      BY Zenon, <3>1, <3>3, CellTypes
  <2>3. ret' \in [Procs -> {-2, -1, 0, 1}]
    BY Zenon, <1>19 DEF TypeOK, check_record, At, Goto, Return
  <2>4. pc' \in [Procs -> Labels]
    BY ZenonT(60), <1>19 DEF TypeOK, check_record, At, Goto, Return, Labels
  <2> QED
    BY Zenon, <1>19, <2>1, <2>2, <2>3, <2>4 DEF TypeOK, check_record, ring, writer, reader, Goto, Return
<1>20. ASSUME NEW p \in Procs, check_body(p) PROVE TypeOK'
  <2>1. ret' \in [Procs -> {-2, -1, 0, 1}]
    BY Zenon, <1>20 DEF TypeOK, check_body, At, Goto, Return
  <2>2. pc' \in [Procs -> Labels]
    BY Zenon, <1>20 DEF TypeOK, check_body, At, Goto, Return, Labels
  <2> QED
    BY Zenon, <1>20, <2>1, <2>2 DEF TypeOK, check_body, ring, writer, reader, Goto, Return
<1>21. ASSUME NEW p \in Procs, read_done(p) PROVE TypeOK'
  <2>1. rseq' \in [Procs -> Nat]
    BY Zenon, <1>21 DEF TypeOK, read_done
  <2>2. rbuf' \in [Procs -> Nat]
    BY Zenon, <1>21 DEF TypeOK, read_done
  <2>3. rpos' \in [Procs -> Nat]
    BY Zenon, <1>21 DEF TypeOK, read_done
  <2>4. rlen' \in [Procs -> 0..MaxBody]
    BY <1>21 DEF TypeOK, read_done
  <2>5. rleft' \in [Procs -> SUBSET BufferCells]
    BY Zenon, <1>21, CellTypes DEF TypeOK, read_done
  <2>6. got' \in [Procs -> [BufferCells -> Cells]]
    BY Zenon, <1>21, CellTypes DEF TypeOK, read_done
  <2>7. ret' \in [Procs -> {-2, -1, 0, 1}]
    BY Zenon, <1>21 DEF TypeOK, read_done, At, Goto, Return
  <2>8. pc' \in [Procs -> Labels]
    BY Zenon, <1>21 DEF TypeOK, read_done, At, Goto, Return, Labels
  <2> QED
    BY Zenon, <1>21, <2>1, <2>2, <2>3, <2>4, <2>5, <2>6, <2>7, <2>8 DEF TypeOK, read_done, ring, writer, reader, Goto, Return
<1>22. ASSUME NEW p \in Procs, die(p) PROVE TypeOK'
  <2>1. dead' \in SUBSET Procs
    BY Zenon, <1>22 DEF TypeOK, die
  <2> QED
    BY Zenon, <1>22, <2>1 DEF TypeOK, die, ring, writer, reader
<1>23. CASE UNCHANGED vars
  BY Zenon, <1>23 DEF TypeOK, vars, ring, writer, reader
<1> QED
  BY ZenonT(30), <1>1, <1>2, <1>3, <1>4, <1>5, <1>6, <1>7, <1>8, <1>9, <1>10, <1>11, <1>12, <1>13, <1>14, <1>15, <1>16, <1>17, <1>18, <1>19, <1>20, <1>21, <1>22, <1>23 DEF Next, PublishStep, ReadStep, Labels

(* Every variable of the ring keeps its type, whatever processes do or die. *)
THEOREM TypeCorrect == Spec => []TypeOK
<1> QED
  BY TypeOKInit, TypeOKNext, PTL DEF Spec

-----------------------------------------------------------------------------
(* The step of a process keeps it inside or outside the claim's labels.     *)
Stays(p) ==
    /\ claim' = claim /\ dead' = dead
    /\ \E to \in Labels : Goto(p, to) /\ (pc[p] \in Holding <=> to \in Holding)

(* A step that neither enters nor leaves the claim's labels keeps ClaimInv. *)
LEMMA StaysClaim ==
    ASSUME TypeOK, ClaimInv, NEW p \in Procs, Stays(p)
    PROVE  ClaimInv'
<1>1. PICK to \in Labels : pc' = [pc EXCEPT ![p] = to] /\ (pc[p] \in Holding <=> to \in Holding)
  BY Zenon DEF Stays, Goto
<1>2. pc \in [Procs -> Labels] /\ claim \in Procs \cup {Nobody}
  BY Zenon DEF TypeOK
<1>3. \A q \in Procs : pc'[q] \in Holding <=> pc[q] \in Holding
  BY Zenon, <1>1, <1>2
<1> QED
  BY Zenon, <1>2, <1>3 DEF ClaimInv, ClaimExclusive, Stays

(* Every step keeps the claim with the one process that holds it.           *)
LEMMA ClaimInvNext ==
    ASSUME TypeOK, ClaimInv, [Next]_vars
    PROVE  ClaimInv'
<1> USE DEF Holding
<1>0. pc \in [Procs -> Labels] /\ claim \in Procs \cup {Nobody} /\ Nobody \notin Procs
  BY Zenon, NobodyAssumption DEF TypeOK, Procs
<1>1. ASSUME NEW p \in Procs, take_claim(p) PROVE ClaimInv'
  <2>1. pc' = [pc EXCEPT ![p] = "raise_high"] /\ claim' = p /\ dead' = dead
    BY Zenon, <1>1 DEF take_claim, Goto
  <2>2. \A q \in Procs \ dead : pc[q] \notin Holding
    BY Zenon, <1>0, <1>1 DEF take_claim, process_gone, ClaimInv, ClaimExclusive
  <2> QED
    BY Zenon, <1>0, <2>1, <2>2 DEF ClaimInv, ClaimExclusive
<1>2. ASSUME NEW p \in Procs, give_claim(p) PROVE ClaimInv'
  <2>1. pc' = [pc EXCEPT ![p] = "wake"] /\ claim' = Nobody /\ dead' = dead /\ claim = p
    BY Zenon, <1>2 DEF give_claim, Goto, At, ClaimInv, ClaimExclusive
  <2> QED
    BY Zenon, <1>0, <2>1 DEF ClaimInv, ClaimExclusive
<1>3. ASSUME NEW p \in Procs, die(p) PROVE ClaimInv'
  BY Zenon, <1>3 DEF die, ring, ClaimInv, ClaimExclusive
<1>4. ASSUME NEW p \in Procs, NEW len \in Bodies, publish(p, len) PROVE ClaimInv'
  BY ZenonT(30), <1>4, StaysClaim DEF publish, ring, Stays, At, Goto, Labels
<1>5. ASSUME NEW p \in Procs, raise_high(p) PROVE ClaimInv'
  BY ZenonT(30), <1>5, StaysClaim DEF raise_high, Stays, At, Goto, Labels
<1>6. ASSUME NEW p \in Procs, evict(p) PROVE ClaimInv'
  BY Zenon, <1>6, StaysClaim DEF evict, Stays, At, Goto, Labels
<1>7. ASSUME NEW p \in Procs, copy_in(p) PROVE ClaimInv'
  <2>1. Goto(p, "copy_in") \/ Goto(p, "index_position")
    BY Zenon, <1>7 DEF copy_in
  <2> QED
    BY Zenon, <1>7, <2>1, StaysClaim DEF copy_in, Stays, At, Labels
<1>8. ASSUME NEW p \in Procs, index_position(p) PROVE ClaimInv'
  BY ZenonT(30), <1>8, StaysClaim DEF index_position, Stays, At, Goto, Labels
<1>9. ASSUME NEW p \in Procs, index_sequence(p) PROVE ClaimInv'
  BY ZenonT(30), <1>9, StaysClaim DEF index_sequence, Stays, At, Goto, Labels
<1>10. ASSUME NEW p \in Procs, advance_tail(p) PROVE ClaimInv'
  BY ZenonT(30), <1>10, StaysClaim DEF advance_tail, Stays, At, Goto, Labels
<1>11. ASSUME NEW p \in Procs, store_next(p) PROVE ClaimInv'
  BY ZenonT(30), <1>11, StaysClaim DEF store_next, Stays, At, Goto, Labels
<1>12. ASSUME NEW p \in Procs, published(p) PROVE ClaimInv'
  BY ZenonT(30), <1>12, StaysClaim DEF published, ring, Stays, At, Goto, Labels
<1>13. ASSUME NEW p \in Procs, NEW s \in First-1..next, NEW capacity \in Buffers,
              read(p, s, capacity)
       PROVE  ClaimInv'
  BY Zenon, <1>13, StaysClaim DEF read, ring, Stays, At, Goto, Labels
<1>14. ASSUME NEW p \in Procs, ReadStep(p) PROVE ClaimInv'
  <2>1. claim' = claim /\ dead' = dead /\ pc[p] \notin Holding
    BY Zenon, <1>14 DEF ReadStep, load_next, load_oldest, load_before, load_position, load_after,
                 copy_out, check_record, check_body, read_done, ring, At
  <2>2. \E to \in Labels : Goto(p, to) /\ to \notin Holding
    <3> USE DEF Labels, Return
    <3>1. CASE load_next(p) \/ load_oldest(p) \/ load_before(p) \/ load_position(p) \/ load_after(p)
      BY Zenon, <3>1 DEF load_next, load_oldest, load_before, load_position, load_after
    <3>2. CASE copy_out(p, "copy_record", "check_record")
      BY Zenon, <3>2 DEF copy_out
    <3>3. CASE copy_out(p, "copy_body", "check_body")
      BY Zenon, <3>3 DEF copy_out
    <3>4. CASE check_record(p)
      BY Zenon, <3>4 DEF check_record
    <3>5. CASE check_body(p) \/ read_done(p)
      BY Zenon, <3>5 DEF check_body, read_done
    <3> QED
      BY Zenon, <1>14, <3>1, <3>2, <3>3, <3>4, <3>5 DEF ReadStep
  <2> QED
    BY Zenon, <2>1, <2>2, StaysClaim DEF Stays
<1>15. CASE UNCHANGED vars
  BY Zenon, <1>15 DEF vars, ring, ClaimInv, ClaimExclusive
<1> QED
  BY Zenon, <1>1, <1>2, <1>3, <1>4, <1>5, <1>6, <1>7, <1>8, <1>9, <1>10, <1>11, <1>12, <1>13, <1>14, <1>15
     DEF Next, PublishStep

(* The types of what the log says of a message that was published.          *)
LEMMA LogTypes ==
    ASSUME TypeOK, NEW s \in DOMAIN log
    PROVE  log[s].by \in Procs /\ log[s].len \in 0..MaxBody /\ log[s].position \in Nat
<1>1. log \in [DOMAIN log -> [by : Procs, len : 0..MaxBody, position : Nat]]
  BY Zenon DEF TypeOK
<1>2. log[s] \in [by : Procs, len : 0..MaxBody, position : Nat]
  BY Zenon, <1>1
<1> QED
  BY Zenon, <1>2

-----------------------------------------------------------------------------
(* What every step does to the ring at most: the words rise, messages keep  *)
(* their record, an index entry does not go back to a lower number, and a   *)
(* position that does not start number s never comes to start it.           *)
Advances ==
    /\ high' >= high /\ tail' >= tail /\ oldest' >= oldest /\ next' >= next
    /\ \A s \in First..next-1 : s \in DOMAIN log' /\ log'[s] = log[s]
    /\ \A s \in First..next-1 :
          index[Slot(s)].sequence >= s => index'[Slot(s)].sequence >= s
    /\ \A q \in 0..tail, s \in First..next-1 : NotRecordOf(q, s) => NotRecordOf(q, s)'

(* The labels at which ReaderInv or ResultInv asks for something.           *)
Watched == Reading \cup {"load_oldest", "returned"}

(* A reader that does not move loses nothing when the ring advances.        *)
LEMMA ReaderStable ==
    ASSUME IInv, TypeOK', Advances, UNCHANGED reader,
           NEW q \in Procs, pc'[q] = pc[q] \/ pc'[q] \notin Watched
    PROVE  ReaderKnows(q)' /\ Intact(q)' /\ Gone(q)' /\ (LostAt(q)' => rseq'[q] < next')
<1> USE DEF Watched, Reading
<1>1. CASE pc'[q] \notin Watched
  BY Zenon, <1>1 DEF ReaderKnows, Intact, Gone, LostAt
<1>2. CASE pc'[q] = pc[q]
  <2>1. /\ ReaderKnows(q) /\ Intact(q) /\ Gone(q) /\ (LostAt(q) => rseq[q] < next)
        /\ DOMAIN log = First..next-1 /\ First <= oldest
    BY Zenon DEF IInv, LogInv, WordsInv, ReaderInv, ResultInv
  <2>2. /\ First \in Nat /\ next \in Nat /\ next' \in Nat /\ oldest \in Nat /\ oldest' \in Nat
        /\ high \in Nat /\ high' \in Nat /\ tail \in Nat /\ tail' \in Nat /\ Capacity \in Nat
        /\ rseq[q] \in Nat /\ rpos[q] \in Nat
    BY Zenon, SizeAssumption DEF IInv, TypeOK
  <2>3. /\ rseq'[q] = rseq[q] /\ rpos'[q] = rpos[q] /\ rlen'[q] = rlen[q]
        /\ rbuf'[q] = rbuf[q] /\ rleft'[q] = rleft[q] /\ got'[q] = got[q] /\ ret'[q] = ret[q]
    BY Zenon DEF reader
  <2>4. rseq[q] \in First..next-1 =>
          log'[rseq[q]] = log[rseq[q]] /\ rseq[q] \in First..next'-1 /\ rseq[q] \in DOMAIN log'
    BY <2>2 DEF Advances
  <2>5. overwritten(rpos[q]) => overwritten(rpos[q])'
    BY <2>2, <2>3 DEF Advances, overwritten
  <2>6. ASSUME pc[q] \in {"load_after", "copy_record", "check_record"} PROVE Located(q)'
    <3>1. Located(q) /\ rseq[q] \in First..next-1
      BY Zenon, <2>1, <2>6 DEF ReaderKnows
    <3>2. rpos[q] \in 0..tail /\ rpos[q] <= tail'
      BY <3>1, <2>2 DEF Located, Advances
    <3>3. NotRecordOf(rpos[q], rseq[q]) => NotRecordOf(rpos[q], rseq[q])'
      BY Zenon, <3>1, <3>2, <2>3 DEF Advances, NotRecordOf, overwritten, OtherRecord
    <3>4. rseq[q] < oldest => rseq[q] < oldest'
      BY <2>2 DEF Advances
    <3> QED
      BY Zenon, <3>1, <3>2, <3>3, <3>4, <2>3, <2>4 DEF Located
  <2>7. ASSUME pc[q] \in {"copy_record", "check_record"} PROVE CopiedRecord(q)'
    <3>1. CopiedRecord(q) /\ rseq[q] \in First..next-1
      BY Zenon, <2>1, <2>7 DEF ReaderKnows
    <3>2. \A i \in RecordCells(0) : GotMessage(q, i) => GotMessage(q, i)'
      BY Zenon, <3>1, <2>3, <2>4, <2>5 DEF GotMessage
    <3> QED
      BY Zenon, <3>1, <3>2, <1>2, <2>3, <2>4, <2>5 DEF CopiedRecord, OtherRecord
  <2>8. ASSUME pc[q] \in {"copy_body", "check_body"} PROVE CopiedBody(q)'
    <3>1. CopiedBody(q) /\ rseq[q] \in First..next-1
      BY Zenon, <2>1, <2>8 DEF ReaderKnows
    <3>2. \A i \in RecordCells(rlen[q]) : GotMessage(q, i) => GotMessage(q, i)'
      BY Zenon, <3>1, <2>3, <2>4, <2>5 DEF GotMessage
    <3> QED
      BY Zenon, <3>1, <3>2, <1>2, <2>3, <2>4 DEF CopiedBody
  <2>9. ASSUME pc[q] = "load_position" PROVE index'[Slot(rseq[q])].sequence >= rseq[q]
    BY Zenon, <2>1, <2>9 DEF ReaderKnows, Advances
  <2>10. ReaderKnows(q)'
    <3>1. pc[q] = "load_oldest" => rseq[q] < next'
      BY SMTT(30), <2>1, <2>2 DEF ReaderKnows, Advances
    <3>2. pc[q] \in Reading => rseq[q] \in First..next'-1
      BY Zenon, <2>1, <2>4 DEF ReaderKnows
    <3> QED
      BY Zenon, <1>2, <2>1, <2>3, <2>6, <2>7, <2>8, <2>9, <3>1, <3>2 DEF ReaderKnows
  <2>11. Intact(q)'
    BY Zenon, <1>2, <2>1, <2>3, <2>4 DEF Intact
  <2>12. LostAt(q) => rseq[q] < next' /\ Gone(q)'
    <3> SUFFICES ASSUME LostAt(q) PROVE rseq[q] < next' /\ Gone(q)'
      BY Zenon
    <3>1. rseq[q] < next' /\ (rseq[q] < oldest => rseq[q] < oldest')
      BY <2>1, <2>2 DEF Advances
    <3>2. CASE rseq[q] < oldest
      BY Zenon, <3>1, <3>2, <2>3 DEF Gone
    <3>3. CASE rseq[q] >= oldest
      <4>1. rseq[q] \in First..next-1
        BY <3>3, <2>1, <2>2
      <4>2. high > log[rseq[q]].position + Capacity
        BY <3>3, <2>1, <2>2 DEF Gone
      <4>3. log[rseq[q]].position \in Nat
        BY Zenon, <4>1, <2>1, LogTypes DEF IInv
      <4>4. high' > log[rseq[q]].position + Capacity
        BY <4>2, <4>3, <2>2 DEF Advances
      <4> QED
        BY Zenon, <3>1, <4>1, <4>4, <2>3, <2>4 DEF Gone
    <3> QED
      BY SMTT(30), <3>1, <3>2, <3>3, <2>2
  <2>13. LostAt(q)' => LostAt(q)
    BY Zenon, <1>2, <2>3 DEF LostAt
  <2> QED
    BY Zenon, <2>3, <2>10, <2>11, <2>12, <2>13 DEF Gone
<1> QED
  BY Zenon, <1>1, <1>2

-----------------------------------------------------------------------------
(* Steps that leave the ring's words, index and bytes as they are.          *)
LEMMA RingSame ==
    ASSUME IInv, UNCHANGED <<next, high, oldest, tail, index, bytes, log>>
    PROVE  WordsInv' /\ LogInv' /\ IndexInv' /\ Advances
<1>1. TypeOK /\ WordsInv /\ LogInv /\ IndexInv
  BY Zenon DEF IInv
<1>2. WordsInv'
  BY Zenon, <1>1 DEF WordsInv
<1>3. LogInv'
  BY Zenon, <1>1 DEF LogInv, MessageAt, overwritten
<1>4. IndexInv'
  BY Zenon, <1>1 DEF IndexInv, NotRecordOf, OtherRecord, overwritten
<1>5. Advances
  <2>1. high \in Nat /\ tail \in Nat /\ oldest \in Nat /\ next \in Nat
    BY Zenon, <1>1 DEF TypeOK
  <2>2. DOMAIN log = First..next-1
    BY Zenon, <1>1 DEF LogInv
  <2> QED
    BY <2>1, <2>2 DEF Advances, NotRecordOf, OtherRecord, overwritten
<1> QED
  BY Zenon, <1>2, <1>3, <1>4, <1>5

(* Steps at which the holder of the claim, if there is one, does not move.  *)
LEMMA HolderSame ==
    ASSUME IInv, UNCHANGED ring, UNCHANGED log,
           claim # Nobody => /\ pc'[claim] = pc[claim] /\ wseq'[claim] = wseq[claim]
                             /\ wpos'[claim] = wpos[claim] /\ wlen'[claim] = wlen[claim]
                             /\ wleft'[claim] = wleft[claim]
    PROVE  WriterInv' /\ ReachInv'
<1>1. WriterInv'
  BY Zenon DEF IInv, WriterInv, MessageAt, ring
<1>2. ReachInv'
  BY Zenon DEF IInv, ReachInv, overwritten, ring
<1> QED
  BY Zenon, <1>1, <1>2

(* A step of a process outside the claim, or its death.                     *)
LEMMA OutsideStep ==
    ASSUME IInv, TypeOK', ClaimInv', UNCHANGED ring, UNCHANGED log, UNCHANGED reader,
           NEW p \in Procs, pc[p] \notin Holding,
           \A q \in Procs : q # p =>
               /\ pc'[q] = pc[q] /\ wseq'[q] = wseq[q] /\ wpos'[q] = wpos[q]
               /\ wlen'[q] = wlen[q] /\ wleft'[q] = wleft[q],
           pc'[p] \notin Watched
    PROVE  IInv'
<1>1. WordsInv' /\ LogInv' /\ IndexInv' /\ Advances
  BY Zenon, RingSame DEF ring
<1>2. claim # Nobody => claim \in Procs /\ claim # p
  BY Zenon DEF IInv, TypeOK, ClaimInv
<1>3. WriterInv' /\ ReachInv'
  BY Zenon, <1>2, HolderSame
<1>4. ReaderInv' /\ ResultInv'
  BY Zenon, <1>1, ReaderStable DEF ReaderInv, ResultInv
<1> QED
  BY Zenon, <1>1, <1>3, <1>4 DEF IInv

(* A call of av_bus_publish, before it takes the claim, touches nothing of  *)
(* the ring.                                                                *)
LEMMA PublishKeeps ==
    ASSUME IInv, TypeOK', ClaimInv', NEW p \in Procs, NEW len \in Bodies, publish(p, len)
    PROVE  IInv'
<1>1. pc \in [Procs -> Labels] /\ wlen \in [Procs -> 0..MaxBody]
  BY Zenon DEF IInv, TypeOK
<1> QED
  BY Zenon, <1>1, OutsideStep DEF publish, At, Goto, Holding, Watched, Reading

(* The end of av_bus_publish touches nothing of the ring.                   *)
LEMMA PublishedKeeps ==
    ASSUME IInv, TypeOK', ClaimInv', NEW p \in Procs, published(p)
    PROVE  IInv'
<1>1. /\ pc \in [Procs -> Labels] /\ wlen \in [Procs -> 0..MaxBody]
      /\ wseq \in [Procs -> Nat] /\ wpos \in [Procs -> Nat]
  BY Zenon DEF IInv, TypeOK
<1> QED
  BY Zenon, <1>1, OutsideStep DEF published, At, Goto, Holding, Watched, Reading

(* A death changes nothing but who is alive.                                *)
LEMMA DieKeeps ==
    ASSUME IInv, TypeOK', ClaimInv', NEW p \in Procs, die(p)
    PROVE  IInv'
<1>1. WordsInv' /\ LogInv' /\ IndexInv' /\ Advances
  BY Zenon, RingSame DEF die, ring
<1>2. WriterInv' /\ ReachInv'
  BY Zenon, HolderSame DEF die, writer
<1>3. ReaderInv' /\ ResultInv'
  BY Zenon, <1>1, ReaderStable DEF die, ReaderInv, ResultInv
<1> QED
  BY Zenon, <1>1, <1>2, <1>3 DEF IInv

(* take_claim, from nobody or from a dead holder: the ring is as any holder *)
(* left it.                                                                 *)
LEMMA TakeClaimKeeps ==
    ASSUME IInv, TypeOK', ClaimInv', NEW p \in Procs, take_claim(p)
    PROVE  IInv'
<1>1. WordsInv' /\ LogInv' /\ IndexInv' /\ Advances
  BY Zenon, RingSame DEF take_claim
<1>2. pc \in [Procs -> Labels]
  BY Zenon DEF IInv, TypeOK
<1>3. claim' = p /\ pc'[p] = "raise_high"
  BY Zenon, <1>2 DEF take_claim, Goto
<1>4. WriterInv' /\ ReachInv'
  BY Zenon, <1>3, NobodyAssumption DEF WriterInv, ReachInv, Copying, Procs
<1>5. ReaderInv' /\ ResultInv'
  BY Zenon, <1>1, <1>2, ReaderStable DEF take_claim, Goto, ReaderInv, ResultInv, Watched, Reading
<1> QED
  BY Zenon, <1>1, <1>4, <1>5 DEF IInv

(* give_claim leaves a ring with nothing half written.                      *)
LEMMA GiveClaimKeeps ==
    ASSUME IInv, TypeOK', ClaimInv', NEW p \in Procs, give_claim(p)
    PROVE  IInv'
<1>1. WordsInv' /\ LogInv' /\ IndexInv' /\ Advances
  BY Zenon, RingSame DEF give_claim
<1>2. pc \in [Procs -> Labels]
  BY Zenon DEF IInv, TypeOK
<1>3. claim = p
  BY Zenon DEF give_claim, At, IInv, ClaimInv, ClaimExclusive, Holding
<1>4. WriterInv'
  BY Zenon DEF WriterInv, give_claim
<1>5. ReachInv'
  BY Zenon, <1>3 DEF IInv, ReachInv, give_claim, At, overwritten
<1>6. ReaderInv' /\ ResultInv'
  BY Zenon, <1>1, <1>2, ReaderStable DEF give_claim, Goto, ReaderInv, ResultInv, Watched, Reading
<1> QED
  BY Zenon, <1>1, <1>4, <1>5, <1>6 DEF IInv

-----------------------------------------------------------------------------
(* The holder's own steps.  Each lemma first gathers what the invariant     *)
(* says of the holder at that label.                                        *)
LEMMA Sizes ==
    /\ Capacity \in Nat /\ Entries \in Nat \ {0} /\ MaxBody \in Nat /\ First \in Nat \ {0}
    /\ RecordSize = 2 /\ RecordSize + MaxBody <= Capacity
    /\ \A len \in 0..MaxBody : \A i \in RecordCells(len) :
          i \in Nat /\ i < RecordSize + len /\ RecordSize + len <= Capacity
BY SizeAssumption DEF RecordSize, RecordCells

(* The type of an entry of the index.                                       *)
LEMMA IndexTypes ==
    ASSUME TypeOK, NEW s \in Nat
    PROVE  index[Slot(s)].sequence \in Nat /\ index[Slot(s)].position \in Nat
<1>1. index \in [0..Entries-1 -> [sequence : Nat, position : Nat]]
  BY Zenon DEF TypeOK
<1>2. index[Slot(s)] \in [sequence : Nat, position : Nat]
  BY Zenon, <1>1, SlotApart
<1> QED
  BY Zenon, <1>2

-----------------------------------------------------------------------------
(* The steps of a call keep IInv. Those of a writer that make room for its  *)
(* message, copy it in, index it and publish it each only advance the ring; *)
(* the message is readable from the store to next on. Those of a reader up  *)
(* to its copy of the record leave the ring alone, and add to what the      *)
(* reader knows.                                                            *)

(* The store to high announces what is about to be overwritten, before it   *)
(* is.                                                                      *)
LEMMA RaiseHighKeeps ==
    ASSUME IInv, TypeOK', ClaimInv', NEW p \in Procs, raise_high(p)
    PROVE  IInv'
<1>1. /\ claim = p /\ claim' = p /\ pc'[p] = "evict"
      /\ \A q \in Procs : q # p => pc'[q] = pc[q]
  BY Zenon DEF raise_high, At, Goto, IInv, TypeOK, ClaimInv, ClaimExclusive, Holding
<1>2. /\ tail \in Nat /\ high \in Nat /\ next \in Nat /\ oldest \in Nat /\ wlen[p] \in 0..MaxBody
      /\ wseq'[p] = next /\ wpos'[p] = tail /\ wlen'[p] = wlen[p]
  BY Zenon DEF raise_high, IInv, TypeOK
<1>3. /\ UNCHANGED <<next, oldest, tail, index, bytes, log, reader>>
      /\ high' = IF high < tail + RecordSize + wlen[p] THEN tail + RecordSize + wlen[p] ELSE high
  BY Zenon DEF raise_high
<1>4. WordsInv /\ LogInv /\ IndexInv
  BY Zenon DEF IInv
<1>5. /\ high' \in Nat /\ high' >= high /\ tail + RecordSize + wlen[p] <= high'
      /\ tail <= high' /\ high' <= tail + RecordSize + MaxBody
  BY <1>2, <1>3, <1>4, Sizes DEF WordsInv
<1>6. WordsInv'
  BY Zenon, <1>3, <1>4, <1>5 DEF WordsInv
<1>7. \A q \in Nat : overwritten(q) => high' > q + Capacity
  BY <1>2, <1>5, Sizes DEF overwritten
<1>8. LogInv'
  <2>1. \A s \in First..next-1 : log[s].position \in Nat
    BY Zenon, <1>4, LogTypes DEF LogInv, IInv
  <2>2. \A s \in First..next-1 : ~(high' > log[s].position + Capacity) => ~overwritten(log[s].position)
    BY Zenon, <1>7, <2>1
  <2> QED
    BY Zenon, <1>3, <1>4, <2>2 DEF LogInv, MessageAt, overwritten
<1>9. Advances
  BY <1>2, <1>3, <1>4, <1>5, <1>7 DEF Advances, LogInv, NotRecordOf, OtherRecord, overwritten
<1>10. IndexInv'
  <2>1. \A s \in First..next-1 : index[Slot(s)].position \in Nat
    BY <1>2, Sizes, IndexTypes DEF IInv
  <2>2. \A s \in First..next-1 : NotRecordOf(index[Slot(s)].position, s) =>
            high' > index[Slot(s)].position + Capacity \/ OtherRecord(bytes[Place(index[Slot(s)].position)], s)
    BY Zenon, <1>7, <2>1 DEF NotRecordOf
  <2> QED
    BY Zenon, <1>3, <1>4, <2>2 DEF IndexInv, NotRecordOf, OtherRecord, overwritten
<1>11. WriterInv'
  <2>1. \A s \in First..next-1 : log[s].position + RecordSize + log[s].len <= tail
    BY Zenon, <1>4 DEF LogInv
  <2> QED
    BY Zenon, <1>1, <1>2, <1>3, <1>5, <2>1 DEF WriterInv, Copying
<1>12. ReachInv'
  BY Zenon, <1>1, NobodyAssumption DEF ReachInv, Procs
<1>13. ReaderInv' /\ ResultInv'
  BY Zenon, <1>1, <1>3, <1>9, ReaderStable DEF ReaderInv, ResultInv, Watched, Reading
<1> QED
  BY Zenon, <1>6, <1>8, <1>10, <1>11, <1>12, <1>13 DEF IInv

(* The store to oldest drops what the new record displaces, and no more.    *)
LEMMA EvictKeeps ==
    ASSUME IInv, TypeOK', ClaimInv', NEW p \in Procs, evict(p)
    PROVE  IInv'
<1>1. /\ claim = p /\ claim' = p /\ pc[p] = "evict" /\ pc'[p] = "copy_in" /\ p # Nobody
      /\ \A q \in Procs : q # p => pc'[q] = pc[q]
  BY Zenon, NobodyAssumption DEF evict, At, Goto, IInv, TypeOK, ClaimInv, ClaimExclusive, Holding, Procs
<1>2. /\ tail \in Nat /\ high \in Nat /\ next \in Nat /\ oldest \in Nat
      /\ wlen[p] \in 0..MaxBody /\ wpos[p] \in Nat
      /\ UNCHANGED <<next, high, tail, index, bytes, log, reader, wseq, wpos, wlen>>
      /\ wleft'[p] = RecordCells(wlen[p])
  BY Zenon DEF evict, IInv, TypeOK
<1>3. WordsInv /\ LogInv /\ IndexInv
  BY Zenon DEF IInv
<1>4. /\ wseq[p] = next /\ wpos[p] + RecordSize + wlen[p] <= high
      /\ high <= wpos[p] + RecordSize + MaxBody /\ wpos[p] = tail
      /\ \A s \in First..next-1 : log[s].position + RecordSize + log[s].len <= wpos[p]
  BY Zenon, <1>1 DEF IInv, WriterInv, Copying
<1>5. PICK o \in oldest..next : oldest' = o /\ (o = next \/ Kept(o, next))
  BY Zenon, <1>4 DEF evict
<1>6. o \in Nat /\ o >= oldest /\ o <= next
  BY <1>2, <1>5
<1>7. o + Entries > next
  <2>1. CASE o = next
    BY <2>1, <1>6, Sizes
  <2>2. CASE Kept(o, next)
    BY <2>2, <1>6, <1>2, Sizes DEF Kept
  <2> QED
    BY Zenon, <2>1, <2>2, <1>5
<1>8. ASSUME NEW s \in o..next-1 PROVE ~overwritten(log[s].position)
  <2>1. s \in First..next-1 /\ o \in First..next-1 /\ o \in oldest..next-1 /\ o # next
    BY <1>2, <1>3, <1>6, <1>8, Sizes DEF WordsInv
  <2>2. ~overwritten(log[o].position)
    BY Zenon, <2>1, <1>5, <1>3 DEF Kept, IndexInv
  <2>3. log[o].position \in Nat /\ log[s].position \in Nat
    BY Zenon, <2>1, <1>3, LogTypes DEF LogInv, IInv
  <2>4. log[o].position <= log[s].position
    <3>1. CASE o = s
      BY <3>1, <2>3
    <3>2. CASE o < s
      BY Zenon, <3>2, <2>1, <1>3 DEF LogInv
    <3> QED
      BY <3>1, <3>2, <1>8, <1>6, <1>2
  <2> QED
    BY <2>2, <2>3, <2>4, <1>2, Sizes DEF overwritten
<1>9. WordsInv'
  BY <1>2, <1>3, <1>5, <1>6, Sizes DEF WordsInv
<1>10. LogInv'
  BY Zenon, <1>2, <1>3 DEF LogInv, MessageAt, overwritten
<1>11. IndexInv'
  <2>1. \A s \in o..next-1 : s \in oldest..next-1
    BY <1>2, <1>6
  <2> QED
    BY Zenon, <1>2, <1>3, <1>5, <2>1 DEF IndexInv, NotRecordOf, OtherRecord, overwritten
<1>12. Advances
  BY <1>2, <1>3, <1>5, <1>6 DEF Advances, LogInv, NotRecordOf, OtherRecord, overwritten
<1>13. WriterInv'
  BY Zenon, <1>1, <1>2, <1>4, <1>5, <1>7 DEF WriterInv, Copying
<1>14. ReachInv'
  BY Zenon, <1>2, <1>5, <1>8 DEF ReachInv, overwritten
<1>15. ReaderInv' /\ ResultInv'
  BY Zenon, <1>1, <1>2, <1>12, ReaderStable DEF ReaderInv, ResultInv, Watched, Reading
<1> QED
  BY Zenon, <1>9, <1>10, <1>11, <1>13, <1>14, <1>15 DEF IInv

(* What the holder knows while it copies, files and counts its message.     *)
LEMMA HolderFacts ==
    ASSUME IInv, NEW p \in Procs, p \notin dead, pc[p] \in Copying
    PROVE  /\ claim = p /\ p # Nobody
           /\ tail \in Nat /\ high \in Nat /\ next \in Nat /\ oldest \in Nat
           /\ wlen[p] \in 0..MaxBody /\ wpos[p] \in Nat
           /\ wseq[p] = next /\ oldest + Entries > next
           /\ wpos[p] + RecordSize + wlen[p] <= high
           /\ high <= wpos[p] + RecordSize + MaxBody
           /\ \A s \in First..next-1 : log[s].position + RecordSize + log[s].len <= wpos[p]
           /\ pc[p] # "store_next" => wpos[p] = tail
           /\ pc[p] # "copy_in" =>
                 \A i \in RecordCells(wlen[p]) : MessageAt(next, p, wlen[p], wpos[p], i)
<1>1. claim = p /\ p # Nobody
  BY Zenon, NobodyAssumption DEF IInv, ClaimInv, ClaimExclusive, Copying, Holding, Procs
<1>2. /\ tail \in Nat /\ high \in Nat /\ next \in Nat /\ oldest \in Nat
      /\ wlen[p] \in 0..MaxBody /\ wpos[p] \in Nat
  BY Zenon DEF IInv, TypeOK
<1> QED
  BY Zenon, <1>1, <1>2 DEF IInv, WriterInv

(* A cell of the new message lands on an old position only when that        *)
(* position is overwritten: the ring is a whole turn ahead of it.           *)
LEMMA CopyInPlaces ==
    ASSUME IInv, NEW p \in Procs, copy_in(p), NEW i \in wleft[p]
    PROVE  /\ i \in RecordCells(wlen[p]) /\ i \in Nat
           /\ \A k \in RecordCells(wlen[p]) : Place(wpos[p] + k) = Place(wpos[p] + i) => k = i
           /\ \A q \in Nat : Place(q) = Place(wpos[p] + i) /\ q < wpos[p] + i => overwritten(q)
<1>1. p \notin dead /\ pc[p] = "copy_in"
  BY Zenon DEF copy_in, At
<1>2. /\ claim = p /\ p # Nobody /\ wlen[p] \in 0..MaxBody /\ wpos[p] \in Nat /\ high \in Nat
      /\ wpos[p] + RecordSize + wlen[p] <= high
  BY Zenon, <1>1, HolderFacts DEF Copying
<1>3. i \in RecordCells(wlen[p])
  BY Zenon, <1>1, <1>2 DEF IInv, WriterInv, Copying
<1>4. i \in Nat /\ i < RecordSize + wlen[p] /\ RecordSize + wlen[p] <= Capacity
  BY Zenon, <1>2, <1>3, Sizes
<1>5. ASSUME NEW k \in RecordCells(wlen[p]), Place(wpos[p] + k) = Place(wpos[p] + i) PROVE k = i
  <2>1. k \in Nat /\ k < RecordSize + wlen[p]
    BY Zenon, <1>2, <1>5, Sizes
  <2>2. wpos[p] + k \in Nat /\ wpos[p] + i \in Nat
    BY <1>2, <1>4, <2>1
  <2>3. \/ wpos[p] + k = wpos[p] + i \/ wpos[p] + i >= wpos[p] + k + Capacity
        \/ wpos[p] + k >= wpos[p] + i + Capacity
    BY Zenon, <1>5, <2>2, PlaceApart
  <2> QED
    BY <1>2, <1>4, <2>1, <2>3, Sizes
<1>6. ASSUME NEW q \in Nat, Place(q) = Place(wpos[p] + i), q < wpos[p] + i PROVE overwritten(q)
  <2>1. wpos[p] + i \in Nat
    BY <1>2, <1>4
  <2>2. q = wpos[p] + i \/ wpos[p] + i >= q + Capacity \/ q >= wpos[p] + i + Capacity
    BY Zenon, <1>6, <2>1, PlaceApart
  <2>3. wpos[p] + i >= q + Capacity
    BY <1>6, <2>1, <2>2, Sizes
  <2> QED
    BY <1>2, <1>4, <2>1, <2>3, Sizes DEF overwritten
<1> QED
  BY Zenon, <1>3, <1>4, <1>5, <1>6

(* A cell copied in lands where nothing that is held lives.                 *)
LEMMA CopyInKeeps ==
    ASSUME IInv, TypeOK', ClaimInv', NEW p \in Procs, copy_in(p)
    PROVE  IInv'
<1>1. p \notin dead /\ pc[p] = "copy_in" /\ pc[p] \in Copying
  BY Zenon DEF copy_in, At, Copying
<1>2. /\ claim = p /\ p # Nobody
      /\ tail \in Nat /\ high \in Nat /\ next \in Nat /\ oldest \in Nat
      /\ wlen[p] \in 0..MaxBody /\ wpos[p] \in Nat /\ wpos[p] = tail
      /\ wseq[p] = next /\ oldest + Entries > next
      /\ wpos[p] + RecordSize + wlen[p] <= high
      /\ high <= wpos[p] + RecordSize + MaxBody
      /\ \A s \in First..next-1 : log[s].position + RecordSize + log[s].len <= wpos[p]
  BY Zenon, <1>1, HolderFacts
<1>3. UNCHANGED <<claim, next, high, oldest, tail, index, log, reader, wseq, wpos, wlen>>
  BY Zenon DEF copy_in
<1>4. PICK i \in wleft[p] :
          /\ bytes' = [bytes EXCEPT ![Place(wpos[p] + i)] = Cell(wseq[p], p, wlen[p], i)]
          /\ wleft' = [wleft EXCEPT ![p] = wleft[p] \ {i}]
  BY Zenon DEF copy_in
<1>5. /\ i \in RecordCells(wlen[p]) /\ i \in Nat
      /\ \A k \in RecordCells(wlen[p]) : Place(wpos[p] + k) = Place(wpos[p] + i) => k = i
      /\ \A q \in Nat : Place(q) = Place(wpos[p] + i) /\ q < wpos[p] + i => overwritten(q)
  BY Zenon, <1>4, CopyInPlaces
<1>6. bytes \in [0..Capacity-1 -> Cells] /\ wleft \in [Procs -> SUBSET BufferCells] /\ pc \in [Procs -> Labels]
  BY Zenon DEF IInv, TypeOK
<1>7. \A q \in Nat : bytes'[Place(q)] =
          IF Place(q) = Place(wpos[p] + i) THEN Cell(next, p, wlen[p], i) ELSE bytes[Place(q)]
  BY Zenon, <1>2, <1>4, <1>6, PlaceApart
<1>8. wleft'[p] = wleft[p] \ {i}
  BY Zenon, <1>4, <1>6
<1>9. pc' = [pc EXCEPT ![p] = IF wleft'[p] = {} THEN "index_position" ELSE "copy_in"]
  BY Zenon DEF copy_in, Goto
<1>10. /\ pc'[p] = IF wleft'[p] = {} THEN "index_position" ELSE "copy_in"
       /\ \A q \in Procs : q # p => pc'[q] = pc[q]
  BY Zenon, <1>6, <1>9
<1>11. WordsInv /\ LogInv /\ IndexInv /\ ReachInv /\ WriterInv /\ TypeOK
  BY Zenon DEF IInv
<1>12. WordsInv'
  BY Zenon, <1>3, <1>11 DEF WordsInv
<1>13. LogInv'
  <2>1. ASSUME NEW s \in First..next-1, ~overwritten(log[s].position),
               NEW k \in RecordCells(log[s].len)
        PROVE  bytes'[Place(log[s].position + k)] = bytes[Place(log[s].position + k)]
    <3>1. log[s].position \in Nat /\ log[s].len \in 0..MaxBody
      BY Zenon, <1>11, LogTypes DEF LogInv
    <3>2. k \in Nat /\ k < RecordSize + log[s].len
      BY Zenon, <3>1, <2>1, Sizes
    <3>3. log[s].position + k \in Nat /\ log[s].position + k < wpos[p] + i
      BY <3>1, <3>2, <1>2, <1>5, Sizes
    <3>4. overwritten(log[s].position + k) => overwritten(log[s].position)
      BY <3>1, <3>2, <1>2, Sizes DEF overwritten
    <3>5. Place(log[s].position + k) # Place(wpos[p] + i)
      BY Zenon, <3>3, <3>4, <2>1, <1>5
    <3> QED
      BY Zenon, <3>3, <3>5, <1>7
  <2> QED
    BY ZenonT(30), <1>3, <1>11, <2>1 DEF LogInv, MessageAt, overwritten
<1>14. ASSUME NEW q \in 0..tail, NEW s \in First..next-1, NotRecordOf(q, s)
       PROVE  overwritten(q) \/ OtherRecord(bytes'[Place(q)], s)
  <2>1. CASE Place(q) # Place(wpos[p] + i)
    BY <2>1, <1>7, <1>14, <1>2 DEF NotRecordOf
  <2>2. CASE Place(q) = Place(wpos[p] + i) /\ q < wpos[p] + i
    BY <2>2, <1>5, <1>2
  <2>3. CASE Place(q) = Place(wpos[p] + i) /\ q >= wpos[p] + i
    <3>1. i = 0 /\ q \in Nat
      BY <2>3, <1>2, <1>5
    <3>2. bytes'[Place(q)] = Cell(next, p, wlen[p], 0)
      BY Zenon, <2>3, <3>1, <1>7
    <3> QED
      BY <3>2, <1>2, Sizes DEF OtherRecord, Cell
  <2> QED
    BY <2>1, <2>2, <2>3, <1>2, <1>5
<1>15. Advances
  BY <1>2, <1>3, <1>11, <1>14 DEF Advances, LogInv, NotRecordOf, overwritten
<1>16. IndexInv'
  <2>1. \A s \in First..next-1 : index[Slot(s)].position \in Nat
    BY <1>2, <1>11, Sizes, IndexTypes
  <2>2. \A s \in First..next-1 :
            index[Slot(s)].position <= tail /\ NotRecordOf(index[Slot(s)].position, s) =>
            overwritten(index[Slot(s)].position) \/ OtherRecord(bytes'[Place(index[Slot(s)].position)], s)
    BY <2>1, <1>2, <1>14
  <2> QED
    BY Zenon, <1>3, <1>11, <2>2 DEF IndexInv, NotRecordOf, overwritten
<1>17. WriterInv'
  <2>1. ASSUME NEW k \in RecordCells(wlen[p])
        PROVE  \/ pc'[p] = "copy_in" /\ k \in wleft'[p]
               \/ bytes'[Place(wpos[p] + k)] = Cell(next, p, wlen[p], k)
    <3>1. wpos[p] + k \in Nat
      BY <1>2, Sizes
    <3>2. CASE k = i
      BY Zenon, <3>1, <3>2, <1>7
    <3>3. CASE k # i /\ k \in wleft[p]
      BY Zenon, <3>3, <1>8, <1>10
    <3>4. CASE k # i /\ k \notin wleft[p]
      <4>1. bytes[Place(wpos[p] + k)] = Cell(next, p, wlen[p], k)
        BY Zenon, <3>4, <1>1, <1>2, <1>11 DEF WriterInv, MessageAt
      <4> QED
        BY ZenonT(30), <4>1, <3>1, <3>4, <1>5, <1>7
    <3> QED
      BY Zenon, <3>2, <3>3, <3>4
  <2>2. wleft'[p] \subseteq RecordCells(wlen[p])
    BY Zenon, <1>1, <1>2, <1>8, <1>11 DEF WriterInv
  <2> QED
    BY Zenon, <1>2, <1>3, <1>10, <2>1, <2>2 DEF WriterInv, MessageAt, Copying
<1>18. ReachInv'
  BY Zenon, <1>1, <1>2, <1>3, <1>11 DEF ReachInv, overwritten
<1>19. ReaderInv' /\ ResultInv'
  BY Zenon, <1>3, <1>10, <1>15, ReaderStable DEF ReaderInv, ResultInv, Watched, Reading
<1> QED
  BY Zenon, <1>12, <1>13, <1>16, <1>17, <1>18, <1>19 DEF IInv

(* The two stores to the index.  The entry of the new number is not that of *)
(* a message still held, and it leads to the new record from here on.       *)
LEMMA IndexKeeps ==
    ASSUME IInv, TypeOK', ClaimInv', NEW p \in Procs, index_position(p) \/ index_sequence(p)
    PROVE  IInv'
<1>1. p \notin dead /\ pc[p] \in {"index_position", "index_sequence"}
  BY Zenon DEF index_position, index_sequence, At
<1>2. /\ claim = p /\ p # Nobody
      /\ tail \in Nat /\ high \in Nat /\ next \in Nat /\ oldest \in Nat
      /\ wlen[p] \in 0..MaxBody /\ wpos[p] \in Nat /\ wpos[p] = tail
      /\ wseq[p] = next /\ oldest + Entries > next
      /\ wpos[p] + RecordSize + wlen[p] <= high
      /\ high <= wpos[p] + RecordSize + MaxBody
      /\ \A s \in First..next-1 : log[s].position + RecordSize + log[s].len <= wpos[p]
      /\ \A i \in RecordCells(wlen[p]) : MessageAt(next, p, wlen[p], wpos[p], i)
  BY Zenon, <1>1, HolderFacts DEF Copying
<1>3. /\ UNCHANGED <<claim, next, high, oldest, tail, bytes, log, reader, writer>>
      /\ UNCHANGED <<wseq, wpos, wlen, wleft>>
  BY Zenon DEF index_position, index_sequence, writer
<1>4. /\ pc'[p] \in {"index_sequence", "advance_tail"}
      /\ pc[p] = "index_position" <=> pc'[p] = "index_sequence"
      /\ \A q \in Procs : q # p => pc'[q] = pc[q]
  BY ZenonT(30) DEF index_position, index_sequence, At, Goto, IInv, TypeOK
<1>5. TypeOK /\ WordsInv /\ LogInv /\ IndexInv /\ ReachInv /\ WriterInv
  BY Zenon DEF IInv
<1>6. index \in [0..Entries-1 -> [sequence : Nat, position : Nat]] /\ Slot(next) \in 0..Entries-1
  BY Zenon, <1>2, <1>5, SlotApart DEF TypeOK
<1>7. /\ index'[Slot(next)].position = tail
      /\ \A s \in Nat : Slot(s) # Slot(next) => index'[Slot(s)] = index[Slot(s)]
      /\ pc[p] = "index_sequence" => index'[Slot(next)].sequence = next
      /\ pc[p] = "index_position" => index'[Slot(next)].sequence = index[Slot(next)].sequence
  <2>1. CASE index_position(p)
    <3>1. pc[p] = "index_position"
           /\ index' = [index EXCEPT ![Slot(next)] = [index[Slot(next)] EXCEPT !.position = tail]]
      BY Zenon, <2>1, <1>2 DEF index_position, At
    <3> QED
      BY Zenon, <3>1, <1>6, SlotApart
  <2>2. CASE index_sequence(p)
    <3>1. pc[p] = "index_sequence"
           /\ index' = [index EXCEPT ![Slot(next)] = [index[Slot(next)] EXCEPT !.sequence = next]]
      BY Zenon, <2>2, <1>2 DEF index_sequence, At
    <3>2. index[Slot(next)].position = tail
      BY Zenon, <3>1, <1>2, <1>5 DEF WriterInv
    <3> QED
      BY Zenon, <3>1, <3>2, <1>6, SlotApart
  <2> QED
    BY Zenon, <2>1, <2>2
<1>8. \A s \in oldest..next-1 : Slot(s) # Slot(next) /\ s \in Nat
  BY <1>2, SlotApart, Sizes
<1>9. \A s \in First..next-1 : NotRecordOf(tail, s)
  <2>1. 0 \in RecordCells(wlen[p])
    BY <1>2, Sizes DEF RecordCells
  <2>2. bytes[Place(tail)] = Cell(next, p, wlen[p], 0)
    <3>1. bytes[Place(tail + 0)] = Cell(next, p, wlen[p], 0)
      BY Zenon, <2>1, <1>2 DEF MessageAt
    <3>2. tail + 0 = tail
      BY <1>2
    <3> QED
      BY Zenon, <3>1, <3>2
  <2> QED
    BY <2>2, <1>2, Sizes DEF NotRecordOf, OtherRecord, Cell
<1>10. WordsInv'
  BY Zenon, <1>3, <1>5 DEF WordsInv
<1>11. LogInv'
  BY Zenon, <1>3, <1>5 DEF LogInv, MessageAt, overwritten
<1>12. IndexInv'
  <2>1. \A s \in oldest..next-1 :
           index'[Slot(s)].sequence = s /\ index'[Slot(s)].position = log[s].position
    BY Zenon, <1>5, <1>7, <1>8 DEF IndexInv
  <2>2. ASSUME NEW s \in First..next-1, index'[Slot(s)].sequence >= s
        PROVE  /\ index'[Slot(s)].position <= tail
               /\ \/ index'[Slot(s)].position = log[s].position
                  \/ NotRecordOf(index'[Slot(s)].position, s)
    <3>1. CASE Slot(s) = Slot(next)
      BY <3>1, <1>2, <1>7, <1>9
    <3>2. CASE Slot(s) # Slot(next)
      <4>1. index'[Slot(s)] = index[Slot(s)]
        BY SMTT(30), <3>2, <1>2, <1>7, Sizes
      <4> QED
        BY Zenon, <4>1, <2>2, <1>5 DEF IndexInv
    <3> QED
      BY Zenon, <3>1, <3>2
  <2> QED
    BY Zenon, <1>3, <2>1, <2>2 DEF IndexInv, NotRecordOf, OtherRecord, overwritten
<1>13. Advances
  <2>1. ASSUME NEW s \in First..next-1, index[Slot(s)].sequence >= s
        PROVE  index'[Slot(s)].sequence >= s
    <3>1. CASE Slot(s) # Slot(next) \/ pc[p] = "index_position"
      BY <3>1, <2>1, <1>2, <1>7, Sizes
    <3>2. CASE Slot(s) = Slot(next) /\ pc[p] = "index_sequence"
      BY SMTT(30), <3>2, <1>2, <1>7, Sizes
    <3> QED
      BY Zenon, <3>1, <3>2, <1>1
  <2> QED
    BY SMTT(30), <1>2, <1>3, <1>5, <2>1 DEF Advances, LogInv, NotRecordOf, OtherRecord, overwritten
<1>14. WriterInv'
  <2>1. pc'[p] = "advance_tail" => index'[Slot(next)].sequence = next
    BY Zenon, <1>1, <1>4, <1>7
  <2> QED
    BY Zenon, <1>2, <1>3, <1>4, <1>7, <2>1 DEF WriterInv, MessageAt, Copying
<1>15. ReachInv'
  BY Zenon, <1>1, <1>2, <1>3, <1>5 DEF ReachInv, overwritten
<1>16. ReaderInv' /\ ResultInv'
  BY Zenon, <1>3, <1>4, <1>13, ReaderStable DEF ReaderInv, ResultInv, Watched, Reading
<1> QED
  BY Zenon, <1>10, <1>11, <1>12, <1>14, <1>15, <1>16 DEF IInv

-----------------------------------------------------------------------------
(* The store to tail: the bytes of the new record are now behind it.        *)
LEMMA AdvanceTailKeeps ==
    ASSUME IInv, TypeOK', ClaimInv', NEW p \in Procs, advance_tail(p)
    PROVE  IInv'
<1>1. p \notin dead /\ pc[p] = "advance_tail"
  BY Zenon DEF advance_tail, At
<1>2. /\ claim = p /\ p # Nobody
      /\ tail \in Nat /\ high \in Nat /\ next \in Nat /\ oldest \in Nat
      /\ wlen[p] \in 0..MaxBody /\ wpos[p] \in Nat /\ wpos[p] = tail
      /\ wseq[p] = next /\ oldest + Entries > next
      /\ wpos[p] + RecordSize + wlen[p] <= high
      /\ high <= wpos[p] + RecordSize + MaxBody
      /\ \A s \in First..next-1 : log[s].position + RecordSize + log[s].len <= wpos[p]
      /\ \A i \in RecordCells(wlen[p]) : MessageAt(next, p, wlen[p], wpos[p], i)
  BY Zenon, <1>1, HolderFacts DEF Copying
<1>3. UNCHANGED <<claim, next, high, oldest, index, bytes, log, reader, wseq, wpos, wlen, wleft>>
  BY Zenon DEF advance_tail, writer
<1>4. tail' = wpos[p] + RecordSize + wlen[p] /\ tail' \in Nat /\ tail' >= tail
  BY <1>2, Sizes DEF advance_tail
<1>5. pc'[p] = "store_next" /\ \A q \in Procs : q # p => pc'[q] = pc[q]
  BY Zenon DEF advance_tail, Goto, IInv, TypeOK
<1>6. TypeOK /\ WordsInv /\ LogInv /\ IndexInv /\ ReachInv /\ WriterInv
  BY Zenon DEF IInv
<1>7. WordsInv'
  BY <1>2, <1>3, <1>4, <1>6, Sizes DEF WordsInv
<1>8. LogInv'
  <2>1. \A s \in First..next-1 : log[s].position + RecordSize + log[s].len <= tail'
    <3> SUFFICES ASSUME NEW s \in First..next-1
                 PROVE  log[s].position + RecordSize + log[s].len <= tail'
      BY Zenon
    <3>1. log[s].position \in Nat /\ log[s].len \in 0..MaxBody
      BY Zenon, <1>6, LogTypes DEF LogInv
    <3> QED
      BY <3>1, <1>2, <1>4, Sizes
  <2> QED
    BY Zenon, <1>3, <1>6, <2>1 DEF LogInv, MessageAt, overwritten
<1>9. IndexInv'
  <2>1. \A s \in First..next-1 : index[Slot(s)].position \in Nat
    BY SMTT(30), <1>2, <1>6, Sizes, IndexTypes
  <2>2. \A s \in First..next-1 : index[Slot(s)].position <= tail => index[Slot(s)].position <= tail'
    BY SMTT(30), <2>1, <1>2, <1>4
  <2> QED
    BY Zenon, <1>3, <1>6, <2>2 DEF IndexInv, NotRecordOf, OtherRecord, overwritten
<1>10. Advances
  BY <1>2, <1>3, <1>4, <1>6 DEF Advances, LogInv, NotRecordOf, OtherRecord, overwritten
<1>11. WriterInv'
  <2>1. index[Slot(next)].position = wpos[p] /\ index[Slot(next)].sequence = next
    BY Zenon, <1>1, <1>2, <1>6 DEF WriterInv
  <2> QED
    BY Zenon, <1>2, <1>3, <1>4, <1>5, <2>1 DEF WriterInv, MessageAt, Copying
<1>12. ReachInv'
  BY Zenon, <1>1, <1>2, <1>3, <1>6 DEF ReachInv, overwritten
<1>13. ReaderInv' /\ ResultInv'
  BY Zenon, <1>3, <1>5, <1>10, ReaderStable DEF ReaderInv, ResultInv, Watched, Reading
<1> QED
  BY Zenon, <1>7, <1>8, <1>9, <1>11, <1>12, <1>13 DEF IInv

(* The message counts: it takes its place in every part of the invariant.   *)
LEMMA StoreNextKeeps ==
    ASSUME IInv, TypeOK', ClaimInv', NEW p \in Procs, store_next(p)
    PROVE  IInv'
<1>1. p \notin dead /\ pc[p] = "store_next"
  BY Zenon DEF store_next, At
<1>2. /\ claim = p /\ p # Nobody
      /\ tail \in Nat /\ high \in Nat /\ next \in Nat /\ oldest \in Nat
      /\ wlen[p] \in 0..MaxBody /\ wpos[p] \in Nat
      /\ wseq[p] = next /\ oldest + Entries > next
      /\ wpos[p] + RecordSize + wlen[p] <= high
      /\ high <= wpos[p] + RecordSize + MaxBody
      /\ \A s \in First..next-1 : log[s].position + RecordSize + log[s].len <= wpos[p]
      /\ \A i \in RecordCells(wlen[p]) : MessageAt(next, p, wlen[p], wpos[p], i)
  BY Zenon, <1>1, HolderFacts DEF Copying
<1>3. UNCHANGED <<claim, high, oldest, tail, index, bytes, reader, wseq, wpos, wlen, wleft>>
  BY Zenon DEF store_next, writer
<1>4. TypeOK /\ WordsInv /\ LogInv /\ IndexInv /\ ReachInv /\ WriterInv
  BY Zenon DEF IInv
<1>5. /\ tail = wpos[p] + RecordSize + wlen[p]
      /\ index[Slot(next)].position = wpos[p] /\ index[Slot(next)].sequence = next
  BY Zenon, <1>1, <1>2, <1>4 DEF WriterInv, Copying
<1>6. pc'[p] = "give_claim" /\ \A q \in Procs : q # p => pc'[q] = pc[q]
  BY Zenon DEF store_next, Goto, IInv, TypeOK
<1>7. next' = next + 1 /\ First <= next /\ next \notin First..next-1
  BY <1>2, <1>4, Sizes DEF store_next, WordsInv
<1>8. First..next'-1 = (First..next-1) \cup {next}
  BY <1>2, <1>7, Sizes
<1>9. /\ DOMAIN log' = First..next'-1
      /\ log'[next].by = p /\ log'[next].len = wlen[p] /\ log'[next].position = wpos[p]
      /\ \A s \in First..next-1 : log'[s] = log[s]
  <2>1. DOMAIN log = First..next-1
    BY Zenon, <1>4 DEF LogInv
  <2>2. log' = [s \in (First..next-1) \cup {next} |->
                   IF s = next THEN [by |-> p, len |-> wlen[p], position |-> wpos[p]] ELSE log[s]]
    BY Zenon, <1>2, <2>1 DEF store_next
  <2> QED
    BY Zenon, <2>2, <1>7, <1>8
<1>10. ~overwritten(wpos[p])
  BY SMTT(30), <1>2, Sizes DEF overwritten
<1>11. WordsInv'
  BY <1>2, <1>3, <1>4, <1>7, Sizes DEF WordsInv
<1>12. \A s \in First..next-1 : log[s].position \in Nat /\ log[s].len \in 0..MaxBody
  BY Zenon, <1>4, LogTypes DEF LogInv
<1>13. LogInv'
  <2>1. ASSUME NEW s \in First..next'-1 PROVE log'[s].position + RecordSize + log'[s].len <= tail
    <3>1. CASE s = next
      BY <3>1, <1>2, <1>5, <1>9, Sizes
    <3>2. CASE s \in First..next-1
      BY Zenon, <3>2, <1>4, <1>9 DEF LogInv
    <3> QED
      BY Zenon, <3>1, <3>2, <1>8
  <2>2. ASSUME NEW s \in First..next'-1, NEW t \in First..next'-1, s < t
        PROVE  log'[s].position <= log'[t].position
    <3>1. s \in First..next-1
      BY <2>2, <1>2, <1>7, Sizes
    <3>2. CASE t = next
      <4>1. log[s].position + RecordSize + log[s].len <= wpos[p]
        BY Zenon, <3>1, <1>2
      <4>2. log[s].position \in Nat /\ log[s].len \in Nat /\ RecordSize \in Nat
        BY <3>1, <1>12, Sizes
      <4>3. log[s].position <= wpos[p]
        BY <4>1, <4>2, <1>2
      <4> QED
        BY Zenon, <4>3, <3>1, <3>2, <1>9
    <3>3. CASE t \in First..next-1
      BY Zenon, <3>1, <3>3, <2>2, <1>4, <1>9 DEF LogInv
    <3> QED
      BY Zenon, <3>2, <3>3, <1>8
  <2>3. \A s \in First..next'-1 : ~overwritten(log'[s].position) =>
            \A i \in RecordCells(log'[s].len) :
                MessageAt(s, log'[s].by, log'[s].len, log'[s].position, i)
    BY ZenonT(30), <1>2, <1>4, <1>8, <1>9 DEF LogInv
  <2> QED
    BY Zenon, <1>3, <1>9, <2>1, <2>2, <2>3 DEF LogInv, MessageAt, overwritten
<1>14. IndexInv'
  <2>1. \A s \in oldest..next'-1 : s = next \/ (s \in oldest..next-1 /\ s \in First..next-1)
    BY <1>2, <1>4, <1>7, Sizes DEF WordsInv
  <2>2. \A s \in oldest..next'-1 :
            index[Slot(s)].sequence = s /\ index[Slot(s)].position = log'[s].position
    BY Zenon, <1>4, <1>5, <1>9, <2>1 DEF IndexInv
  <2>3. \A s \in First..next'-1 : index[Slot(s)].sequence >= s =>
            /\ index[Slot(s)].position <= tail
            /\ \/ index[Slot(s)].position = log'[s].position
               \/ NotRecordOf(index[Slot(s)].position, s)
    <3>1. index[Slot(next)].position <= tail
      BY SMTT(30), <1>2, <1>5, Sizes
    <3> QED
      BY Zenon, <1>4, <1>5, <1>8, <1>9, <3>1 DEF IndexInv
  <2> QED
    BY Zenon, <1>3, <2>2, <2>3 DEF IndexInv, NotRecordOf, OtherRecord, overwritten
<1>15. Advances
  BY <1>2, <1>3, <1>7, <1>8, <1>9 DEF Advances, NotRecordOf, OtherRecord, overwritten
<1>16. WriterInv'
  BY Zenon, <1>2, <1>3, <1>6 DEF WriterInv, Copying
<1>17. ReachInv'
  <2>1. \A s \in oldest..next'-1 : s = next \/ (s \in oldest..next-1 /\ s \in First..next-1)
    BY <1>2, <1>4, <1>7, Sizes DEF WordsInv
  <2>2. \A s \in oldest..next-1 : ~overwritten(log[s].position)
    BY Zenon, <1>1, <1>2, <1>4 DEF ReachInv
  <2> QED
    BY Zenon, <1>3, <1>9, <1>10, <2>1, <2>2 DEF ReachInv, overwritten
<1>18. ReaderInv' /\ ResultInv'
  BY Zenon, <1>3, <1>6, <1>15, ReaderStable DEF ReaderInv, ResultInv, Watched, Reading
<1> QED
  BY Zenon, <1>11, <1>13, <1>14, <1>16, <1>17, <1>18 DEF IInv

-----------------------------------------------------------------------------
(* A reader's step: the ring is as it was, and so is every other reader.    *)
Looks(p) ==
    /\ UNCHANGED <<ring, dead, writer, log>>
    /\ pc[p] \notin Holding
    /\ \A q \in Procs : q # p =>
          /\ pc'[q] = pc[q] /\ rseq'[q] = rseq[q] /\ rbuf'[q] = rbuf[q] /\ rpos'[q] = rpos[q]
          /\ rlen'[q] = rlen[q] /\ rleft'[q] = rleft[q] /\ got'[q] = got[q] /\ ret'[q] = ret[q]

(* A reader's step keeps IInv if what it says of that reader still holds.   *)
LEMMA LooksKeeps ==
    ASSUME IInv, TypeOK', ClaimInv', NEW p \in Procs, Looks(p),
           ReaderKnows(p)', Intact(p)', Gone(p)', LostAt(p)' => rseq'[p] < next'
    PROVE  IInv'
<1>1. UNCHANGED ring /\ UNCHANGED log
  BY Zenon DEF Looks
<1>2. UNCHANGED <<next, high, oldest, tail, index, bytes, log>>
  BY Zenon, <1>1 DEF ring
<1>3. WordsInv' /\ LogInv' /\ IndexInv'
  BY Zenon, <1>2, RingSame
<1>4. claim # Nobody => claim \in Procs /\ claim # p
  BY Zenon DEF IInv, TypeOK, ClaimInv, Looks
<1>5. WriterInv' /\ ReachInv'
  BY Zenon, <1>1, <1>4, HolderSame DEF Looks, writer
<1>6. ASSUME NEW q \in Procs, q # p
      PROVE  ReaderKnows(q)' /\ Intact(q)' /\ Gone(q)' /\ (LostAt(q)' => rseq'[q] < next')
  <2>1. ReaderKnows(q) /\ Intact(q) /\ Gone(q) /\ (LostAt(q) => rseq[q] < next)
    BY Zenon DEF IInv, ReaderInv, ResultInv
  <2>2. /\ pc'[q] = pc[q] /\ rseq'[q] = rseq[q] /\ rbuf'[q] = rbuf[q] /\ rpos'[q] = rpos[q]
        /\ rlen'[q] = rlen[q] /\ rleft'[q] = rleft[q] /\ got'[q] = got[q] /\ ret'[q] = ret[q]
    BY Zenon, <1>6 DEF Looks
  <2>3. ReaderKnows(q)'
    BY ZenonT(60), <1>2, <2>1, <2>2 DEF ReaderKnows, Located, NotRecordOf, OtherRecord, CopiedRecord,
                            CopiedBody, GotMessage, overwritten
  <2>4. Intact(q)' /\ Gone(q)' /\ (LostAt(q)' => rseq'[q] < next')
    BY Zenon, <1>2, <2>1, <2>2 DEF Intact, Gone, LostAt
  <2> QED
    BY Zenon, <2>3, <2>4
<1>7. ReaderInv' /\ ResultInv'
  BY Zenon, <1>6 DEF ReaderInv, ResultInv
<1> QED
  BY Zenon, <1>3, <1>5, <1>7 DEF IInv

(* What the invariant says to a reader that is in a call.                   *)
LEMMA ReaderFacts ==
    ASSUME IInv, NEW p \in Procs
    PROVE  /\ ReaderKnows(p) /\ TypeOK /\ WordsInv /\ LogInv /\ IndexInv
           /\ next \in Nat /\ oldest \in Nat /\ high \in Nat /\ tail \in Nat /\ rseq[p] \in Nat
           /\ rpos[p] \in Nat
           /\ pc \in [Procs -> Labels] /\ ret \in [Procs -> {-2, -1, 0, 1}]
           /\ rseq \in [Procs -> Nat] /\ rbuf \in [Procs -> Nat] /\ rpos \in [Procs -> Nat]
           /\ rlen \in [Procs -> 0..MaxBody] /\ rleft \in [Procs -> SUBSET BufferCells]
           /\ got \in [Procs -> [BufferCells -> Cells]]
           /\ \A s \in First..next-1 :
                 index[Slot(s)].sequence # s \/ index[Slot(s)].position # log[s].position => s < oldest
<1>1. ReaderKnows(p) /\ TypeOK /\ WordsInv /\ LogInv /\ IndexInv
  BY Zenon DEF IInv, ReaderInv
<1>2. /\ next \in Nat /\ oldest \in Nat /\ high \in Nat /\ tail \in Nat /\ rseq[p] \in Nat
      /\ rpos[p] \in Nat
      /\ pc \in [Procs -> Labels] /\ ret \in [Procs -> {-2, -1, 0, 1}]
      /\ rseq \in [Procs -> Nat] /\ rbuf \in [Procs -> Nat] /\ rpos \in [Procs -> Nat]
      /\ rlen \in [Procs -> 0..MaxBody] /\ rleft \in [Procs -> SUBSET BufferCells]
      /\ got \in [Procs -> [BufferCells -> Cells]]
  BY Zenon, <1>1 DEF TypeOK
<1>3. \A s \in First..next-1 : s < oldest \/ s \in oldest..next-1
  BY <1>2, Sizes
<1> QED
  BY Zenon, <1>1, <1>2, <1>3 DEF IndexInv

(* The calls that end, or begin, with nothing known: read and read_done.    *)
LEMMA ReadEndsKeep ==
    ASSUME IInv, TypeOK', ClaimInv', NEW p \in Procs,
           \/ \E s \in First-1..next, capacity \in Buffers : read(p, s, capacity)
           \/ read_done(p)
    PROVE  IInv'
<1>1. Looks(p) /\ pc'[p] \in {"load_next", "idle"}
  <2>1. CASE \E s \in First-1..next, capacity \in Buffers : read(p, s, capacity)
    BY Zenon, <2>1, ReaderFacts DEF read, At, Goto, Looks, Holding
  <2>2. CASE read_done(p)
    BY ZenonT(30), <2>2, ReaderFacts DEF read_done, At, Goto, Looks, Holding
  <2> QED
    BY Zenon, <2>1, <2>2
<1>2. ReaderKnows(p)' /\ Intact(p)' /\ Gone(p)' /\ ~LostAt(p)'
  BY Zenon, <1>1 DEF ReaderKnows, Intact, Gone, LostAt, Reading
<1> QED
  BY Zenon, <1>1, <1>2, LooksKeeps

(* The results av_bus_read can give are different numbers.                  *)
LEMMA Answers ==
    /\ 0 \notin {1, -2} /\ -1 \notin {1, -2} /\ 0 # -1 /\ 1 # -1 /\ -2 # -1 /\ 1 # -2
OBVIOUS

(* A call that has returned knows nothing of the ring any more; what its    *)
(* result must satisfy depends on which it is.                              *)
LEMMA Answered ==
    ASSUME NEW p \in Procs, pc'[p] = "returned"
    PROVE  /\ ReaderKnows(p)'
           /\ ret'[p] \notin {1, -2} => Intact(p)'
           /\ ret'[p] # -1 => Gone(p)' /\ ~LostAt(p)'
BY Zenon DEF ReaderKnows, Intact, Gone, LostAt, Reading

(* A call that returns -1 is in order when its number is below `oldest' or  *)
(* its position overwritten; one that goes on changes nothing but pc.       *)
LEMMA LostKeeps ==
    ASSUME IInv, TypeOK', ClaimInv', NEW p \in Procs, Looks(p), Return(p, -1),
           rseq'[p] = rseq[p], rseq[p] < next,
           rseq[p] < oldest \/ high > log[rseq[p]].position + Capacity
    PROVE  IInv'
<1>1. pc'[p] = "returned" /\ ret'[p] = -1
  BY Zenon, ReaderFacts DEF Return, Goto
<1>2. UNCHANGED <<next, oldest, high, log>>
  BY Zenon DEF Looks, ring
<1>3. ReaderKnows(p)' /\ Intact(p)'
  BY Zenon, <1>1, Answered, Answers
<1>4. Gone(p)' /\ rseq'[p] < next'
  BY Zenon, <1>2 DEF Gone
<1> QED
  BY Zenon, <1>3, <1>4, LooksKeeps

(* The load of next: what was asked for is not published yet, or it is.     *)
LEMMA LoadNextKeeps ==
    ASSUME IInv, TypeOK', ClaimInv', NEW p \in Procs, load_next(p)
    PROVE  IInv'
<1>1. Looks(p) /\ rseq' = rseq /\ next' = next
  BY Zenon, ReaderFacts DEF load_next, At, Goto, Return, Looks, Holding, ring
<1>2. CASE rseq[p] >= next
  <2>1. pc'[p] = "returned" /\ ret'[p] = 0
    BY Zenon, <1>2, ReaderFacts DEF load_next, Return, Goto
  <2>2. ReaderKnows(p)' /\ Intact(p)' /\ Gone(p)' /\ ~LostAt(p)'
    BY Zenon, <2>1, Answered, Answers
  <2> QED
    BY Zenon, <1>1, <2>2, LooksKeeps
<1>3. CASE ~(rseq[p] >= next)
  <2>0. pc'[p] = "load_oldest" /\ next \in Nat /\ rseq[p] \in Nat
    BY Zenon, <1>3, ReaderFacts DEF load_next, Goto
  <2>1. pc'[p] = "load_oldest" /\ rseq[p] < next
    BY <1>3, <2>0
  <2>2. ReaderKnows(p)' /\ Intact(p)' /\ Gone(p)' /\ ~LostAt(p)'
    BY Zenon, <1>1, <2>1 DEF ReaderKnows, Intact, Gone, LostAt, Reading
  <2> QED
    BY Zenon, <1>1, <2>2, LooksKeeps
<1> QED
  BY Zenon, <1>2, <1>3

(* The load of oldest: what was asked for is gone, or was held just now.    *)
LEMMA LoadOldestKeeps ==
    ASSUME IInv, TypeOK', ClaimInv', NEW p \in Procs, load_oldest(p)
    PROVE  IInv'
<1>1. Looks(p) /\ rseq' = rseq /\ next' = next
  BY Zenon, ReaderFacts DEF load_oldest, At, Goto, Return, Looks, Holding, ring
<1>2. rseq[p] < next
  BY Zenon, ReaderFacts DEF load_oldest, At, ReaderKnows
<1>3. CASE rseq[p] < oldest
  BY Zenon, <1>1, <1>2, <1>3, LostKeeps DEF load_oldest
<1>4. CASE ~(rseq[p] < oldest)
  <2>1. pc'[p] = "load_before"
    BY Zenon, <1>4, ReaderFacts DEF load_oldest, Goto
  <2>2. rseq[p] \in First..next-1
    BY <1>2, <1>4, ReaderFacts, Sizes DEF WordsInv
  <2>3. ReaderKnows(p)' /\ Intact(p)' /\ Gone(p)' /\ ~LostAt(p)'
    BY Zenon, <1>1, <2>1, <2>2 DEF ReaderKnows, Intact, Gone, LostAt, Reading
  <2> QED
    BY Zenon, <1>1, <2>3, LooksKeeps
<1> QED
  BY Zenon, <1>3, <1>4

(* The first load of the entry's number.                                    *)
LEMMA LoadBeforeKeeps ==
    ASSUME IInv, TypeOK', ClaimInv', NEW p \in Procs, load_before(p)
    PROVE  IInv'
<1>1. Looks(p) /\ rseq' = rseq /\ next' = next /\ index' = index
  BY Zenon, ReaderFacts DEF load_before, At, Goto, Return, Looks, Holding, ring
<1>2. rseq[p] \in First..next-1 /\ rseq[p] < next
  BY SMTT(30), ReaderFacts, Sizes DEF load_before, At, ReaderKnows, Reading
<1>3. CASE index[Slot(rseq[p])].sequence # rseq[p]
  BY Zenon, <1>1, <1>2, <1>3, ReaderFacts, LostKeeps DEF load_before
<1>4. CASE index[Slot(rseq[p])].sequence = rseq[p]
  <2>1. pc'[p] = "load_position"
    BY Zenon, <1>4, ReaderFacts DEF load_before, Goto
  <2>2. index[Slot(rseq[p])].sequence >= rseq[p]
    BY SMTT(30), <1>4, ReaderFacts
  <2>3. ReaderKnows(p)' /\ Intact(p)' /\ Gone(p)' /\ ~LostAt(p)'
    BY Zenon, <1>1, <1>2, <2>1, <2>2 DEF ReaderKnows, Intact, Gone, LostAt, Reading
  <2> QED
    BY Zenon, <1>1, <2>3, LooksKeeps
<1> QED
  BY Zenon, <1>3, <1>4

(* The load of the entry's position.                                        *)
LEMMA LoadPositionKeeps ==
    ASSUME IInv, TypeOK', ClaimInv', NEW p \in Procs, load_position(p)
    PROVE  IInv'
<1>1. /\ Looks(p) /\ rseq' = rseq /\ UNCHANGED <<next, index, tail, oldest, high, bytes, log>>
      /\ pc'[p] = "load_after" /\ rpos'[p] = index[Slot(rseq[p])].position
  BY Zenon, ReaderFacts DEF load_position, At, Goto, Looks, Holding, ring
<1>2. rseq[p] \in First..next-1 /\ index[Slot(rseq[p])].sequence >= rseq[p]
  BY Zenon, ReaderFacts DEF load_position, At, ReaderKnows, Reading
<1>3. /\ index[Slot(rseq[p])].position <= tail
      /\ \/ index[Slot(rseq[p])].position = log[rseq[p]].position
         \/ NotRecordOf(index[Slot(rseq[p])].position, rseq[p])
      /\ index[Slot(rseq[p])].position = log[rseq[p]].position \/ rseq[p] < oldest
  BY Zenon, <1>2, ReaderFacts DEF IndexInv
<1>4. Located(p)'
  BY Zenon, <1>1, <1>3 DEF Located, NotRecordOf, OtherRecord, overwritten
<1>5. ReaderKnows(p)' /\ Intact(p)' /\ Gone(p)' /\ ~LostAt(p)'
  BY Zenon, <1>1, <1>2, <1>4 DEF ReaderKnows, Intact, Gone, LostAt, Reading
<1> QED
  BY Zenon, <1>1, <1>5, LooksKeeps

(* The second load of the entry's number: if it is the one asked for, the   *)
(* position between the two was its.                                        *)
LEMMA LoadAfterKeeps ==
    ASSUME IInv, TypeOK', ClaimInv', NEW p \in Procs, load_after(p)
    PROVE  IInv'
<1>1. /\ Looks(p) /\ UNCHANGED <<rseq, rpos, got>>
      /\ UNCHANGED <<next, index, tail, oldest, high, bytes, log>>
  BY Zenon, ReaderFacts DEF load_after, At, Goto, Return, Looks, Holding, ring
<1>2. rseq[p] \in First..next-1 /\ rseq[p] < next /\ Located(p)
  BY SMTT(30), ReaderFacts, Sizes DEF load_after, At, ReaderKnows, Reading
<1>3. CASE index[Slot(rseq[p])].sequence # rseq[p]
  BY Zenon, <1>1, <1>2, <1>3, ReaderFacts, LostKeeps DEF load_after
<1>4. CASE index[Slot(rseq[p])].sequence = rseq[p]
  <2>1. pc'[p] = "copy_record" /\ rleft'[p] = RecordCells(0)
    BY Zenon, <1>4, ReaderFacts DEF load_after, Goto
  <2>2. Located(p)'
    BY Zenon, <1>1, <1>2 DEF Located, NotRecordOf, OtherRecord, overwritten
  <2>3. CopiedRecord(p)'
    BY Zenon, <2>1 DEF CopiedRecord
  <2>4. ReaderKnows(p)' /\ Intact(p)' /\ Gone(p)' /\ ~LostAt(p)'
    BY ZenonT(30), <1>1, <1>2, <2>1, <2>2, <2>3 DEF ReaderKnows, Intact, Gone, LostAt, Reading
  <2> QED
    BY Zenon, <1>1, <2>4, LooksKeeps
<1> QED
  BY Zenon, <1>3, <1>4

(* A copied cell of the record: the message's own, unless the position was  *)
(* overwritten or never led to this message.                                *)
LEMMA CopiedCell ==
    ASSUME IInv, NEW p \in Procs, rseq[p] \in First..next-1,
           rpos[p] = log[rseq[p]].position, NEW i \in RecordCells(log[rseq[p]].len)
    PROVE  \/ overwritten(rpos[p])
           \/ bytes[Place(rpos[p] + i)] =
                 Cell(rseq[p], log[rseq[p]].by, log[rseq[p]].len, i)
BY Zenon, ReaderFacts DEF LogInv, MessageAt

(* A cell of the record copied out is the message's, unless high has passed *)
(* it.                                                                      *)
LEMMA CopyRecordKeeps ==
    ASSUME IInv, TypeOK', ClaimInv', NEW p \in Procs, copy_out(p, "copy_record", "check_record")
    PROVE  IInv'
<1>1. /\ Looks(p) /\ UNCHANGED <<rseq, rpos, rlen>>
      /\ UNCHANGED <<next, index, tail, oldest, high, bytes, log>>
  BY Zenon, ReaderFacts DEF copy_out, At, Goto, Looks, Holding, ring
<1>2. /\ rseq[p] \in First..next-1 /\ Located(p) /\ CopiedRecord(p)
      /\ rleft[p] \subseteq RecordCells(0) /\ pc[p] = "copy_record"
  BY Zenon, ReaderFacts DEF copy_out, At, ReaderKnows, Reading
<1>3. PICK i \in rleft[p] :
          /\ got' = [got EXCEPT ![p] = [got[p] EXCEPT ![i] = bytes[Place(rpos[p] + i)]]]
          /\ rleft' = [rleft EXCEPT ![p] = rleft[p] \ {i}]
  BY Zenon DEF copy_out
<1>4. i \in RecordCells(0) /\ i \in BufferCells
  BY Zenon, <1>2, <1>3, CellTypes
<1>5. /\ rleft'[p] = rleft[p] \ {i}
      /\ got'[p][i] = bytes[Place(rpos[p] + i)]
      /\ \A k \in BufferCells : k # i => got'[p][k] = got[p][k]
  BY Zenon, <1>3, <1>4, ReaderFacts
<1>6. pc'[p] = IF rleft'[p] = {} THEN "check_record" ELSE "copy_record"
  BY Zenon, ReaderFacts DEF copy_out, Goto
<1>7. Located(p)'
  BY Zenon, <1>1, <1>2 DEF Located, NotRecordOf, OtherRecord, overwritten
<1>8. ASSUME NEW k \in RecordCells(0)
      PROVE  \/ pc'[p] = "copy_record" /\ k \in rleft'[p]
             \/ rpos[p] = log[rseq[p]].position /\ GotMessage(p, k)'
             \/ /\ rpos[p] # log[rseq[p]].position
                /\ k = 0 => overwritten(rpos[p]) \/ OtherRecord(got'[p][0], rseq[p])
  <2>0. k \in BufferCells
    BY Zenon, CellTypes
  <2>1. CASE k # i /\ k \in rleft[p]
    BY Zenon, <2>1, <1>5, <1>6
  <2>2. CASE k # i /\ k \notin rleft[p]
    <3>1. got'[p][k] = got[p][k]
      BY Zenon, <2>0, <2>2, <1>5
    <3>2. \/ rpos[p] = log[rseq[p]].position /\ GotMessage(p, k)
          \/ /\ rpos[p] # log[rseq[p]].position
             /\ k = 0 => overwritten(rpos[p]) \/ OtherRecord(got[p][0], rseq[p])
      BY Zenon, <2>2, <1>2 DEF CopiedRecord
    <3> QED
      BY Zenon, <3>1, <3>2, <1>1 DEF GotMessage, overwritten, OtherRecord
  <2>3. CASE k = i /\ rpos[p] = log[rseq[p]].position
    <3>1. log[rseq[p]].len \in 0..MaxBody
      BY Zenon, <1>2, ReaderFacts, LogTypes DEF LogInv
    <3>2. i \in RecordCells(log[rseq[p]].len)
      BY <3>1, <1>4, Sizes DEF RecordCells
    <3>3. \/ overwritten(rpos[p])
          \/ bytes[Place(rpos[p] + i)] = Cell(rseq[p], log[rseq[p]].by, log[rseq[p]].len, i)
      BY Zenon, <2>3, <3>2, <1>2, CopiedCell
    <3> QED
      BY Zenon, <2>3, <3>3, <1>1, <1>5 DEF GotMessage, overwritten
  <2>4. CASE k = i /\ rpos[p] # log[rseq[p]].position
    <3>1. k = 0 => rpos[p] + i = rpos[p]
      BY <2>4, ReaderFacts
    <3>2. NotRecordOf(rpos[p], rseq[p])
      BY Zenon, <2>4, <1>2 DEF Located
    <3> QED
      BY Zenon, <2>4, <3>1, <3>2, <1>5 DEF NotRecordOf
  <2> QED
    BY Zenon, <2>1, <2>2, <2>3, <2>4
<1>9. CopiedRecord(p)'
  BY Zenon, <1>1, <1>8 DEF CopiedRecord, overwritten
<1>10. rleft'[p] \subseteq RecordCells(0)
  BY Zenon, <1>2, <1>5
<1>11. ReaderKnows(p)' /\ Intact(p)' /\ Gone(p)' /\ ~LostAt(p)'
  BY Zenon, <1>1, <1>2, <1>6, <1>7, <1>9, <1>10 DEF ReaderKnows, Intact, Gone, LostAt, Reading
<1> QED
  BY Zenon, <1>1, <1>11, LooksKeeps

-----------------------------------------------------------------------------
(* What a reader concludes from the copies it made.                         *)

(* The record is the message's when its number is right and its position    *)
(* not overwritten; otherwise the message is gone.                          *)
LEMMA CheckRecordKeeps ==
    ASSUME IInv, TypeOK', ClaimInv', NEW p \in Procs, check_record(p)
    PROVE  IInv'
<1>1. /\ UNCHANGED <<rseq, rpos, rbuf, got>>
      /\ UNCHANGED <<next, index, tail, oldest, high, bytes, log>>
  BY Zenon DEF check_record, ring
<1>2. Looks(p)
  <2>1. \E to \in Labels : pc' = [pc EXCEPT ![p] = to]
    BY Zenon DEF check_record, Return, Goto, Labels
  <2>2. ret' = ret \/ \E v \in {-1, -2} : ret' = [ret EXCEPT ![p] = v]
    BY Zenon DEF check_record, Return
  <2>3. rlen' = rlen \/ \E len \in LengthIn(got[p][1]) : rlen' = [rlen EXCEPT ![p] = len]
    BY Zenon DEF check_record
  <2>4. \/ rleft' = rleft
        \/ \E len \in LengthIn(got[p][1]) :
               rleft' = [rleft EXCEPT ![p] = RecordCells(len) \ RecordCells(0)]
    BY Zenon DEF check_record
  <2>5. UNCHANGED <<ring, dead, writer, log>> /\ pc[p] \notin Holding
    BY Zenon DEF check_record, At, Holding
  <2> QED
    BY Zenon, <1>1, <2>1, <2>2, <2>3, <2>4, <2>5, ReaderFacts DEF Looks
<1>3. /\ rseq[p] \in First..next-1 /\ rseq[p] < next /\ Located(p) /\ CopiedRecord(p)
      /\ pc[p] = "check_record"
  BY ReaderFacts, Sizes DEF check_record, At, ReaderKnows, Reading
<1>4. log[rseq[p]].position \in Nat /\ log[rseq[p]].len \in 0..MaxBody
  BY Zenon, <1>3, ReaderFacts, LogTypes DEF LogInv
<1>5. 0 \in RecordCells(0) /\ 1 \in RecordCells(0)
  BY Sizes DEF RecordCells
<1>6. ASSUME rpos[p] = log[rseq[p]].position, ~overwritten(rpos[p])
      PROVE  /\ got[p][0] = Cell(rseq[p], log[rseq[p]].by, log[rseq[p]].len, 0)
             /\ got[p][1] = Cell(rseq[p], log[rseq[p]].by, log[rseq[p]].len, 1)
             /\ NumberIn(got[p][0], rseq[p]) = {rseq[p]}
             /\ LengthIn(got[p][1]) = {log[rseq[p]].len}
  <2>1. GotMessage(p, 0) /\ GotMessage(p, 1)
    BY Zenon, <1>3, <1>5, <1>6 DEF CopiedRecord
  <2>2. /\ got[p][0] = Cell(rseq[p], log[rseq[p]].by, log[rseq[p]].len, 0)
        /\ got[p][1] = Cell(rseq[p], log[rseq[p]].by, log[rseq[p]].len, 1)
    BY Zenon, <2>1, <1>6 DEF GotMessage
  <2> QED
    BY <2>2 DEF NumberIn, LengthIn, Cell
<1>7. ASSUME rpos[p] # log[rseq[p]].position, ~overwritten(rpos[p])
      PROVE  rseq[p] \notin NumberIn(got[p][0], rseq[p])
  <2>1. OtherRecord(got[p][0], rseq[p])
    BY Zenon, <1>3, <1>5, <1>7 DEF CopiedRecord
  <2> QED
    BY Zenon, <2>1 DEF OtherRecord, NumberIn
<1>8. PICK s \in NumberIn(got[p][0], rseq[p]), len \in LengthIn(got[p][1]) :
          IF overwritten(rpos[p]) \/ s # rseq[p] \/ len > MaxBody
          THEN Return(p, -1) /\ UNCHANGED <<rlen, rleft>>
          ELSE /\ rlen' = [rlen EXCEPT ![p] = len]
               /\ IF len > rbuf[p]
                  THEN Return(p, -2) /\ UNCHANGED rleft
                  ELSE /\ rleft' = [rleft EXCEPT ![p] = RecordCells(len) \ RecordCells(0)]
                       /\ Goto(p, IF len = 0 THEN "check_body" ELSE "copy_body")
                       /\ UNCHANGED ret
  BY Zenon DEF check_record
<1>9. CASE overwritten(rpos[p]) \/ s # rseq[p] \/ len > MaxBody
  <2>1. Return(p, -1)
    BY Zenon, <1>8, <1>9
  <2>2. rseq[p] < oldest \/ high > log[rseq[p]].position + Capacity
    <3>1. CASE rpos[p] # log[rseq[p]].position
      BY Zenon, <3>1, <1>3 DEF Located
    <3>2. CASE rpos[p] = log[rseq[p]].position
      <4>1. overwritten(rpos[p])
        <5> SUFFICES ASSUME ~overwritten(rpos[p]) PROVE FALSE
          BY Zenon
        <5>1. s = rseq[p] /\ len = log[rseq[p]].len
          BY Zenon, <3>2, <1>6, <1>8
        <5>2. ~(len > MaxBody)
          BY <5>1, <1>4, Sizes
        <5> QED
          BY Zenon, <5>1, <5>2, <1>9
      <4> QED
        BY Zenon, <4>1, <3>2 DEF overwritten
    <3> QED
      BY Zenon, <3>1, <3>2
  <2> QED
    BY Zenon, <1>1, <1>2, <1>3, <2>1, <2>2, LostKeeps
<1>10. CASE ~(overwritten(rpos[p]) \/ s # rseq[p] \/ len > MaxBody)
  <2>1. rpos[p] = log[rseq[p]].position /\ ~overwritten(rpos[p])
    BY Zenon, <1>7, <1>8, <1>10
  <2>2. /\ len = log[rseq[p]].len /\ len \in 0..MaxBody
        /\ got[p][0] = Cell(rseq[p], log[rseq[p]].by, log[rseq[p]].len, 0)
        /\ got[p][1] = Cell(rseq[p], log[rseq[p]].by, log[rseq[p]].len, 1)
    BY Zenon, <2>1, <1>4, <1>6, <1>8
  <2>3. rlen'[p] = len
    BY Zenon, <1>8, <1>10, ReaderFacts
  <2>4. CASE len > rbuf[p]
    <3>1. pc'[p] = "returned" /\ ret'[p] = -2
      BY ZenonT(30), <2>4, <1>8, <1>10, ReaderFacts DEF Return, Goto
    <3>2. rseq[p] \in DOMAIN log /\ rbuf[p] \in Nat
      BY Zenon, <1>3, ReaderFacts DEF LogInv
    <3>3. rbuf[p] < len
      BY Zenon, <3>2, <2>2, <2>4, Sizes
    <3>4. Intact(p)'
      BY Zenon, <3>1, <3>2, <3>3, <1>1, <2>2, <2>3, Answers DEF Intact
    <3>5. ReaderKnows(p)' /\ Gone(p)' /\ ~LostAt(p)'
      BY Zenon, <3>1, Answered, Answers
    <3> QED
      BY Zenon, <1>2, <3>4, <3>5, LooksKeeps
  <2>5. CASE ~(len > rbuf[p])
    <3>1. /\ rleft'[p] = RecordCells(len) \ RecordCells(0)
          /\ pc'[p] = IF len = 0 THEN "check_body" ELSE "copy_body"
      BY SMTT(30), <2>5, <1>8, <1>10, ReaderFacts DEF Goto
    <3>2. \A i \in RecordCells(0) : i = 0 \/ i = 1
      BY Sizes DEF RecordCells
    <3>3. ASSUME NEW i \in RecordCells(len)
          PROVE  (pc'[p] = "copy_body" /\ i \in rleft'[p]) \/ GotMessage(p, i)'
      <4>1. CASE i \in RecordCells(0)
        BY Zenon, <4>1, <3>2, <1>1, <2>2 DEF GotMessage
      <4>2. CASE i \notin RecordCells(0)
        <5>1. len # 0
          BY Zenon, <4>2, <3>3
        <5> QED
          BY Zenon, <5>1, <4>2, <3>1
      <4> QED
        BY Zenon, <4>1, <4>2
    <3>4. CopiedBody(p)'
      BY Zenon, <3>3, <1>1, <2>1, <2>2, <2>3 DEF CopiedBody
    <3>5. ReaderKnows(p)' /\ Intact(p)' /\ Gone(p)' /\ ~LostAt(p)'
      BY Zenon, <3>1, <3>4, <1>1, <1>3, <2>3 DEF ReaderKnows, Intact, Gone, LostAt, Reading
    <3> QED
      BY Zenon, <1>2, <3>5, LooksKeeps
  <2> QED
    BY Zenon, <2>4, <2>5
<1> QED
  BY Zenon, <1>9, <1>10

(* A cell of the body copied out is the message's, unless high has passed   *)
(* it.                                                                      *)
LEMMA CopyBodyKeeps ==
    ASSUME IInv, TypeOK', ClaimInv', NEW p \in Procs, copy_out(p, "copy_body", "check_body")
    PROVE  IInv'
<1>1. /\ Looks(p) /\ UNCHANGED <<rseq, rpos, rlen>>
      /\ UNCHANGED <<next, index, tail, oldest, high, bytes, log>>
  BY Zenon, ReaderFacts DEF copy_out, At, Goto, Looks, Holding, ring
<1>2. /\ rseq[p] \in First..next-1 /\ CopiedBody(p)
      /\ rleft[p] \subseteq RecordCells(rlen[p]) /\ pc[p] = "copy_body"
  BY Zenon, ReaderFacts DEF copy_out, At, ReaderKnows, Reading
<1>3. PICK i \in rleft[p] :
          /\ got' = [got EXCEPT ![p] = [got[p] EXCEPT ![i] = bytes[Place(rpos[p] + i)]]]
          /\ rleft' = [rleft EXCEPT ![p] = rleft[p] \ {i}]
  BY Zenon DEF copy_out
<1>4. /\ rpos[p] = log[rseq[p]].position /\ rlen[p] = log[rseq[p]].len /\ rlen[p] \in 0..MaxBody
      /\ i \in RecordCells(rlen[p])
  BY Zenon, <1>2, <1>3, ReaderFacts DEF CopiedBody
<1>5. \A k \in RecordCells(rlen[p]) : k \in BufferCells
  BY Zenon, <1>4, CellTypes
<1>6. /\ rleft'[p] = rleft[p] \ {i}
      /\ got'[p][i] = bytes[Place(rpos[p] + i)]
      /\ \A k \in BufferCells : k # i => got'[p][k] = got[p][k]
  BY Zenon, <1>3, <1>4, <1>5, ReaderFacts
<1>7. pc'[p] = IF rleft'[p] = {} THEN "check_body" ELSE "copy_body"
  BY Zenon, ReaderFacts DEF copy_out, Goto
<1>8. ASSUME NEW k \in RecordCells(rlen[p])
      PROVE  (pc'[p] = "copy_body" /\ k \in rleft'[p]) \/ GotMessage(p, k)'
  <2>1. CASE k # i /\ k \in rleft[p]
    BY Zenon, <2>1, <1>6, <1>7
  <2>2. CASE k # i /\ k \notin rleft[p]
    <3>1. got'[p][k] = got[p][k] /\ GotMessage(p, k)
      BY Zenon, <2>2, <1>2, <1>5, <1>6 DEF CopiedBody
    <3> QED
      BY Zenon, <3>1, <1>1 DEF GotMessage, overwritten
  <2>3. CASE k = i
    <3>1. \/ overwritten(rpos[p])
          \/ bytes[Place(rpos[p] + i)] = Cell(rseq[p], log[rseq[p]].by, log[rseq[p]].len, i)
      BY Zenon, <1>2, <1>4, CopiedCell
    <3> QED
      BY Zenon, <2>3, <3>1, <1>1, <1>6 DEF GotMessage, overwritten
  <2> QED
    BY Zenon, <2>1, <2>2, <2>3
<1>9. CopiedBody(p)'
  BY Zenon, <1>1, <1>4, <1>8 DEF CopiedBody
<1>10. rleft'[p] \subseteq RecordCells(rlen'[p])
  BY Zenon, <1>1, <1>2, <1>6
<1>11. ReaderKnows(p)' /\ Intact(p)' /\ Gone(p)' /\ ~LostAt(p)'
  BY Zenon, <1>1, <1>2, <1>7, <1>9, <1>10 DEF ReaderKnows, Intact, Gone, LostAt, Reading
<1> QED
  BY Zenon, <1>1, <1>11, LooksKeeps

(* The last look at high: what was copied is the whole message, or it is    *)
(* gone.                                                                    *)
LEMMA CheckBodyKeeps ==
    ASSUME IInv, TypeOK', ClaimInv', NEW p \in Procs, check_body(p)
    PROVE  IInv'
<1>1. /\ Looks(p) /\ UNCHANGED <<rseq, rpos, rlen, rbuf, got>>
      /\ UNCHANGED <<next, index, tail, oldest, high, bytes, log>>
  BY Zenon, ReaderFacts DEF check_body, At, Goto, Return, Looks, Holding, ring
<1>2. rseq[p] \in First..next-1 /\ rseq[p] < next /\ CopiedBody(p) /\ pc[p] = "check_body"
  BY ReaderFacts, Sizes DEF check_body, At, ReaderKnows, Reading
<1>3. rpos[p] = log[rseq[p]].position /\ rlen[p] = log[rseq[p]].len
  BY Zenon, <1>2 DEF CopiedBody
<1>4. CASE overwritten(rpos[p])
  <2>1. Return(p, -1)
    BY Zenon, <1>4 DEF check_body
  <2>2. high > log[rseq[p]].position + Capacity
    BY Zenon, <1>3, <1>4 DEF overwritten
  <2> QED
    BY Zenon, <1>1, <1>2, <2>1, <2>2, LostKeeps
<1>5. CASE ~overwritten(rpos[p])
  <2>1. pc'[p] = "returned" /\ ret'[p] = 1
    BY Zenon, <1>5, ReaderFacts DEF check_body, Return, Goto
  <2>2. \A i \in RecordCells(rlen[p]) :
            got[p][i] = Cell(rseq[p], log[rseq[p]].by, log[rseq[p]].len, i)
    BY Zenon, <1>2, <1>5 DEF CopiedBody, GotMessage
  <2>3. rseq[p] \in DOMAIN log
    BY Zenon, <1>2, ReaderFacts DEF LogInv
  <2>4. Intact(p)'
    BY Zenon, <1>1, <1>3, <2>1, <2>2, <2>3, Answers DEF Intact
  <2>5. ReaderKnows(p)' /\ Gone(p)' /\ ~LostAt(p)'
    BY Zenon, <2>1, Answered, Answers
  <2> QED
    BY Zenon, <1>1, <2>4, <2>5, LooksKeeps
<1> QED
  BY Zenon, <1>4, <1>5

-----------------------------------------------------------------------------
(* The ring that av_bus_init leaves satisfies IInv.                         *)
LEMMA IInvInit == Init => IInv
<1> SUFFICES ASSUME Init PROVE IInv
  BY Zenon
<1>1. TypeOK
  BY Zenon, TypeOKInit
<1>2. /\ claim = Nobody /\ next = First /\ oldest = First /\ high = 0 /\ tail = 0
      /\ DOMAIN log = {} /\ pc = [p \in Procs |-> "idle"]
      /\ First..next-1 = {} /\ oldest..next-1 = {}
  BY Sizes DEF Init
<1>3. ClaimInv /\ WriterInv
  BY Zenon, <1>2 DEF ClaimInv, ClaimExclusive, WriterInv, Holding
<1>4. WordsInv
  BY <1>2, Sizes DEF WordsInv
<1>5. LogInv
  BY Zenon, <1>2 DEF LogInv
<1>6. IndexInv /\ ReachInv
  BY Zenon, <1>2 DEF IndexInv, ReachInv
<1>7. ReaderInv /\ ResultInv
  BY Zenon, <1>2 DEF ReaderInv, ReaderKnows, ResultInv, Intact, Gone, LostAt, Reading
<1> QED
  BY Zenon, <1>1, <1>3, <1>4, <1>5, <1>6, <1>7 DEF IInv

(* IInv is inductive: one case per action.                                  *)
LEMMA IInvNext == IInv /\ [Next]_vars => IInv'
<1> SUFFICES ASSUME IInv, [Next]_vars PROVE IInv'
  BY Zenon
<1>1. TypeOK' /\ ClaimInv'
  BY Zenon, TypeOKNext, ClaimInvNext DEF IInv
<1>2. ASSUME NEW p \in Procs, PublishStep(p) PROVE IInv'
  BY Zenon, <1>1, <1>2, TakeClaimKeeps, RaiseHighKeeps, EvictKeeps, CopyInKeeps, IndexKeeps,
     AdvanceTailKeeps, StoreNextKeeps, GiveClaimKeeps, PublishedKeeps DEF PublishStep
<1>3. ASSUME NEW p \in Procs, ReadStep(p) PROVE IInv'
  BY Zenon, <1>1, <1>3, LoadNextKeeps, LoadOldestKeeps, LoadBeforeKeeps, LoadPositionKeeps,
     LoadAfterKeeps, CopyRecordKeeps, CheckRecordKeeps, CopyBodyKeeps, CheckBodyKeeps,
     ReadEndsKeep DEF ReadStep
<1>4. ASSUME NEW p \in Procs, NEW len \in Bodies, publish(p, len) PROVE IInv'
  BY Zenon, <1>1, <1>4, PublishKeeps
<1>5. ASSUME NEW p \in Procs, NEW s \in First-1..next, NEW capacity \in Buffers,
             read(p, s, capacity)
      PROVE  IInv'
  BY Zenon, <1>1, <1>5, ReadEndsKeep
<1>6. ASSUME NEW p \in Procs, die(p) PROVE IInv'
  BY Zenon, <1>1, <1>6, DieKeeps
<1>7. CASE UNCHANGED vars
  <2>1. WordsInv' /\ LogInv' /\ IndexInv' /\ Advances
    BY Zenon, <1>7, RingSame DEF vars, ring
  <2>2. WriterInv' /\ ReachInv'
    BY Zenon, <1>7, HolderSame DEF vars, writer
  <2>3. ReaderInv' /\ ResultInv'
    BY Zenon, <1>1, <1>7, <2>1, ReaderStable DEF vars, ReaderInv, ResultInv
  <2> QED
    BY Zenon, <1>1, <2>1, <2>2, <2>3 DEF IInv
<1> QED
  BY Zenon, <1>2, <1>3, <1>4, <1>5, <1>6, <1>7 DEF Next

(* The ring's invariant, behind every theorem below.                        *)
THEOREM RingInvariant == Spec => []IInv
BY IInvInit, IInvNext, PTL DEF Spec

(* One writer at a time, whatever writers died holding the ring: the claim  *)
(* word names the only living process between take_claim and give_claim.    *)
THEOREM OneWriter == Spec => []ClaimExclusive
<1>1. IInv => ClaimExclusive
  BY Zenon DEF IInv, ClaimInv
<1> QED
  BY <1>1, RingInvariant, PTL

(* What av_bus_read returns is right: 1 with exactly the message published  *)
(* under the number, -2 with its length, -1 only for a message that is gone.*)
THEOREM ReadsRight == Spec => []IntactRead
<1>1. IInv => IntactRead
  BY Zenon DEF IInv, ResultInv, IntactRead
<1> QED
  BY <1>1, RingInvariant, PTL

(* Whatever the ring holds can be found and read, at every moment but while *)
(* a writer is about to say that it no longer can.                          *)
THEOREM HeldCanBeRead == Spec => []HeldReadable
<1>1. IInv => HeldReadable
  <2> SUFFICES ASSUME IInv, claim = Nobody \/ pc[claim] \notin {"raise_high", "evict"},
                      NEW s \in oldest..next-1
               PROVE  /\ index[Slot(s)] = [sequence |-> s, position |-> log[s].position]
                      /\ high <= log[s].position + Capacity
                      /\ \A i \in RecordCells(log[s].len) :
                            bytes[Place(log[s].position + i)] = Cell(s, log[s].by, log[s].len, i)
    BY Zenon DEF HeldReadable
  <2>1. TypeOK /\ WordsInv /\ LogInv /\ IndexInv /\ ReachInv
    BY Zenon DEF IInv
  <2>2. next \in Nat /\ oldest \in Nat /\ high \in Nat
    BY Zenon, <2>1 DEF TypeOK
  <2>3. s \in First..next-1 /\ s \in Nat
    BY <2>1, <2>2, Sizes DEF WordsInv
  <2>4. log[s].position \in Nat
    BY Zenon, <2>1, <2>3, LogTypes DEF LogInv
  <2>5. ~overwritten(log[s].position)
    BY Zenon, <2>1 DEF ReachInv
  <2>6. index[Slot(s)] \in [sequence : Nat, position : Nat]
    BY Zenon, <2>1, <2>3, SlotApart DEF TypeOK
  <2>7. index[Slot(s)].sequence = s /\ index[Slot(s)].position = log[s].position
    BY Zenon, <2>1 DEF IndexInv
  <2>8. index[Slot(s)] = [sequence |-> s, position |-> log[s].position]
    BY Zenon, <2>6, <2>7
  <2>9. high <= log[s].position + Capacity
    BY <2>2, <2>4, <2>5, Sizes DEF overwritten
  <2>10. \A i \in RecordCells(log[s].len) :
            bytes[Place(log[s].position + i)] = Cell(s, log[s].by, log[s].len, i)
    BY Zenon, <2>1, <2>3, <2>5 DEF LogInv, MessageAt
  <2> QED
    BY Zenon, <2>8, <2>9, <2>10
<1> QED
  BY <1>1, RingInvariant, PTL

-----------------------------------------------------------------------------
(* Which steps move the words the action properties speak of.               *)
LEMMA OnlyStoreNext ==
    ASSUME [Next]_vars, ~ \E p \in Procs : store_next(p)
    PROVE  UNCHANGED <<next, log>>
<1>1. ASSUME NEW p \in Procs, PublishStep(p) PROVE UNCHANGED <<next, log>>
  BY Zenon, <1>1 DEF PublishStep, take_claim, raise_high, evict, copy_in, index_position,
              index_sequence, advance_tail, give_claim, published, ring
<1>2. ASSUME NEW p \in Procs, ReadStep(p) PROVE UNCHANGED <<next, log>>
  BY Zenon, <1>2 DEF ReadStep, load_next, load_oldest, load_before, load_position, load_after,
              copy_out, check_record, check_body, read_done, ring
<1>3. ASSUME NEW p \in Procs,
             \/ \E len \in Bodies : publish(p, len)
             \/ \E s \in First-1..next, capacity \in Buffers : read(p, s, capacity)
             \/ die(p)
      PROVE  UNCHANGED <<next, log>>
  BY Zenon, <1>3 DEF publish, read, die, ring
<1>4. CASE UNCHANGED vars
  BY Zenon, <1>4 DEF vars, ring
<1> QED
  BY Zenon, <1>1, <1>2, <1>3, <1>4 DEF Next

(* Only the eviction of a writer moves oldest.                              *)
LEMMA OnlyEvict ==
    ASSUME [Next]_vars, ~ \E p \in Procs : evict(p)
    PROVE  UNCHANGED oldest
<1>1. ASSUME NEW p \in Procs, PublishStep(p) PROVE UNCHANGED oldest
  BY Zenon, <1>1 DEF PublishStep, take_claim, raise_high, copy_in, index_position,
              index_sequence, advance_tail, store_next, give_claim, published, ring
<1>2. ASSUME NEW p \in Procs, ReadStep(p) PROVE UNCHANGED oldest
  BY Zenon, <1>2 DEF ReadStep, load_next, load_oldest, load_before, load_position, load_after,
              copy_out, check_record, check_body, read_done, ring
<1>3. ASSUME NEW p \in Procs,
             \/ \E len \in Bodies : publish(p, len)
             \/ \E s \in First-1..next, capacity \in Buffers : read(p, s, capacity)
             \/ die(p)
      PROVE  UNCHANGED oldest
  BY Zenon, <1>3 DEF publish, read, die, ring
<1>4. CASE UNCHANGED vars
  BY Zenon, <1>4 DEF vars, ring
<1> QED
  BY Zenon, <1>1, <1>2, <1>3, <1>4 DEF Next

(* Numbers rise by one, and a number once given names the same message for  *)
(* ever, also across the death of a writer and the takeover of its claim.   *)
THEOREM NumbersForEver == Spec => NumbersStand
<1> DEFINE A == /\ next' \in {next, next + 1}
                /\ \A s \in DOMAIN log : s \in DOMAIN log' /\ log'[s] = log[s]
<1>1. IInv /\ [Next]_vars => [A]_vars
  <2> SUFFICES ASSUME IInv, [Next]_vars PROVE A
    BY Zenon
  <2>1. ASSUME NEW p \in Procs, store_next(p) PROVE A
    <3>1. wseq[p] = next
      BY Zenon, <2>1, HolderFacts DEF store_next, At, Copying
    <3>2. next \in Nat /\ DOMAIN log = First..next-1
      BY Zenon DEF IInv, TypeOK, LogInv
    <3>3. wseq[p] \notin DOMAIN log
      BY <3>1, <3>2, Sizes
    <3> QED
      BY Zenon, <2>1, <3>1, <3>3 DEF store_next
  <2>2. CASE UNCHANGED <<next, log>>
    BY Zenon, <2>2
  <2> QED
    BY Zenon, <2>1, <2>2, OnlyStoreNext
<1> QED
  BY <1>1, RingInvariant, PTL DEF NumbersStand, Spec

(* A publish gives a message up only for its bytes or its index entry.      *)
THEOREM DropsDisplaced == Spec => DropsOnlyDisplaced
<1> DEFINE A == \A s \in oldest..oldest'-1 :
                    high > log[s].position + Capacity \/ s + Entries <= next
<1>1. IInv /\ [Next]_vars => [A]_vars
  <2> SUFFICES ASSUME IInv, [Next]_vars PROVE A
    BY Zenon
  <2>0. next \in Nat /\ oldest \in Nat /\ IndexInv
    BY Zenon DEF IInv, TypeOK
  <2>1. ASSUME NEW p \in Procs, evict(p) PROVE A
    <3>1. claim = p /\ p # Nobody /\ pc[p] = "evict"
      BY Zenon, <2>1, NobodyAssumption
         DEF evict, At, IInv, ClaimInv, ClaimExclusive, Holding, Procs
    <3>2. wseq[p] = next
      BY Zenon, <3>1 DEF IInv, WriterInv
    <3>3. PICK o \in oldest..next : oldest' = o /\ \A s \in oldest..o-1 : ~Kept(s, next)
      BY Zenon, <2>1, <3>2 DEF evict
    <3> SUFFICES ASSUME NEW s \in oldest..o-1
                 PROVE  high > log[s].position + Capacity \/ s + Entries <= next
      BY Zenon, <3>3
    <3>4. s \in oldest..next-1 /\ s \in Nat
      BY <2>0, <3>3
    <3>5. index[Slot(s)].sequence = s /\ index[Slot(s)].position = log[s].position
      BY Zenon, <2>0, <3>4 DEF IndexInv
    <3>6. ~(s + Entries - 1 >= next) \/ overwritten(log[s].position)
      BY Zenon, <3>3, <3>5 DEF Kept
    <3> QED
      BY <2>0, <3>4, <3>6, Sizes DEF overwritten
  <2>2. CASE UNCHANGED oldest
    BY <2>0, <2>2
  <2> QED
    BY Zenon, <2>1, <2>2, OnlyEvict
<1> QED
  BY <1>1, RingInvariant, PTL DEF DropsOnlyDisplaced, Spec

-----------------------------------------------------------------------------
(* The bus.                                                                 *)

Publishing == Holding \cup {"take_claim"}

(* A step within a call that neither counts a message nor ends the claim.   *)
Quiet(p) ==
    /\ p \notin dead /\ UNCHANGED <<next, dead, log, rseq>>
    /\ \E to \in Labels :
          /\ pc' = [pc EXCEPT ![p] = to]
          /\ \/ pc[p] \in Publishing \ {"give_claim"} /\ to \in Publishing \ {"give_claim"}
             \/ pc[p] \in ReadLabels /\ to \in ReadLabels
    /\ \A q \in Procs \ {p} : wseq'[q] = wseq[q]

(* What every step below starts from.                                       *)
LEMMA BusFacts ==
    ASSUME IInv, BusInv
    PROVE  /\ TypeOK /\ LogInv /\ WordsInv /\ WakeTypeOK
           /\ pc \in [Procs -> Labels] /\ wseq \in [Procs -> Nat] /\ rseq \in [Procs -> Nat]
           /\ ret \in [Procs -> {-2, -1, 0, 1}] /\ dead \in SUBSET Procs
           /\ next \in Nat /\ oldest \in Nat /\ First \in Nat \ {0}
           /\ SlotCount \in Nat \ {0} /\ SlotOf \in [Readers -> Slots]
           /\ Readers \subseteq Procs /\ Publishers \subseteq Procs
           /\ Slots = 0..SlotCount-1
BY Zenon, SizeAssumption, SlotAssumption DEF IInv, TypeOK, BusInv, Procs, Slots

(* The steps of the ring inside a call.                                     *)
LEMMA QuietSteps ==
    ASSUME IInv, BusInv, NEW p \in Procs, RingStep(p), ~store_next(p), ~give_claim(p)
    PROVE  Quiet(p) /\ UNCHANGED wake
<1> SUFFICES Quiet(p)
  BY Zenon DEF RingStep
<1> USE DEF Quiet, Publishing, Holding, ReadLabels, Reading, Labels, At, Goto
<1>0. pc \in [Procs -> Labels] /\ wseq \in [Procs -> Nat]
  BY Zenon, BusFacts
<1>1. CASE \/ take_claim(p) \/ raise_high(p) \/ evict(p) \/ copy_in(p)
           \/ index_position(p) \/ index_sequence(p) \/ advance_tail(p)
  <2>1. CASE take_claim(p)
    BY Zenon, <1>0, <2>1 DEF take_claim, writer, reader
  <2>2. CASE raise_high(p)
    BY Zenon, <1>0, <2>2 DEF raise_high, reader
  <2>3. CASE evict(p)
    BY Zenon, <1>0, <2>3 DEF evict, reader
  <2>4. CASE copy_in(p)
    BY Zenon, <1>0, <2>4 DEF copy_in, reader
  <2>5. CASE index_position(p) \/ index_sequence(p) \/ advance_tail(p)
    BY Zenon, <1>0, <2>5 DEF index_position, index_sequence, advance_tail, writer, reader
  <2> QED
    BY Zenon, <1>1, <2>1, <2>2, <2>3, <2>4, <2>5 DEF RingStep
<1>2. CASE \/ load_next(p) \/ load_oldest(p) \/ load_before(p) \/ load_position(p)
           \/ load_after(p) \/ copy_out(p, "copy_record", "check_record")
           \/ check_record(p) \/ copy_out(p, "copy_body", "check_body") \/ check_body(p)
  <2>1. CASE load_next(p) \/ load_oldest(p) \/ load_before(p)
    BY Zenon, <1>0, <2>1 DEF load_next, load_oldest, load_before, Return, ring, writer
  <2>2. CASE load_position(p) \/ load_after(p)
    BY Zenon, <1>0, <2>2 DEF load_position, load_after, Return, ring, writer
  <2>3. CASE copy_out(p, "copy_record", "check_record") \/ copy_out(p, "copy_body", "check_body")
    BY Zenon, <1>0, <2>3 DEF copy_out, ring, writer
  <2>4. CASE check_record(p)
    BY Zenon, <1>0, <2>4 DEF check_record, Return, ring, writer
  <2>5. CASE check_body(p)
    BY Zenon, <1>0, <2>5 DEF check_body, Return, ring, writer
  <2> QED
    BY Zenon, <1>2, <2>1, <2>2, <2>3, <2>4, <2>5
<1> QED
  BY Zenon, <1>1, <1>2 DEF RingStep

(* Every step of the bus is a step of the ring or leaves it alone.          *)
LEMMA BusIsRing ==
    ASSUME IInv, BusInv, [BusNext]_busVars
    PROVE  [Next]_vars
<1>1. ASSUME NEW p \in Procs,
             attach(p) \/ wake_slot(p) \/ write_fd(p) \/ arm(p) \/ arm_check(p)
                 \/ wake_up(p) \/ other_event(p)
      PROVE  UNCHANGED vars
  BY Zenon, <1>1 DEF attach, wake_slot, write_fd, arm, arm_check, wake_up, other_event
<1>2. ASSUME NEW p \in Procs, NEW len \in Bodies, NEW self \in BOOLEAN, bus_publish(p, len, self)
      PROVE  Next
  BY Zenon, <1>2 DEF bus_publish, Next
<1>3. ASSUME NEW p \in Procs, RingStep(p) PROVE Next
  BY Zenon, <1>3 DEF RingStep, Next, PublishStep, ReadStep
<1>4. ASSUME NEW p \in Procs, bus_published(p) \/ bus_read_done(p) \/ die(p) PROVE Next
  BY Zenon, <1>4 DEF bus_published, bus_read_done, Next, PublishStep, ReadStep
<1>5. ASSUME NEW p \in Procs, NEW capacity \in Buffers, bus_read(p, capacity) PROVE Next
  <2>1. p \in Readers /\ read(p, cursor[p], capacity)
    BY Zenon, <1>5 DEF bus_read, read
  <2>2. cursor[p] \in First-1..next
    BY <2>1, BusFacts DEF BusInv, CursorInv
  <2> QED
    BY Zenon, <2>1, <2>2 DEF Next
<1>6. CASE UNCHANGED busVars
  BY Zenon, <1>6 DEF busVars
<1> QED
  BY Zenon, <1>1, <1>2, <1>3, <1>4, <1>5, <1>6 DEF BusNext, WakeStep

(* The wake protocol keeps its types.                                       *)
LEMMA WakeTypeNext ==
    ASSUME IInv, BusInv, BusNext
    PROVE  WakeTypeOK'
<1> USE DEF WakeTypeOK
<1>0. WakeTypeOK /\ next \in Nat /\ oldest \in Nat /\ SlotCount \in Nat /\ Slots = 0..SlotCount-1
  BY Zenon, BusFacts
<1>1. ASSUME NEW p \in Procs, attach(p) PROVE WakeTypeOK'
  BY Zenon, <1>0, <1>1 DEF attach
<1>2. ASSUME NEW p \in Procs, NEW len \in Bodies, NEW self \in BOOLEAN, bus_publish(p, len, self)
      PROVE  WakeTypeOK'
  BY <1>0, <1>2 DEF bus_publish
<1>3. ASSUME NEW p \in Procs, RingStep(p) \/ (die(p) /\ UNCHANGED wake) PROVE WakeTypeOK'
  BY Zenon, <1>0, <1>3 DEF RingStep, wake
<1>4. ASSUME NEW p \in Procs, wake_slot(p) PROVE WakeTypeOK'
  <2>1. wakeAt[p] \in Slots /\ armed[wakeAt[p]] \in BOOLEAN /\ wakeAt[p] + 1 \in 0..SlotCount
    BY <1>0, <1>4 DEF wake_slot
  <2>2. armed' \in [Slots -> BOOLEAN]
    BY Zenon, <1>0, <1>4, <2>1 DEF wake_slot
  <2>3. writing' \in [Procs -> BOOLEAN]
    BY Zenon, <1>0, <1>4, <2>1 DEF wake_slot
  <2>4. wakeAt' \in [Procs -> 0..SlotCount]
    BY Zenon, <1>0, <1>4, <2>1 DEF wake_slot
  <2> QED
    BY Zenon, <1>0, <1>4, <2>2, <2>3, <2>4 DEF wake_slot
<1>5. ASSUME NEW p \in Procs, write_fd(p) PROVE WakeTypeOK'
  <2>1. wakeAt[p] + 1 \in 0..SlotCount
    BY <1>0, <1>5 DEF write_fd, BusInv, CallInv
  <2> QED
    BY Zenon, <1>0, <1>5, <2>1 DEF write_fd
<1>6. ASSUME NEW p \in Procs, bus_published(p) PROVE WakeTypeOK'
  BY <1>0, <1>6 DEF bus_published
<1>7. ASSUME NEW p \in Procs, NEW capacity \in Buffers, bus_read(p, capacity) PROVE WakeTypeOK'
  BY Zenon, <1>0, <1>7 DEF bus_read, wake
<1>8. ASSUME NEW p \in Procs, bus_read_done(p) PROVE WakeTypeOK'
  BY <1>0, <1>8 DEF bus_read_done
<1>9. ASSUME NEW p \in Procs, arm(p) \/ arm_check(p) PROVE WakeTypeOK'
  BY Zenon, <1>0, <1>9 DEF arm, arm_check
<1>10. ASSUME NEW p \in Procs, wake_up(p) \/ other_event(p) PROVE WakeTypeOK'
  BY Zenon, <1>0, <1>10 DEF wake_up, other_event
<1> QED
  BY Zenon, <1>1, <1>2, <1>3, <1>4, <1>5, <1>6, <1>7, <1>8, <1>9, <1>10 DEF BusNext, WakeStep

(* What a read that has returned lets its worker do: the new cursor.        *)
LEMMA CursorAfterRead ==
    ASSUME IInv, BusInv, NEW p \in Readers, bus_read_done(p)
    PROVE  /\ cursor'[p] \in First..next
           /\ \A s \in cursor[p]..cursor'[p]-1 :
                 (rseq[p] = s /\ ret[p] = 1) \/ s < oldest \/ high > log[s].position + Capacity
<1>0. /\ p \in Procs /\ pc[p] = "returned" /\ rseq[p] = cursor[p] /\ cursor[p] \in First..next
      /\ Intact(p) /\ Gone(p) /\ (LostAt(p) => rseq[p] < next)
      /\ next \in Nat /\ oldest \in Nat /\ First \in Nat /\ oldest <= next /\ First <= oldest
      /\ ret[p] \in {-2, -1, 0, 1} /\ cursor \in [Procs -> Nat] /\ DOMAIN log = First..next-1
  BY ZenonT(30), BusFacts DEF bus_read_done, read_done, At, BusInv, CursorInv, ReadLabels, IInv, ResultInv,
                  LogInv, WordsInv, WakeTypeOK
<1>1. CASE ret[p] = 1
  <2>1. cursor'[p] = cursor[p] + 1 /\ rseq[p] \in First..next-1
    BY <1>0, <1>1 DEF bus_read_done, Intact
  <2> QED
    BY <1>0, <1>1, <2>1
<1>2. CASE ret[p] = -1
  <2>1. cursor'[p] = IF oldest > cursor[p] + 1 THEN oldest ELSE cursor[p] + 1
    BY <1>0, <1>2 DEF bus_read_done
  <2>2. cursor[p] < next /\ (cursor[p] < oldest \/ high > log[cursor[p]].position + Capacity)
    BY Zenon, <1>0, <1>2 DEF Gone, LostAt
  <2> QED
    BY <1>0, <2>1, <2>2
<1>3. CASE ret[p] \notin {1, -1}
  BY SMTT(30), <1>0, <1>3 DEF bus_read_done
<1> QED
  BY Zenon, <1>1, <1>2, <1>3

(* A cursor stays within the numbers given.                                 *)
LEMMA CursorNext ==
    ASSUME IInv, BusInv, IInv', BusNext
    PROVE  CursorInv'
<1> USE DEF CursorInv
<1>0. /\ CursorInv /\ next \in Nat /\ First \in Nat /\ First <= next /\ next' \in Nat
      /\ Readers \subseteq Procs /\ pc \in [Procs -> Labels] /\ rseq \in [Procs -> Nat]
      /\ cursor \in [Procs -> Nat]
  <2>1. next' \in Nat
    BY Zenon DEF IInv, TypeOK
  <2> QED
    BY <2>1, BusFacts DEF BusInv, WordsInv, WakeTypeOK
<1>1. ASSUME NEW p \in Procs, attach(p) PROVE CursorInv'
  BY <1>0, <1>1 DEF attach, vars, ring, reader, Running, At, ReadLabels, Reading
<1>2. ASSUME NEW p \in Procs, NEW len \in Bodies, NEW self \in BOOLEAN, bus_publish(p, len, self)
      PROVE  CursorInv'
  BY Zenon, <1>0, <1>2 DEF bus_publish, publish, ring, reader, Goto, ReadLabels, Reading
<1>3. ASSUME NEW p \in Procs, Quiet(p), UNCHANGED wake PROVE CursorInv'
  BY Zenon, <1>0, <1>3 DEF Quiet, wake, ReadLabels, Reading, Publishing, Holding
<1>4. ASSUME NEW p \in Procs, store_next(p), UNCHANGED wake PROVE CursorInv'
  <2>1. next' = next + 1 /\ rseq' = rseq /\ cursor' = cursor
    BY Zenon, <1>4, HolderFacts DEF store_next, At, Copying, reader, wake
  <2>2. \A q \in Procs : pc'[q] \in ReadLabels => pc[q] \in ReadLabels
    BY Zenon, <1>0, <1>4 DEF store_next, Goto, ReadLabels, Reading
  <2> QED
    BY <1>0, <2>1, <2>2
<1>5. ASSUME NEW p \in Procs, give_claim(p), UNCHANGED wake PROVE CursorInv'
  BY Zenon, <1>0, <1>5 DEF give_claim, reader, wake, Goto, ReadLabels, Reading
<1>6. ASSUME NEW p \in Procs, wake_slot(p) \/ write_fd(p) \/ arm(p) \/ arm_check(p)
                 \/ wake_up(p) \/ other_event(p)
      PROVE  CursorInv'
  BY Zenon, <1>0, <1>6 DEF wake_slot, write_fd, arm, arm_check, wake_up, other_event, vars, ring, reader
<1>7. ASSUME NEW p \in Procs, bus_published(p) PROVE CursorInv'
  BY Zenon, <1>0, <1>7 DEF bus_published, published, ring, reader, Goto, ReadLabels, Reading
<1>8. ASSUME NEW p \in Procs, NEW capacity \in Buffers, bus_read(p, capacity) PROVE CursorInv'
  BY Zenon, <1>0, <1>8 DEF bus_read, read, ring, wake, Goto
<1>9. ASSUME NEW p \in Procs, bus_read_done(p) PROVE CursorInv'
  <2>1. p \in Readers
    BY Zenon, <1>9 DEF bus_read_done, read_done, At, BusInv, CallInv, ReadLabels
  <2>2. cursor'[p] \in First..next /\ \A q \in Procs \ {p} : cursor'[q] = cursor[q]
    BY ZenonT(30), <1>0, <1>9, <2>1, CursorAfterRead DEF bus_read_done
  <2>3. /\ next' = next /\ pc'[p] = "idle"
        /\ \A q \in Procs \ {p} : pc'[q] = pc[q] /\ rseq'[q] = rseq[q]
    BY Zenon, <1>0, <1>9 DEF bus_read_done, read_done, ring, Goto
  <2> QED
    BY Zenon, <1>0, <2>2, <2>3 DEF ReadLabels, Reading
<1>10. ASSUME NEW p \in Procs, die(p), UNCHANGED wake PROVE CursorInv'
  BY Zenon, <1>0, <1>10 DEF die, ring, reader, wake
<1>11. ASSUME NEW p \in Procs, RingStep(p) PROVE CursorInv'
  BY ZenonT(30), <1>3, <1>4, <1>5, <1>11, QuietSteps DEF RingStep
<1> QED
  BY Zenon, <1>1, <1>2, <1>6, <1>7, <1>8, <1>9, <1>10, <1>11 DEF BusNext, WakeStep

(* A process is where its call has brought it.                              *)
LEMMA CallNext ==
    ASSUME IInv, BusInv, BusNext
    PROVE  CallInv'
<1> USE DEF CallInv
<1>0. /\ CallInv /\ pc \in [Procs -> Labels] /\ WakeTypeOK
      /\ SlotCount \in Nat \ {0} /\ Slots = 0..SlotCount-1
  BY Zenon, BusFacts DEF BusInv
<1>1. ASSUME NEW p \in Procs, attach(p) PROVE CallInv'
  BY Zenon, <1>0, <1>1 DEF attach, vars, WakeTypeOK
<1>2. ASSUME NEW p \in Procs, NEW len \in Bodies, NEW self \in BOOLEAN, bus_publish(p, len, self)
      PROVE  CallInv'
  <2>1. /\ p \in Publishers /\ worker[p] \notin {"arming", "asleep"} /\ pc[p] = "idle"
        /\ pc' = [pc EXCEPT ![p] = "take_claim"] /\ UNCHANGED <<worker, writing>>
        /\ wakeAt' = [wakeAt EXCEPT ![p] = 0]
    BY Zenon, <1>2 DEF bus_publish, publish, Goto, Running, At
  <2> QED
    BY Zenon, <1>0, <2>1 DEF ReadLabels, Reading, WakeTypeOK
<1>3. ASSUME NEW p \in Procs, Quiet(p), UNCHANGED wake PROVE CallInv'
  <2>1. PICK to \in Labels :
          /\ pc' = [pc EXCEPT ![p] = to]
          /\ \/ pc[p] \in Publishing \ {"give_claim"} /\ to \in Publishing \ {"give_claim"}
             \/ pc[p] \in ReadLabels /\ to \in ReadLabels
    BY Zenon, <1>3 DEF Quiet
  <2> QED
    BY ZenonT(30), <1>0, <1>3, <2>1 DEF wake, ReadLabels, Reading, Publishing, Holding
<1>4. ASSUME NEW p \in Procs, store_next(p) \/ give_claim(p), UNCHANGED wake PROVE CallInv'
  <2>1. PICK to \in {"give_claim", "wake"} :
          pc' = [pc EXCEPT ![p] = to] /\ pc[p] \in {"store_next", "give_claim"}
    BY Zenon, <1>4 DEF store_next, give_claim, Goto, At
  <2> QED
    BY Zenon, <1>0, <1>4, <2>1 DEF wake, ReadLabels, Reading, Holding
<1>5. ASSUME NEW p \in Procs, wake_slot(p) PROVE CallInv'
  <2>1. /\ pc[p] = "wake" /\ wakeAt[p] < SlotCount /\ UNCHANGED <<pc, worker>>
        /\ \A q \in Procs \ {p} : wakeAt'[q] = wakeAt[q] /\ writing'[q] = writing[q]
        /\ writing'[p] => wakeAt'[p] = wakeAt[p]
    BY Zenon, <1>0, <1>5 DEF wake_slot, vars, At, WakeTypeOK
  <2> QED
    BY Zenon, <1>0, <2>1
<1>6. ASSUME NEW p \in Procs, write_fd(p) PROVE CallInv'
  <2>1. /\ pc[p] = "wake" /\ UNCHANGED <<pc, worker>> /\ ~writing'[p]
        /\ \A q \in Procs \ {p} : wakeAt'[q] = wakeAt[q] /\ writing'[q] = writing[q]
    BY Zenon, <1>0, <1>6 DEF write_fd, vars, At, WakeTypeOK
  <2> QED
    BY Zenon, <1>0, <2>1
<1>7. ASSUME NEW p \in Procs, bus_published(p) PROVE CallInv'
  <2>1. /\ pc[p] = "wake" /\ pc' = [pc EXCEPT ![p] = "idle"] /\ UNCHANGED <<worker, writing>>
        /\ wakeAt' = [wakeAt EXCEPT ![p] = 0] /\ ~writing[p]
    BY Zenon, <1>7 DEF bus_published, published, Goto, At
  <2> QED
    BY Zenon, <1>0, <2>1 DEF WakeTypeOK, ReadLabels, Reading, Holding
<1>8. ASSUME NEW p \in Procs, NEW capacity \in Buffers, bus_read(p, capacity) PROVE CallInv'
  <2>1. /\ p \in Readers /\ worker[p] \notin {"arming", "asleep"} /\ pc[p] = "idle"
        /\ pc' = [pc EXCEPT ![p] = "load_next"]
    BY Zenon, <1>8 DEF bus_read, read, Goto, Running, At
  <2> QED
    BY Zenon, <1>0, <1>8, <2>1 DEF bus_read, wake, Holding
<1>9. ASSUME NEW p \in Procs, bus_read_done(p) PROVE CallInv'
  <2>1. /\ pc[p] = "returned" /\ pc' = [pc EXCEPT ![p] = "idle"]
        /\ UNCHANGED <<worker, wakeAt, writing>>
    BY Zenon, <1>9 DEF bus_read_done, read_done, Goto, At
  <2> QED
    BY Zenon, <1>0, <2>1 DEF ReadLabels, Reading, Holding
<1>10. ASSUME NEW p \in Procs, arm(p) PROVE CallInv'
  BY Zenon, <1>0, <1>10 DEF arm, Running, At, vars, WakeTypeOK
<1>11. ASSUME NEW p \in Procs, arm_check(p) PROVE CallInv'
  BY Zenon, <1>0, <1>11 DEF arm_check, At, vars, WakeTypeOK
<1>12. ASSUME NEW p \in Procs, wake_up(p) \/ other_event(p) PROVE CallInv'
  BY Zenon, <1>0, <1>12 DEF wake_up, other_event, vars, WakeTypeOK
<1>13. ASSUME NEW p \in Procs, die(p), UNCHANGED wake PROVE CallInv'
  BY Zenon, <1>0, <1>13 DEF die, wake
<1>14. ASSUME NEW p \in Procs, RingStep(p) PROVE CallInv'
  BY Zenon, <1>3, <1>4, <1>14, QuietSteps DEF RingStep
<1> QED
  BY ZenonT(30), <1>1, <1>2, <1>5, <1>6, <1>7, <1>8, <1>9, <1>10, <1>11, <1>12, <1>13, <1>14
     DEF BusNext, WakeStep

(* Which steps attach a worker or let one die.                              *)
LEMMA StaysAttached ==
    ASSUME IInv, BusInv, BusNext
    PROVE  /\ dead \subseteq dead'
           /\ \/ \E p \in Procs : attach(p)
              \/ \A q \in Readers : Attached(q)' => Attached(q)
<1> USE DEF Attached
<1>0. WakeTypeOK /\ Readers \subseteq Procs
  BY Zenon, BusFacts
<1>1. ASSUME NEW p \in Procs,
             \/ RingStep(p)
             \/ \E len \in Bodies, self \in BOOLEAN : bus_publish(p, len, self)
             \/ \E capacity \in Buffers : bus_read(p, capacity)
             \/ WakeStep(p) \/ bus_read_done(p) \/ (die(p) /\ UNCHANGED wake)
      PROVE  UNCHANGED worker
  BY Zenon, <1>1 DEF RingStep, wake, bus_publish, bus_read, WakeStep, wake_slot, write_fd,
              bus_published, bus_read_done
<1>2. ASSUME NEW p \in Procs, arm(p) \/ arm_check(p) \/ wake_up(p) \/ other_event(p)
      PROVE  \A q \in Readers : worker'[q] # "new" => worker[q] # "new"
  BY Zenon, <1>0, <1>2 DEF arm, arm_check, wake_up, other_event, WakeTypeOK, Attached, Running
<1>3. dead \subseteq dead'
  <2>1. [Next]_vars
    BY Zenon, BusIsRing
  <2>2. ASSUME NEW p \in Procs, PublishStep(p) PROVE dead' = dead
    BY Zenon, <2>2 DEF PublishStep, take_claim, raise_high, evict, copy_in, index_position,
                index_sequence, advance_tail, store_next, give_claim, published
  <2>3. ASSUME NEW p \in Procs, ReadStep(p) PROVE dead' = dead
    BY Zenon, <2>3 DEF ReadStep, load_next, load_oldest, load_before, load_position, load_after,
                copy_out, check_record, check_body, read_done
  <2>4. ASSUME NEW p \in Procs,
               \/ \E len \in Bodies : publish(p, len)
               \/ \E s \in First-1..next, capacity \in Buffers : read(p, s, capacity)
        PROVE  dead' = dead
    BY Zenon, <2>4 DEF publish, read
  <2>5. ASSUME NEW p \in Procs, die(p) PROVE dead \subseteq dead'
    BY Zenon, <2>5 DEF die
  <2>6. CASE UNCHANGED vars
    BY Zenon, <2>6 DEF vars
  <2> QED
    BY Zenon, <2>1, <2>2, <2>3, <2>4, <2>5, <2>6 DEF Next
<1> QED
  BY Zenon, <1>1, <1>2, <1>3 DEF BusNext

(* Two living workers never come to share a slot.                           *)
LEMMA OneWorkerNext ==
    ASSUME IInv, BusInv, BusNext
    PROVE  OneWorker'
<1>0. OneWorker /\ WakeTypeOK /\ Readers \subseteq Procs /\ dead \subseteq dead'
  BY Zenon, BusFacts, StaysAttached DEF BusInv
<1>1. ASSUME NEW p \in Procs, attach(p) PROVE OneWorker'
  <2>1. /\ p \in Readers /\ \A q \in Readers \ {p} : Self(q, SlotOf[p]) => q \in dead
        /\ dead' = dead /\ \A q \in Readers \ {p} : Attached(q)' <=> Attached(q)
    BY Zenon, <1>0, <1>1 DEF attach, vars, Attached, WakeTypeOK
  <2> QED
    BY Zenon, <1>0, <2>1 DEF OneWorker, Self
<1>2. CASE \A q \in Readers : Attached(q)' => Attached(q)
  BY Zenon, <1>0, <1>2 DEF OneWorker
<1> QED
  BY Zenon, <1>1, <1>2, StaysAttached

-----------------------------------------------------------------------------
(* What a sleeping worker p relies on, at the slot that is its own.         *)
Owed(p) ==
    worker[p] \in {"arming", "asleep"} =>
        \/ armed[SlotOf[p]] \/ fd[SlotOf[p]]
        \/ \E q \in Publishers : writing[q] /\ wakeAt[q] = SlotOf[p]

(* And whose publishers are on their way to it.                             *)
Coming(p) ==
    worker[p] = "asleep" /\ armed[SlotOf[p]] /\ ~fd[SlotOf[p]] =>
        \A s \in cursor[p]..next-1 : Visits(s, SlotOf[p])

(* SleepInv, worker by worker.                                              *)
LEMMA SleepParts == SleepInv <=> \A p \in Readers \ dead : Owed(p) /\ Coming(p)
BY Zenon DEF SleepInv, Owed, Coming

(* The messages ahead of a cursor are in the log, and their publishers are  *)
(* processes.                                                               *)
LEMMA Ahead ==
    ASSUME IInv, BusInv, NEW p \in Readers, NEW s \in cursor[p]..next-1
    PROVE  s \in First..next-1 /\ s \in DOMAIN log /\ log[s].by \in Procs
<1>1. s \in First..next-1
  BY BusFacts DEF BusInv, CursorInv
<1>2. s \in DOMAIN log /\ TypeOK
  BY Zenon, <1>1, BusFacts DEF LogInv
<1> QED
  BY Zenon, <1>1, <1>2, LogTypes

(* A step that leaves the slots, the workers and the count alone, and every *)
(* publisher in its wake loop or on the way into it.                        *)
LEMMA SleepFrame ==
    ASSUME IInv, BusInv, UNCHANGED <<armed, fd, worker, cursor, wakeAt, writing, next, log>>,
           dead \subseteq dead',
           \A q \in Procs : pc[q] \in {"give_claim", "wake"} =>
               /\ wseq'[q] = wseq[q]
               /\ pc'[q] = pc[q] \/ (pc[q] = "give_claim" /\ pc'[q] = "wake")
    PROVE  SleepInv'
<1> SUFFICES ASSUME NEW p \in Readers \ dead' PROVE Owed(p)' /\ Coming(p)'
  BY Zenon, SleepParts DEF SleepInv, Owed, Coming
<1>1. Owed(p) /\ Coming(p)
  BY Zenon, SleepParts DEF BusInv
<1>2. Owed(p)'
  BY Zenon, <1>1 DEF Owed
<1>3. ASSUME NEW s \in cursor[p]..next-1, Visits(s, SlotOf[p]) PROVE Visits(s, SlotOf[p])'
  <2>1. log[s].by \in Procs /\ SlotOf[p] \in Nat
    BY Ahead, BusFacts
  <2>2. pc[log[s].by] # "wake" => wakeAt[log[s].by] = 0
    BY Zenon, <2>1 DEF BusInv, CallInv
  <2> QED
    BY <1>3, <2>1, <2>2 DEF Visits
<1> QED
  BY Zenon, <1>1, <1>2, <1>3 DEF Coming

(* The steps that only move a process through its call.                     *)
LEMMA SleepCalls ==
    ASSUME IInv, BusInv, NEW p \in Procs,
           \/ (Quiet(p) \/ give_claim(p) \/ die(p)) /\ UNCHANGED wake
           \/ \E len \in Bodies, self \in BOOLEAN : bus_publish(p, len, self)
           \/ \E capacity \in Buffers : bus_read(p, capacity)
    PROVE  SleepInv'
<1>0. /\ pc \in [Procs -> Labels] /\ wseq \in [Procs -> Nat] /\ WakeTypeOK
      /\ pc[p] # "wake" => wakeAt[p] = 0
  BY Zenon, BusFacts DEF BusInv, CallInv
<1>1. CASE Quiet(p) /\ UNCHANGED wake
  <2>1. pc[p] \notin {"give_claim", "wake"}
    BY Zenon, <1>1 DEF Quiet, Publishing, Holding, ReadLabels, Reading
  <2>2. \A q \in Procs \ {p} : pc'[q] = pc[q] /\ wseq'[q] = wseq[q]
    BY Zenon, <1>0, <1>1 DEF Quiet
  <2> QED
    BY ZenonT(30), <1>1, <2>1, <2>2, SleepFrame DEF Quiet, wake
<1>2. CASE give_claim(p) /\ UNCHANGED wake
  BY Zenon, <1>0, <1>2, SleepFrame DEF give_claim, Goto, At, writer, wake
<1>3. CASE die(p) /\ UNCHANGED wake
  BY Zenon, <1>3, SleepFrame DEF die, ring, writer, wake
<1>4. CASE \E len \in Bodies, self \in BOOLEAN : bus_publish(p, len, self)
  <2>1. /\ UNCHANGED <<armed, fd, worker, cursor, writing, next, log, dead, wseq>>
        /\ pc' = [pc EXCEPT ![p] = "take_claim"] /\ pc[p] = "idle"
        /\ wakeAt' = [wakeAt EXCEPT ![p] = 0]
    BY Zenon, <1>4 DEF bus_publish, publish, ring, Goto, At
  <2>2. wakeAt' = wakeAt
    BY Zenon, <1>0, <2>1 DEF WakeTypeOK
  <2> QED
    BY Zenon, <1>0, <2>1, <2>2, SleepFrame
<1>5. CASE \E capacity \in Buffers : bus_read(p, capacity)
  BY Zenon, <1>0, <1>5, SleepFrame DEF bus_read, read, ring, writer, wake, Goto, At
<1> QED
  BY Zenon, <1>1, <1>2, <1>3, <1>4, <1>5

-----------------------------------------------------------------------------
(* A message counts: its publisher has every slot before it.                *)
LEMMA SleepStore ==
    ASSUME IInv, BusInv, NEW p \in Procs, store_next(p), UNCHANGED wake
    PROVE  SleepInv'
<1>1. /\ wseq[p] = next /\ next' = next + 1 /\ dead' = dead /\ wseq' = wseq /\ pc[p] = "store_next"
      /\ pc' = [pc EXCEPT ![p] = "give_claim"] /\ log'[next].by = p
      /\ next \in Nat /\ pc \in [Procs -> Labels] /\ DOMAIN log = First..next-1
      /\ \A s \in DOMAIN log : s # next => log'[s] = log[s]
  <2>1. /\ p \notin dead /\ pc[p] = "store_next" /\ next' = wseq[p] + 1 /\ dead' = dead
        /\ wseq' = wseq /\ pc' = [pc EXCEPT ![p] = "give_claim"]
        /\ log' = [s \in DOMAIN log \cup {wseq[p]} |->
                      IF s = wseq[p]
                      THEN [by |-> p, len |-> wlen[p], position |-> wpos[p]]
                      ELSE log[s]]
    BY Zenon DEF store_next, At, Goto, writer
  <2>2. wseq[p] = next
    BY Zenon, <2>1, HolderFacts DEF Copying
  <2>3. next \in Nat /\ pc \in [Procs -> Labels] /\ DOMAIN log = First..next-1
    BY Zenon, BusFacts DEF LogInv
  <2> QED
    BY Zenon, <2>1, <2>2, <2>3
<1> SUFFICES ASSUME NEW r \in Readers \ dead' PROVE Owed(r)' /\ Coming(r)'
  BY Zenon, SleepParts DEF SleepInv, Owed, Coming
<1>2. Owed(r) /\ Coming(r)
  <2>1. SleepInv /\ r \in Readers \ dead
    BY Zenon, <1>1 DEF BusInv
  <2> QED
    BY Zenon, <2>1, SleepParts
<1>3. Owed(r)'
  BY Zenon, <1>2 DEF Owed, wake
<1>4. ASSUME NEW s \in cursor[r]..next-1, Visits(s, SlotOf[r]) PROVE Visits(s, SlotOf[r])'
  <2>1. s \in DOMAIN log /\ log[s].by \in Procs /\ s # next
    BY <1>1, Ahead
  <2> QED
    BY Zenon, <1>1, <1>4, <2>1 DEF Visits, wake
<1>5. ASSUME NEW s, s = next PROVE Visits(s, SlotOf[r])'
  BY Zenon, <1>1, <1>5 DEF Visits
<1>6. cursor[r] \in Nat /\ cursor' = cursor
  BY Zenon, BusFacts DEF WakeTypeOK, wake
<1>7. \A s \in cursor[r]..next'-1 : s = next \/ s \in cursor[r]..next-1
  BY <1>1, <1>6
<1> QED
  BY Zenon, <1>2, <1>3, <1>4, <1>5, <1>6, <1>7 DEF Coming, wake

(* A publisher takes a slot upon itself, or goes past one that is not armed *)
(* or its own.                                                              *)
LEMMA SleepWakeSlot ==
    ASSUME IInv, BusInv, NEW q \in Procs, wake_slot(q)
    PROVE  SleepInv'
<1> DEFINE j == wakeAt[q]
           skip == (Self(q, j) /\ ~wakeSelf[q]) \/ ~armed[j]
<1>0. /\ q \notin dead /\ pc[q] = "wake" /\ q \in Publishers /\ ~writing[q]
      /\ j \in Slots /\ j \in Nat /\ WakeTypeOK /\ UNCHANGED <<next, dead, pc, wseq, log>>
      /\ UNCHANGED <<fd, worker, cursor>>
  <2>1. pc[q] = "wake" /\ q \notin dead /\ ~writing[q] /\ j < SlotCount
    BY Zenon DEF wake_slot, At
  <2>2. j \in 0..SlotCount /\ WakeTypeOK /\ SlotCount \in Nat /\ Slots = 0..SlotCount-1
    BY Zenon, BusFacts DEF WakeTypeOK
  <2>3. j \in 0..SlotCount-1 /\ j \in Nat
    BY <2>1, <2>2
  <2>4. q \in Publishers
    BY Zenon, <2>1 DEF BusInv, CallInv
  <2>5. UNCHANGED <<next, dead, pc, wseq, log>> /\ UNCHANGED <<fd, worker, cursor>>
    BY Zenon DEF wake_slot, vars, ring, writer
  <2> QED
    BY Zenon, <2>1, <2>2, <2>3, <2>4, <2>5
<1>1. /\ armed' = [armed EXCEPT ![j] = @ /\ skip]
      /\ writing' = [writing EXCEPT ![q] = ~skip]
      /\ wakeAt' = [wakeAt EXCEPT ![q] = IF skip THEN j + 1 ELSE j]
  BY Zenon DEF wake_slot
<1>2. /\ \A i \in Slots : armed'[i] => armed[i]
      /\ \A i \in Slots : armed[i] /\ ~armed'[i] => i = j /\ writing'[q] /\ wakeAt'[q] = j
      /\ \A u \in Procs \ {q} : writing'[u] = writing[u] /\ wakeAt'[u] = wakeAt[u]
  BY Zenon, <1>0, <1>1 DEF WakeTypeOK
<1> SUFFICES ASSUME NEW p \in Readers \ dead PROVE Owed(p)' /\ Coming(p)'
  BY Zenon, <1>0, SleepParts DEF SleepInv, Owed, Coming
<1>3. Owed(p) /\ Coming(p) /\ SlotOf[p] \in Slots /\ SlotOf[p] \in Nat /\ p \in Procs
  BY SleepParts, BusFacts DEF BusInv
<1>4. Owed(p)'
  <2> SUFFICES ASSUME worker[p] \in {"arming", "asleep"}, ~fd[SlotOf[p]], ~armed'[SlotOf[p]]
               PROVE  \E u \in Publishers : writing'[u] /\ wakeAt'[u] = SlotOf[p]
    BY Zenon, <1>0 DEF Owed
  <2>1. CASE armed[SlotOf[p]]
    BY Zenon, <1>0, <1>2, <1>3, <2>1
  <2>2. CASE ~armed[SlotOf[p]]
    <3>1. PICK u \in Publishers : writing[u] /\ wakeAt[u] = SlotOf[p]
      BY Zenon, <1>3, <2>2 DEF Owed
    <3> QED
      BY Zenon, <1>0, <1>2, <3>1 DEF Procs
  <2> QED
    BY Zenon, <2>1, <2>2
<1>5. Coming(p)'
  <2> SUFFICES ASSUME worker[p] = "asleep", armed'[SlotOf[p]], ~fd[SlotOf[p]],
                      NEW s \in cursor[p]..next-1
               PROVE  Visits(s, SlotOf[p])'
    BY Zenon, <1>0 DEF Coming
  <2>1. armed[SlotOf[p]] /\ Visits(s, SlotOf[p]) /\ log[s].by \in Procs
    BY Zenon, <1>2, <1>3, Ahead DEF Coming
  <2>2. CASE log[s].by # q
    BY Zenon, <1>0, <1>2, <2>1, <2>2 DEF Visits
  <2>3. CASE log[s].by = q
    <3>1. wseq[q] = s /\ j <= SlotOf[p]
      BY Zenon, <1>0, <2>1, <2>3 DEF Visits
    <3>2. j # SlotOf[p]
      <4> SUFFICES ASSUME j = SlotOf[p] PROVE FALSE
        BY Zenon
      <4>1. Self(q, j)
        BY Zenon, <1>0, <1>1, <2>1 DEF WakeTypeOK
      <4>2. q = p
        BY Zenon, <1>0, <4>1 DEF Self, Attached, BusInv, OneWorker
      <4>3. pc[p] = "idle"
        BY Zenon, <1>3 DEF BusInv, CallInv
      <4> QED
        BY Zenon, <1>0, <4>2, <4>3
    <3>3. wakeAt'[q] \in {j, j + 1}
      BY Zenon, <1>0, <1>1 DEF WakeTypeOK
    <3>4. wakeAt'[q] <= SlotOf[p]
      BY <1>0, <1>3, <3>1, <3>2, <3>3
    <3> QED
      BY Zenon, <1>0, <2>3, <3>1, <3>4 DEF Visits
  <2> QED
    BY Zenon, <2>2, <2>3
<1> QED
  BY Zenon, <1>4, <1>5

(* It writes to the descriptor, whoever sleeps there then, and goes on; or  *)
(* its loop has been through every slot.                                    *)
LEMMA SleepWritten ==
    ASSUME IInv, BusInv, NEW q \in Procs, write_fd(q) \/ bus_published(q)
    PROVE  SleepInv'
<1>0. /\ pc[q] = "wake" /\ UNCHANGED <<next, dead, log, armed, worker, cursor>>
      /\ \A u \in Procs \ {q} : /\ pc'[u] = pc[u] /\ wseq'[u] = wseq[u]
                                /\ writing'[u] = writing[u] /\ wakeAt'[u] = wakeAt[u]
  <2>1. pc \in [Procs -> Labels] /\ wseq \in [Procs -> Nat] /\ WakeTypeOK
    BY Zenon, BusFacts
  <2>2. CASE write_fd(q)
    BY Zenon, <2>1, <2>2 DEF write_fd, At, vars, ring, writer, WakeTypeOK
  <2>3. CASE bus_published(q)
    BY Zenon, <2>1, <2>3 DEF bus_published, published, At, Goto, ring, WakeTypeOK
  <2> QED
    BY Zenon, <2>2, <2>3
<1>1. /\ \A i \in Slots : fd[i] => fd'[i]
      /\ writing[q] => fd'[wakeAt[q]]
      /\ \A i \in Slots : wakeAt[q] <= i /\ ~fd'[i] =>
            wakeAt'[q] <= i /\ pc'[q] = "wake" /\ wseq'[q] = wseq[q]
  <2>0. /\ WakeTypeOK /\ Slots = 0..SlotCount-1 /\ SlotCount \in Nat
        /\ wakeAt[q] \in 0..SlotCount /\ (writing[q] => wakeAt[q] < SlotCount)
    BY Zenon, BusFacts DEF BusInv, CallInv, WakeTypeOK
  <2>1. /\ WakeTypeOK /\ Slots = 0..SlotCount-1 /\ SlotCount \in Nat
        /\ writing[q] => wakeAt[q] \in Slots
    <3>1. wakeAt[q] < SlotCount => wakeAt[q] \in 0..SlotCount-1
      BY <2>0
    <3> QED
      BY Zenon, <2>0, <3>1
  <2>2. CASE write_fd(q)
    <3>1. /\ fd' = [fd EXCEPT ![wakeAt[q]] = TRUE] /\ fd \in [Slots -> BOOLEAN]
          /\ wakeAt[q] \in Slots /\ wakeAt'[q] = wakeAt[q] + 1
          /\ pc'[q] = "wake" /\ wseq'[q] = wseq[q]
      BY Zenon, <1>0, <2>1, <2>2 DEF write_fd, vars, writer, WakeTypeOK
    <3>2. fd'[wakeAt[q]] /\ \A i \in Slots : i # wakeAt[q] => fd'[i] = fd[i]
      BY Zenon, <3>1
    <3>3. \A i \in 0..SlotCount-1 : wakeAt[q] <= i /\ i # wakeAt[q] => wakeAt[q] + 1 <= i
      BY <2>0
    <3> QED
      BY Zenon, <2>1, <3>1, <3>2, <3>3
  <2>3. CASE bus_published(q)
    BY SMTT(30), <2>1, <2>3 DEF bus_published, WakeTypeOK
  <2> QED
    BY Zenon, <2>2, <2>3
<1> SUFFICES ASSUME NEW p \in Readers \ dead PROVE Owed(p)' /\ Coming(p)'
  BY Zenon, <1>0, SleepParts DEF SleepInv, Owed, Coming
<1>2. Owed(p) /\ Coming(p) /\ SlotOf[p] \in Slots
  BY Zenon, SleepParts, BusFacts DEF BusInv
<1>3. Owed(p)'
  <2> SUFFICES ASSUME worker[p] \in {"arming", "asleep"}, ~fd'[SlotOf[p]], ~armed[SlotOf[p]]
               PROVE  \E u \in Publishers : writing'[u] /\ wakeAt'[u] = SlotOf[p]
    BY Zenon, <1>0 DEF Owed
  <2>1. PICK u \in Publishers : writing[u] /\ wakeAt[u] = SlotOf[p]
    BY Zenon, <1>1, <1>2 DEF Owed
  <2>2. u # q
    BY Zenon, <1>1, <2>1
  <2> QED
    BY Zenon, <1>0, <2>1, <2>2 DEF Procs
<1>4. Coming(p)'
  <2> SUFFICES ASSUME worker[p] = "asleep", armed[SlotOf[p]], ~fd'[SlotOf[p]],
                      NEW s \in cursor[p]..next-1
               PROVE  Visits(s, SlotOf[p])'
    BY Zenon, <1>0 DEF Coming
  <2>1. Visits(s, SlotOf[p]) /\ log[s].by \in Procs
    BY Zenon, <1>1, <1>2, Ahead DEF Coming
  <2>2. CASE log[s].by # q
    BY Zenon, <1>0, <2>1, <2>2 DEF Visits
  <2>3. CASE log[s].by = q
    BY Zenon, <1>0, <1>1, <1>2, <2>1, <2>3 DEF Visits
  <2> QED
    BY Zenon, <2>2, <2>3
<1> QED
  BY Zenon, <1>3, <1>4

(* A worker's own step: others keep what they rely on, since no other       *)
(* living worker has its slot.                                              *)
LEMMA SleepOthers ==
    ASSUME IInv, BusInv, NEW p \in Readers, p \notin dead,
           UNCHANGED <<next, dead, log, wseq, wakeAt, writing>>,
           \A q \in Procs : pc[q] \in {"give_claim", "wake"} => pc'[q] = pc[q],
           \A q \in Readers \ {p} : worker'[q] = worker[q] /\ cursor'[q] = cursor[q],
           \A i \in Slots \ {SlotOf[p]} : armed'[i] = armed[i] /\ fd'[i] = fd[i],
           (\E i \in Slots : armed'[i] # armed[i] \/ fd'[i] # fd[i]) =>
               \A q \in Readers \ {p} : Self(q, SlotOf[p]) => q \in dead,
           Owed(p)', Coming(p)'
    PROVE  SleepInv'
<1> SUFFICES ASSUME NEW q \in Readers \ dead, q # p PROVE Owed(q)' /\ Coming(q)'
  BY ZenonT(30), SleepParts DEF SleepInv, Owed, Coming
<1>1. Owed(q) /\ Coming(q) /\ SlotOf[q] \in Slots
  BY Zenon, SleepParts, BusFacts DEF BusInv
<1>2. worker[q] \in {"arming", "asleep"} =>
          armed'[SlotOf[q]] = armed[SlotOf[q]] /\ fd'[SlotOf[q]] = fd[SlotOf[q]]
  BY Zenon, <1>1 DEF Self, Attached
<1>3. Owed(q)'
  BY Zenon, <1>1, <1>2 DEF Owed
<1>4. ASSUME NEW s \in cursor[q]..next-1, Visits(s, SlotOf[q]) PROVE Visits(s, SlotOf[q])'
  BY Zenon, <1>4, Ahead DEF Visits
<1> QED
  BY Zenon, <1>1, <1>2, <1>3, <1>4 DEF Coming

(* A living worker that is attached is alone on its slot.                   *)
LEMMA AloneOnSlot ==
    ASSUME BusInv, NEW p \in Readers, p \notin dead, Attached(p)
    PROVE  \A q \in Readers \ {p} : Self(q, SlotOf[p]) => q \in dead
BY Zenon DEF BusInv, OneWorker, Self

(* The steps a worker takes by itself.                                      *)
LEMMA SleepWorker ==
    ASSUME IInv, BusInv, NEW p \in Procs,
           attach(p) \/ arm(p) \/ arm_check(p) \/ wake_up(p) \/ other_event(p) \/ bus_read_done(p)
    PROVE  SleepInv'
<1>0. /\ WakeTypeOK /\ pc \in [Procs -> Labels] /\ Readers \subseteq Procs
      /\ \A q \in Readers : SlotOf[q] \in Slots /\ cursor[q] \in Nat
      /\ next \in Nat
  BY Zenon, BusFacts DEF WakeTypeOK
<1>1. CASE attach(p)
  <2>1. /\ p \in Readers /\ p \notin dead /\ worker'[p] = "awake"
        /\ \A q \in Readers \ {p} : Self(q, SlotOf[p]) => q \in dead
        /\ UNCHANGED <<next, dead, log, wseq, wakeAt, writing, pc>>
        /\ \A q \in Readers \ {p} : worker'[q] = worker[q] /\ cursor'[q] = cursor[q]
        /\ \A i \in Slots \ {SlotOf[p]} : armed'[i] = armed[i] /\ fd'[i] = fd[i]
    BY Zenon, <1>0, <1>1 DEF attach, Running, At, vars, ring, writer, WakeTypeOK
  <2>2. Owed(p)' /\ Coming(p)'
    BY Zenon, <2>1 DEF Owed, Coming
  <2> QED
    BY Zenon, <2>1, <2>2, SleepOthers
<1>2. CASE arm(p)
  <2>1. /\ p \in Readers /\ p \notin dead /\ Attached(p) /\ worker'[p] = "arming"
        /\ armed'[SlotOf[p]]
        /\ UNCHANGED <<next, dead, log, wseq, wakeAt, writing, pc, cursor, fd>>
        /\ \A q \in Readers \ {p} : worker'[q] = worker[q]
        /\ \A i \in Slots \ {SlotOf[p]} : armed'[i] = armed[i]
    BY Zenon, <1>0, <1>2 DEF arm, Running, At, vars, ring, writer, WakeTypeOK
  <2>2. Owed(p)' /\ Coming(p)'
    BY Zenon, <2>1 DEF Owed, Coming
  <2> QED
    BY Zenon, <2>1, <2>2, SleepOthers, AloneOnSlot
<1>3. CASE arm_check(p)
  <2>1. /\ p \in Readers /\ p \notin dead /\ worker[p] = "arming"
        /\ worker' = [worker EXCEPT ![p] = IF next > cursor[p] THEN "awake" ELSE "asleep"]
        /\ UNCHANGED <<next, dead, log, wseq, wakeAt, writing, pc, cursor, fd, armed>>
    BY Zenon, <1>3 DEF arm_check, At, vars, ring, writer, BusInv, CallInv
  <2>2. Owed(p) /\ worker'[p] = (IF next > cursor[p] THEN "awake" ELSE "asleep")
    BY Zenon, <1>0, <2>1, SleepParts DEF BusInv, WakeTypeOK
  <2>3. Owed(p)'
    BY Zenon, <2>1, <2>2 DEF Owed
  <2>4. worker'[p] = "asleep" => cursor[p]..next-1 = {}
    <3>1. worker'[p] = "asleep" => ~(next > cursor[p])
      BY Zenon, <2>2
    <3>2. next \in Nat /\ cursor[p] \in Nat
      BY Zenon, <1>0, <2>1, BusFacts DEF WakeTypeOK
    <3>3. ~(next > cursor[p]) => cursor[p]..next-1 = {}
      BY <3>2
    <3> QED
      BY Zenon, <3>1, <3>3
  <2>5. Coming(p)'
    BY Zenon, <2>1, <2>4 DEF Coming
  <2>6. \A q \in Readers \ {p} : worker'[q] = worker[q]
    BY Zenon, <1>0, <2>1 DEF WakeTypeOK
  <2> QED
    BY Zenon, <2>1, <2>3, <2>5, <2>6, SleepOthers
<1>4. CASE wake_up(p) \/ other_event(p)
  <2>1. /\ p \in Readers /\ p \notin dead /\ Attached(p) /\ worker'[p] = "awake"
        /\ UNCHANGED <<next, dead, log, wseq, wakeAt, writing, pc, cursor, armed>>
        /\ \A q \in Readers \ {p} : worker'[q] = worker[q]
        /\ \A i \in Slots \ {SlotOf[p]} : fd'[i] = fd[i]
    BY SMTT(30), <1>0, <1>4 DEF wake_up, other_event, Attached, vars, ring, writer, WakeTypeOK, BusInv, CallInv
  <2>2. Owed(p)' /\ Coming(p)'
    BY Zenon, <2>1 DEF Owed, Coming
  <2> QED
    BY ZenonT(30), <2>1, <2>2, SleepOthers, AloneOnSlot
<1>5. CASE bus_read_done(p)
  <2>1. /\ p \notin dead /\ pc[p] = "returned" /\ pc' = [pc EXCEPT ![p] = "idle"]
        /\ UNCHANGED <<next, dead, log, wseq, wakeAt, writing, worker, fd, armed>>
        /\ \A q \in Readers \ {p} : cursor'[q] = cursor[q]
    BY Zenon, <1>0, <1>5 DEF bus_read_done, read_done, At, Goto, ring, writer, WakeTypeOK
  <2>2. p \in Readers /\ worker[p] \notin {"arming", "asleep"}
    BY Zenon, <2>1 DEF BusInv, CallInv, ReadLabels
  <2>3. Owed(p)' /\ Coming(p)'
    BY Zenon, <2>1, <2>2 DEF Owed, Coming
  <2> QED
    BY Zenon, <1>0, <2>1, <2>2, <2>3, SleepOthers
<1> QED
  BY Zenon, <1>1, <1>2, <1>3, <1>4, <1>5

-----------------------------------------------------------------------------
(* The invariant holds of a bus just mapped.                                *)
LEMMA BusInvInit == BusInit => IInv /\ BusInv
<1> SUFFICES ASSUME BusInit PROVE IInv /\ BusInv
  BY Zenon
<1>1. IInv
  BY Zenon, IInvInit DEF BusInit
<1>2. /\ First \in Nat /\ SlotCount \in Nat \ {0} /\ next = First
      /\ Readers \subseteq Procs /\ \A p \in Procs : pc[p] = "idle"
  BY Zenon, SizeAssumption, SlotAssumption DEF BusInit, Init, Procs
<1>3. WakeTypeOK
  BY SMTT(30), <1>2 DEF BusInit, WakeTypeOK
<1>4. CursorInv /\ CallInv /\ OneWorker /\ SleepInv
  BY <1>2 DEF BusInit, CursorInv, CallInv, OneWorker, SleepInv, Attached, ReadLabels, Reading, Holding
<1> QED
  BY Zenon, <1>1, <1>3, <1>4 DEF BusInv

(* It is inductive.                                                         *)
LEMMA BusInvNext == IInv /\ BusInv /\ [BusNext]_busVars => IInv' /\ BusInv'
<1> SUFFICES ASSUME IInv, BusInv, [BusNext]_busVars PROVE IInv' /\ BusInv'
  BY Zenon
<1>1. IInv'
  BY Zenon, BusIsRing, IInvNext
<1>2. CASE BusNext
  <2>1. WakeTypeOK' /\ CursorInv' /\ CallInv' /\ OneWorker'
    BY Zenon, <1>1, <1>2, WakeTypeNext, CursorNext, CallNext, OneWorkerNext
  <2>2. ASSUME NEW p \in Procs, RingStep(p) PROVE SleepInv'
    BY Zenon, <2>2, QuietSteps, SleepCalls, SleepStore DEF RingStep
  <2>3. SleepInv'
    BY Zenon, <1>2, <2>2, SleepCalls, SleepWakeSlot, SleepWritten, SleepWorker DEF BusNext, WakeStep
  <2> QED
    BY Zenon, <1>1, <2>1, <2>3 DEF BusInv
<1>3. CASE UNCHANGED busVars
  <2>1. UNCHANGED <<next, dead, pc, wseq, rseq, log>> /\ UNCHANGED wake
    BY Zenon, <1>3 DEF busVars, vars, ring, writer, reader
  <2>2. WakeTypeOK' /\ CursorInv' /\ CallInv' /\ OneWorker'
    BY Zenon, <2>1 DEF wake, BusInv, WakeTypeOK, CursorInv, CallInv, OneWorker, Attached
  <2>3. SleepInv'
    BY Zenon, <2>1, SleepFrame DEF wake
  <2> QED
    BY Zenon, <1>1, <2>2, <2>3 DEF BusInv
<1> QED
  BY Zenon, <1>2, <1>3

(* The invariant of the bus, behind the theorems below.                     *)
THEOREM BusInvariant == BusSpec => [](IInv /\ BusInv)
BY BusInvInit, BusInvNext, PTL DEF BusSpec

(* Whatever is proved of the ring holds of the bus whole: the wake loop and *)
(* the workers only ever take the ring's own steps, and the cursors they    *)
(* read at are numbers the ring is asked for there.                         *)
THEOREM BusImplementsRing == BusSpec => RingSpec
<1>1. BusInit => Init
  BY Zenon DEF BusInit
<1>2. IInv /\ BusInv /\ [BusNext]_busVars => [Next]_vars
  BY Zenon, BusIsRing
<1> QED
  BY <1>1, <1>2, BusInvariant, PTL DEF BusSpec, RingSpec, Spec

(* No worker sleeps through a message, for any number of them and whoever   *)
(* dies: the load after av_bus_arm's store and the exchange in the wake     *)
(* loop of av_bus_publish leave no gap between them.                        *)
THEOREM NoLostWakeup == BusSpec => []NotSleptThrough
<1>1. IInv /\ BusInv => NotSleptThrough
  <2> SUFFICES ASSUME IInv, BusInv, NEW p \in Readers, p \notin dead, worker[p] = "asleep",
                      NEW s \in cursor[p]..next-1,
                      ~fd[SlotOf[p]], ~DiedWaking(s), ~DiedWriting(SlotOf[p])
               PROVE  \E q \in Publishers : WillWake(q, SlotOf[p])
    BY Zenon DEF NotSleptThrough, BusInv
  <2>1. Owed(p) /\ Coming(p)
    BY Zenon, SleepParts DEF BusInv
  <2>2. CASE armed[SlotOf[p]]
    <3>1. Visits(s, SlotOf[p]) /\ log[s].by \in Procs
      BY Zenon, <2>1, <2>2, Ahead DEF Coming
    <3>2. log[s].by \in Publishers /\ log[s].by \notin dead
      BY Zenon, <3>1 DEF Visits, BusInv, CallInv, DiedWaking, Holding
    <3> QED
      BY Zenon, <2>2, <3>1, <3>2 DEF Visits, WillWake, At
  <2>3. CASE ~armed[SlotOf[p]]
    <3>1. PICK q \in Publishers : writing[q] /\ wakeAt[q] = SlotOf[p]
      BY Zenon, <2>1, <2>3 DEF Owed
    <3>2. q \notin dead /\ pc[q] = "wake"
      BY Zenon, <2>3, <3>1 DEF DiedWriting, BusInv, CallInv, Procs
    <3> QED
      BY Zenon, <3>1, <3>2 DEF WillWake, At
  <2> QED
    BY Zenon, <2>2, <2>3
<1> QED
  BY <1>1, BusInvariant, PTL

(* A cursor passes a message only when it was read or is gone.              *)
THEOREM NoneSkipped == BusSpec => CursorSkipsOnlyGone
<1> DEFINE A == \A p \in Readers : Attached(p) =>
                    \A s \in cursor[p]..cursor'[p]-1 :
                        \/ rseq[p] = s /\ ret[p] = 1
                        \/ s < oldest \/ high > log[s].position + Capacity
<1>1. IInv /\ BusInv /\ [BusNext]_busVars => [A]_busVars
  <2> SUFFICES ASSUME IInv, BusInv, BusNext, NEW p \in Readers, Attached(p),
                      NEW s \in cursor[p]..cursor'[p]-1
               PROVE  (rseq[p] = s /\ ret[p] = 1) \/ s < oldest \/ high > log[s].position + Capacity
    BY Zenon
  <2>0. p \in Procs /\ cursor \in [Procs -> Nat]
    BY Zenon, BusFacts DEF WakeTypeOK
  <2>1. CASE bus_read_done(p)
    BY Zenon, <2>1, CursorAfterRead
  <2>2. ASSUME cursor'[p] = cursor[p] PROVE FALSE
    BY <2>0, <2>2
  <2>3. ASSUME NEW q \in Procs, attach(q) PROVE cursor'[p] = cursor[p]
    BY Zenon, <2>0, <2>3 DEF attach
  <2>4. ASSUME NEW q \in Procs, bus_read_done(q), q # p PROVE cursor'[p] = cursor[p]
    BY Zenon, <2>0, <2>4 DEF bus_read_done
  <2>5. ASSUME NEW q \in Procs,
               \/ RingStep(q) \/ (die(q) /\ UNCHANGED wake)
               \/ \E len \in Bodies, self \in BOOLEAN : bus_publish(q, len, self)
               \/ \E capacity \in Buffers : bus_read(q, capacity)
               \/ WakeStep(q) \/ arm(q) \/ arm_check(q) \/ wake_up(q) \/ other_event(q)
        PROVE  cursor'[p] = cursor[p]
    BY Zenon, <2>5 DEF RingStep, wake, bus_publish, bus_read, WakeStep, wake_slot, write_fd,
                bus_published, arm, arm_check, wake_up, other_event
  <2> QED
    BY Zenon, <2>1, <2>2, <2>3, <2>4, <2>5 DEF BusNext
<1> QED
  BY <1>1, BusInvariant, PTL DEF BusSpec, CursorSkipsOnlyGone
=============================================================================
