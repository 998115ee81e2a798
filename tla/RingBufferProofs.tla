-------------------------- MODULE RingBufferProofs --------------------------
(***************************************************************************)
(* Proofs about RingBuffer, for every capacity and every item type.        *)
(*                                                                         *)
(* The argument is Fits: what a side decided to copy when it loaded the    *)
(* other side's index still fits at every later moment, because the other  *)
(* side only ever makes room (the consumer) or adds items (the producer).  *)
(***************************************************************************)
EXTENDS RingBuffer, SequenceTheorems, TLAPS

Fits == toWrite <= Free(m_head, m_tail) /\ toRead <= Used(m_head, m_tail)

\* What a read has copied so far is the oldest part of the contents.
CopiedIsOldest ==
  \A i \in 1 .. Len(destination) : destination[i] = m_buffer[Slot(m_tail, i - 1)]

IdleIsEmpty == (wpc = "idle" <=> toWrite = 0) /\ (rpc = "idle" <=> toRead = 0)

RingInv == TypeOK /\ Fits /\ CopiedIsOldest /\ IdleIsEmpty

-----------------------------------------------------------------------------
(* Index arithmetic. *)

LEMMA ModOnce ==
  ASSUME NEW n \in Nat, n > 0, NEW a \in 0 .. 2 * n - 1
  PROVE  a % n = IF a < n THEN a ELSE a - n
  OBVIOUS

LEMMA Advance ==
  ASSUME NEW index \in Slots, NEW k \in Slots
  PROVE  /\ (index + k) % Capacity = Slot(index, k)
         /\ Slot(index, k) \in Slots
  BY RingAssumption, ModOnce DEF Slots, Slot

\* Moving an index moves free and used slots by the same amount.
LEMMA AdvanceHead ==
  ASSUME NEW head \in Slots, NEW tail \in Slots, NEW k \in Nat, k <= Free(head, tail)
  PROVE  /\ Used(Slot(head, k), tail) = Used(head, tail) + k
         /\ Free(Slot(head, k), tail) = Free(head, tail) - k
  BY RingAssumption DEF Slots, Slot, Free, Used

LEMMA AdvanceTail ==
  ASSUME NEW head \in Slots, NEW tail \in Slots, NEW k \in Nat, k <= Used(head, tail)
  PROVE  /\ Used(head, Slot(tail, k)) = Used(head, tail) - k
         /\ Free(head, Slot(tail, k)) = Free(head, tail) + k
  BY RingAssumption DEF Slots, Slot, Free, Used

\* Every slot is free, used, or the one kept empty.
LEMMA SlotBudget ==
  ASSUME NEW head \in Slots, NEW tail \in Slots
  PROVE  /\ Free(head, tail) \in Nat /\ Used(head, tail) \in Nat
         /\ Free(head, tail) + Used(head, tail) = Capacity - 1
  BY RingAssumption DEF Slots, Free, Used

\* Slots counted from an index can be counted from an index behind it.
LEMMA SlotTwice ==
  ASSUME NEW index \in Slots, NEW j \in Nat, NEW k \in Nat, j + k < Capacity
  PROVE  Slot(Slot(index, j), k) = Slot(index, j + k)
  BY RingAssumption DEF Slots, Slot

\* A free slot is not a used one.
LEMMA SlotsApart ==
  ASSUME NEW head \in Slots, NEW tail \in Slots,
         NEW i \in Nat, i < Free(head, tail),
         NEW j \in Nat, j < Used(head, tail)
  PROVE  Slot(head, i) # Slot(tail, j)
  BY RingAssumption DEF Slots, Slot, Free, Used

\* The slots from tail on are the used ones up to head and the free ones after.
LEMMA SlotFromHead ==
  ASSUME NEW head \in Slots, NEW tail \in Slots,
         NEW i \in Nat, i <= Free(head, tail)
  PROVE  Slot(head, i) = Slot(tail, Used(head, tail) + i)
  BY RingAssumption DEF Slots, Slot, Free, Used
-----------------------------------------------------------------------------
LEMMA RingInit == Init => RingInv
<1>. SUFFICES ASSUME Init PROVE RingInv
  OBVIOUS
<1>1. TypeOK
  BY RingAssumption DEF Init, TypeOK, Slots
<1>2. Fits
  BY RingAssumption DEF Init, Fits, Free, Used
<1>3. CopiedIsOldest /\ IdleIsEmpty
  BY DEF Init, CopiedIsOldest, IdleIsEmpty
<1>4. QED
  BY <1>1, <1>2, <1>3 DEF RingInv

LEMMA RingNext == RingInv /\ [Next]_vars => RingInv'
<1>. SUFFICES ASSUME RingInv, [Next]_vars PROVE RingInv'
  OBVIOUS
<1>. USE RingAssumption DEF RingInv, TypeOK, Fits, CopiedIsOldest, IdleIsEmpty, writeVars, readVars
<1>0. /\ Free(m_head, m_tail) \in Nat /\ Used(m_head, m_tail) \in Nat
      /\ Free(m_head, m_tail) + Used(m_head, m_tail) = Capacity - 1
  BY SlotBudget
<1>1. ASSUME NEW count \in Counts, BeginWrite(count) PROVE RingInv'
  <2>1. toWrite' \in Slots /\ toWrite' <= Free(m_head, m_tail)
    BY <1>0, <1>1 DEF BeginWrite, Least, Slots
  <2>2. QED
    BY <1>1, <2>1 DEF BeginWrite, Slots
<1>2. ASSUME NEW count \in Counts, BeginRead(count) PROVE RingInv'
  <2>1. toRead' \in Slots /\ toRead' <= Used(m_head, m_tail)
    BY <1>0, <1>2 DEF BeginRead, Least, Slots
  <2>2. QED
    <3>1. destination' = <<>> /\ Len(destination') = 0 /\ 1 .. 0 = {}
      BY <1>2 DEF BeginRead
    <3>2. QED
      BY <1>2, <2>1, <3>1 DEF BeginRead, Slots
<1>3. ASSUME NEW item \in Item, CopyIn(item) PROVE RingInv'
  <2>. DEFINE slot == Slot(m_head, written)
  <2>1. /\ m_buffer' = [m_buffer EXCEPT ![slot] = item]
        /\ written' \in 0 .. toWrite
        /\ UNCHANGED <<m_head, m_tail, wpc, toWrite, readVars>>
        /\ written \in Nat /\ written < Free(m_head, m_tail)
    BY <1>0, <1>3 DEF CopyIn, Slots
  <2>2. TypeOK'
    BY <2>1
  <2>3. CopiedIsOldest'
    <3>. SUFFICES ASSUME NEW i \in 1 .. Len(destination)
                  PROVE  destination[i] = m_buffer'[Slot(m_tail, i - 1)]
      BY <2>1
    <3>1. i - 1 \in Nat /\ i - 1 < Used(m_head, m_tail)
      BY <1>0 DEF Slots
    <3>2. slot # Slot(m_tail, i - 1)
      BY <2>1, <3>1, SlotsApart
    <3>3. Slot(m_tail, i - 1) \in Slots
      <4>1. i - 1 \in Slots
        BY <1>0, <3>1 DEF Slots
      <4>2. QED
        BY <4>1, Advance
    <3>4. QED
      BY <2>1, <3>2, <3>3
  <2>4. QED
    BY <2>1, <2>2, <2>3
<1>4. CASE Publish
  <2>1. m_head' = Slot(m_head, toWrite) /\ m_head' \in Slots
    BY <1>4, Advance DEF Publish
  <2>2. Used(m_head', m_tail) = Used(m_head, m_tail) + toWrite
    BY <2>1, AdvanceHead DEF Slots
  <2>3. Free(m_head', m_tail) \in Nat /\ toRead <= Used(m_head', m_tail)
    <3>1. Free(m_head', m_tail) \in Nat
      BY <2>1, SlotBudget
    <3>2. QED
      BY <1>0, <2>2, <3>1 DEF Slots
  <2>4. TypeOK' /\ CopiedIsOldest'
    BY <1>4, <2>1 DEF Publish, Slots
  <2>5. QED
    BY <1>4, <2>3, <2>4 DEF Publish, Slots
<1>5. CASE CopyOut
  <2>. DEFINE item == m_buffer[Slot(m_tail, Len(destination))]
  <2>1. item \in Item
    <3>1. Len(destination) \in Slots
      BY <1>5 DEF CopyOut, Slots
    <3>2. QED
      BY <3>1, Advance
  <2>2. destination' = Append(destination, item)
    BY <1>5 DEF CopyOut
  <2>3. /\ destination' \in Seq(Item) /\ Len(destination') = Len(destination) + 1
        /\ \A i \in 1 .. Len(destination) : destination'[i] = destination[i]
        /\ destination'[Len(destination) + 1] = item
    BY <2>1, <2>2
  <2>4. CopiedIsOldest'
    <3>1. UNCHANGED <<m_buffer, m_tail>>
      BY <1>5 DEF CopyOut
    <3>2. ASSUME NEW i \in 1 .. Len(destination) + 1
          PROVE  destination'[i] = m_buffer[Slot(m_tail, i - 1)]
      <4>1. Len(destination) \in Nat /\ Len(destination) + 1 - 1 = Len(destination)
        OBVIOUS
      <4>2. CASE i = Len(destination) + 1
        <5>1. i - 1 = Len(destination)
          BY <4>1, <4>2
        <5>2. QED
          BY <2>3, <4>2, <5>1
      <4>3. CASE i \in 1 .. Len(destination)
        <5>1. destination'[i] = destination[i]
          BY <2>3, <4>3
        <5>2. destination[i] = m_buffer[Slot(m_tail, i - 1)]
          BY <4>3
        <5>3. QED
          BY <5>1, <5>2, Zenon
      <4>4. i = Len(destination) + 1 \/ i \in 1 .. Len(destination)
        BY <4>1
      <4>5. QED
        BY <4>2, <4>3, <4>4
    <3>3. QED
      BY <2>3, <3>1, <3>2
  <2>5. QED
    BY <1>5, <2>3, <2>4 DEF CopyOut, Slots
<1>6. CASE Retire
  <2>1. m_tail' = Slot(m_tail, toRead) /\ m_tail' \in Slots
    BY <1>6, Advance DEF Retire
  <2>2. Free(m_head, m_tail') = Free(m_head, m_tail) + toRead
    BY <2>1, AdvanceTail DEF Slots
  <2>3. Used(m_head, m_tail') \in Nat /\ toWrite <= Free(m_head, m_tail')
    <3>1. Used(m_head, m_tail') \in Nat
      BY <2>1, SlotBudget
    <3>2. QED
      BY <1>0, <2>2, <3>1 DEF Slots
  <2>4. TypeOK' /\ CopiedIsOldest'
    BY <1>6, <2>1 DEF Retire, Slots
  <2>5. QED
    BY <1>6, <2>3, <2>4 DEF Retire, Slots
<1>7. CASE Clear
  <2>1. /\ m_head' = 0 /\ m_tail' = 0
        /\ UNCHANGED <<m_buffer, wpc, toWrite, written, rpc, toRead, destination, got>>
    BY <1>7 DEF Clear
  <2>2. TypeOK'
    BY <2>1 DEF Slots
  <2>3. toWrite = 0 /\ toRead = 0 /\ Len(destination) = 0
    BY <1>7 DEF Clear
  <2>4. Fits' /\ CopiedIsOldest' /\ IdleIsEmpty'
    BY <2>1, <2>3 DEF Slots, Free, Used
  <2>5. QED
    BY <2>2, <2>4
<1>8. CASE UNCHANGED vars
  BY <1>8 DEF vars
<1>9. QED
  BY <1>1, <1>2, <1>3, <1>4, <1>5, <1>6, <1>7, <1>8 DEF Next

THEOREM RingInvariant == Spec => []RingInv
<1>. QED
  BY RingInit, RingNext, PTL DEF Spec

\* No index, count or slot of the ring leaves its range.
THEOREM RingTypeCorrect == Spec => []TypeOK
<1>1. RingInv => TypeOK
  BY DEF RingInv
<1>. QED
  BY <1>1, RingInvariant, PTL

\* The slots being written and the slots being read are disjoint.
THEOREM RingIsRaceFree == Spec => []NoDataRace
<1>1. RingInv => NoDataRace
  <2>. SUFFICES ASSUME RingInv,
                       NEW i \in 0 .. toWrite - 1, NEW j \in 0 .. toRead - 1
                PROVE  Slot(m_head, i) # Slot(m_tail, j)
    BY DEF NoDataRace, Writing, Reading
  <2>0. Free(m_head, m_tail) \in Nat /\ Used(m_head, m_tail) \in Nat
    BY SlotBudget DEF RingInv, TypeOK
  <2>1. i \in Nat /\ i < Free(m_head, m_tail)
    BY <2>0 DEF RingInv, TypeOK, Fits, Slots
  <2>2. j \in Nat /\ j < Used(m_head, m_tail)
    BY <2>0 DEF RingInv, TypeOK, Fits, Slots
  <2>3. QED
    BY <2>1, <2>2, SlotsApart DEF RingInv, TypeOK
<1>. QED
  BY <1>1, RingInvariant, PTL

-----------------------------------------------------------------------------
(* The ring implements the bounded queue.                                  *)

Filled(head, tail, buffer) == [i \in 1 .. Used(head, tail) |-> buffer[Slot(tail, i - 1)]]

LEMMA FilledIsSeq ==
  ASSUME NEW head \in Slots, NEW tail \in Slots, NEW buffer \in [Slots -> Item]
  PROVE  /\ Filled(head, tail, buffer) \in Seq(Item)
         /\ Len(Filled(head, tail, buffer)) = Used(head, tail)
         /\ \A i \in 1 .. Used(head, tail) :
              Filled(head, tail, buffer)[i] = buffer[Slot(tail, i - 1)]
<1>1. Used(head, tail) \in Nat /\ Used(head, tail) < Capacity
  BY SlotBudget, RingAssumption
<1>2. \A i \in 1 .. Used(head, tail) : buffer[Slot(tail, i - 1)] \in Item
  <2>. TAKE i \in 1 .. Used(head, tail)
  <2>1. i - 1 \in Slots
    BY <1>1, RingAssumption DEF Slots
  <2>2. QED
    BY <2>1, Advance
<1>3. Filled(head, tail, buffer) \in [1 .. Used(head, tail) -> Item]
  BY <1>2 DEF Filled
<1>4. Filled(head, tail, buffer) \in Seq(Item)
  BY <1>1, <1>3, SeqDef
<1>5. QED
  BY <1>1, <1>3, <1>4, LenProperties DEF Filled

LEMMA ContentsFilled == Contents = Filled(m_head, m_tail, m_buffer)
  BY DEF Contents, Filled

\* Copying into free slots leaves the contents alone.
LEMMA CopyInIsHidden ==
  ASSUME RingInv, NEW item \in Item, CopyIn(item)
  PROVE  Contents' = Contents
<1>1. /\ Free(m_head, m_tail) \in Nat /\ Used(m_head, m_tail) \in Nat
      /\ Free(m_head, m_tail) + Used(m_head, m_tail) = Capacity - 1
  BY SlotBudget DEF RingInv, TypeOK
<1>2. written \in Nat /\ written < Free(m_head, m_tail)
  BY <1>1 DEF RingInv, TypeOK, Fits, CopyIn, Slots
<1>3. \A i \in 1 .. Used(m_head, m_tail) :
        m_buffer'[Slot(m_tail, i - 1)] = m_buffer[Slot(m_tail, i - 1)]
  <2>. TAKE i \in 1 .. Used(m_head, m_tail)
  <2>1. i - 1 \in Nat /\ i - 1 < Used(m_head, m_tail) /\ i - 1 \in Slots
    BY <1>1, RingAssumption DEF Slots
  <2>2. Slot(m_head, written) # Slot(m_tail, i - 1)
    BY <1>2, <2>1, SlotsApart DEF RingInv, TypeOK
  <2>3. Slot(m_tail, i - 1) \in Slots
    BY <2>1, Advance DEF RingInv, TypeOK
  <2>4. QED
    BY <2>2, <2>3 DEF CopyIn, RingInv, TypeOK
<1>4. QED
  BY <1>3 DEF Contents, CopyIn

LEMMA PublishPuts ==
  ASSUME RingInv, Publish
  PROVE  Fifo!Put
<1>. DEFINE batch == [i \in 1 .. toWrite |-> m_buffer[Slot(m_head, i - 1)]]
<1>0. /\ m_head \in Slots /\ m_tail \in Slots /\ m_buffer \in [Slots -> Item]
      /\ toWrite \in Slots /\ toWrite > 0 /\ toWrite <= Free(m_head, m_tail)
  BY DEF RingInv, TypeOK, IdleIsEmpty, Fits, Publish, Slots
<1>1. /\ Free(m_head, m_tail) \in Nat /\ Used(m_head, m_tail) \in Nat
      /\ Free(m_head, m_tail) + Used(m_head, m_tail) = Capacity - 1
  BY <1>0, SlotBudget
<1>2. m_head' = Slot(m_head, toWrite) /\ m_head' \in Slots
      /\ m_tail' = m_tail /\ m_buffer' = m_buffer /\ got' = got
  BY <1>0, Advance DEF Publish, readVars
<1>3. Used(m_head', m_tail) = Used(m_head, m_tail) + toWrite
  BY <1>0, <1>2, AdvanceHead DEF Slots
<1>4. batch \in [1 .. toWrite -> Item] /\ batch \in Seq(Item) /\ Len(batch) = toWrite
  <2>1. \A i \in 1 .. toWrite : m_buffer[Slot(m_head, i - 1)] \in Item
    <3>. TAKE i \in 1 .. toWrite
    <3>1. i - 1 \in Slots
      BY <1>0, RingAssumption DEF Slots
    <3>2. QED
      BY <1>0, <3>1, Advance
  <2>2. batch \in [1 .. toWrite -> Item]
    BY <2>1
  <2>3. batch \in Seq(Item)
    BY <1>0, <2>2, SeqDef DEF Slots
  <2>4. QED
    BY <1>0, <2>2, <2>3, LenProperties DEF Slots
<1>5. /\ Contents \in Seq(Item) /\ Len(Contents) = Used(m_head, m_tail)
      /\ \A i \in 1 .. Used(m_head, m_tail) : Contents[i] = m_buffer[Slot(m_tail, i - 1)]
  BY <1>0, FilledIsSeq, ContentsFilled
<1>6. Contents' = Filled(m_head', m_tail, m_buffer)
  BY <1>2 DEF Contents, Filled
<1>7. /\ Contents' \in Seq(Item) /\ Len(Contents') = Used(m_head, m_tail) + toWrite
      /\ \A i \in 1 .. Used(m_head, m_tail) + toWrite : Contents'[i] = m_buffer[Slot(m_tail, i - 1)]
  <2>1. /\ Contents' \in Seq(Item) /\ Len(Contents') = Used(m_head', m_tail)
        /\ \A i \in 1 .. Used(m_head', m_tail) : Contents'[i] = m_buffer[Slot(m_tail, i - 1)]
    <3>. HIDE DEF Contents
    <3>. DEFINE filled == Filled(m_head', m_tail, m_buffer)
    <3>1. /\ filled \in Seq(Item) /\ Len(filled) = Used(m_head', m_tail)
          /\ \A i \in 1 .. Used(m_head', m_tail) : filled[i] = m_buffer[Slot(m_tail, i - 1)]
      BY <1>0, <1>2, FilledIsSeq
    <3>. HIDE DEF filled
    <3>2. Contents' = filled
      BY <1>6 DEF filled
    <3>3. QED
      BY <3>1, <3>2
  <2>2. QED
    BY <1>3, <2>1
<1>. HIDE DEF batch
<1>8. Contents' = Contents \o batch
  <2>1. /\ Contents \o batch \in Seq(Item)
        /\ Len(Contents \o batch) = Used(m_head, m_tail) + toWrite
        /\ \A i \in 1 .. Used(m_head, m_tail) + toWrite :
             (Contents \o batch)[i] = IF i <= Used(m_head, m_tail) THEN Contents[i]
                                      ELSE batch[i - Used(m_head, m_tail)]
    <3>1. /\ Contents \o batch \in Seq(Item)
          /\ Len(Contents \o batch) = Len(Contents) + Len(batch)
          /\ \A i \in 1 .. Len(Contents) + Len(batch) :
               (Contents \o batch)[i] = IF i <= Len(Contents) THEN Contents[i]
                                        ELSE batch[i - Len(Contents)]
      BY <1>4, <1>5, ConcatProperties
    <3>2. QED
      BY <1>4, <1>5, <3>1
  <2>2. ASSUME NEW i \in 1 .. Used(m_head, m_tail) + toWrite
        PROVE  Contents'[i] = (Contents \o batch)[i]
    <3>1. CASE i <= Used(m_head, m_tail)
      <4>1. i \in 1 .. Used(m_head, m_tail)
        BY <1>1, <3>1
      <4>2. (Contents \o batch)[i] = Contents[i]
        BY <2>1, <3>1
      <4>3. Contents[i] = m_buffer[Slot(m_tail, i - 1)]
        BY <1>5, <4>1
      <4>4. Contents'[i] = m_buffer[Slot(m_tail, i - 1)]
        BY <1>7
      <4>5. QED
        BY <4>2, <4>3, <4>4
    <3>2. CASE i > Used(m_head, m_tail)
      <4>. DEFINE k == i - 1 - Used(m_head, m_tail)
      <4>1. k \in Nat /\ k <= Free(m_head, m_tail) /\ k + 1 \in 1 .. toWrite
            /\ Used(m_head, m_tail) + k = i - 1 /\ i - Used(m_head, m_tail) = k + 1
        BY <1>0, <1>1, <3>2 DEF Slots
      <4>2. Slot(m_head, k) = Slot(m_tail, i - 1)
        <5>1. Slot(m_head, k) = Slot(m_tail, Used(m_head, m_tail) + k)
          BY <1>0, <4>1, SlotFromHead
        <5>2. QED
          BY <4>1, <5>1
      <4>3. batch[k + 1] = m_buffer[Slot(m_head, k)]
        BY <4>1 DEF batch
      <4>4. (Contents \o batch)[i] = batch[k + 1]
        BY <1>1, <2>1, <3>2, <4>1
      <4>5. Contents'[i] = m_buffer[Slot(m_tail, i - 1)]
        BY <1>7
      <4>6. QED
        BY <4>2, <4>3, <4>4, <4>5
    <3>3. i <= Used(m_head, m_tail) \/ i > Used(m_head, m_tail)
      BY <1>0, <1>1 DEF Slots
    <3>4. QED
      BY <3>1, <3>2, <3>3
  <2>3. QED
    BY <1>7, <2>1, <2>2, SeqEqual
<1>9. toWrite \in 1 .. Capacity - 1 - Len(Contents)
  BY <1>0, <1>1, <1>5 DEF Slots
<1>10. QED
  BY <1>2, <1>4, <1>8, <1>9 DEF Fifo!Put

LEMMA RetireTakes ==
  ASSUME RingInv, Retire
  PROVE  Fifo!Take
<1>0. /\ m_head \in Slots /\ m_tail \in Slots /\ m_buffer \in [Slots -> Item]
      /\ toRead \in Slots /\ toRead > 0 /\ toRead <= Used(m_head, m_tail)
      /\ destination \in Seq(Item) /\ Len(destination) = toRead
  BY DEF RingInv, TypeOK, IdleIsEmpty, Fits, Retire, Slots
<1>1. /\ Used(m_head, m_tail) \in Nat /\ Used(m_head, m_tail) < Capacity
  <2>1. /\ Free(m_head, m_tail) \in Nat /\ Used(m_head, m_tail) \in Nat
        /\ Free(m_head, m_tail) + Used(m_head, m_tail) = Capacity - 1
    BY <1>0, SlotBudget
  <2>2. QED
    BY <2>1, RingAssumption
<1>2. m_tail' = Slot(m_tail, toRead) /\ m_tail' \in Slots
      /\ m_head' = m_head /\ m_buffer' = m_buffer /\ got' = destination
  BY <1>0, Advance DEF Retire
<1>3. Used(m_head, m_tail') = Used(m_head, m_tail) - toRead
  BY <1>0, <1>2, AdvanceTail DEF Slots
<1>4. /\ Contents \in Seq(Item) /\ Len(Contents) = Used(m_head, m_tail)
      /\ \A i \in 1 .. Used(m_head, m_tail) : Contents[i] = m_buffer[Slot(m_tail, i - 1)]
  BY <1>0, FilledIsSeq, ContentsFilled
<1>5. /\ Contents' \in Seq(Item) /\ Len(Contents') = Used(m_head, m_tail) - toRead
      /\ \A i \in 1 .. Used(m_head, m_tail) - toRead :
           Contents'[i] = m_buffer[Slot(m_tail', i - 1)]
  <2>1. Contents' = Filled(m_head, m_tail', m_buffer)
    BY <1>2 DEF Contents, Filled
  <2>2. /\ Contents' \in Seq(Item) /\ Len(Contents') = Used(m_head, m_tail')
        /\ \A i \in 1 .. Used(m_head, m_tail') : Contents'[i] = m_buffer[Slot(m_tail', i - 1)]
    <3>0. m_head \in Slots /\ m_tail' \in Slots /\ m_buffer \in [Slots -> Item]
      BY <1>0, <1>2
    <3>. DEFINE filled == Filled(m_head, m_tail', m_buffer)
    <3>1. /\ filled \in Seq(Item) /\ Len(filled) = Used(m_head, m_tail')
          /\ \A i \in 1 .. Used(m_head, m_tail') : filled[i] = m_buffer[Slot(m_tail', i - 1)]
      BY ONLY <3>0, FilledIsSeq
    <3>. HIDE DEF filled
    <3>2. Contents' = filled
      BY <2>1 DEF filled
    <3>3. QED
      BY <3>1, <3>2
  <2>3. QED
    BY <1>3, <2>2
<1>6. got' = SubSeq(Contents, 1, toRead)
  <2>. DEFINE taken == SubSeq(Contents, 1, toRead)
  <2>1. \A i \in 1 .. toRead : Contents[i] \in Item
    BY <1>0, <1>1, <1>4, ElementOfSeq DEF Slots
  <2>2. /\ taken \in Seq(Item) /\ Len(taken) = toRead
        /\ \A i \in 1 .. toRead : taken[i] = Contents[i]
    BY <1>0, <2>1, SubSeqProperties DEF Slots
  <2>3. ASSUME NEW i \in 1 .. toRead PROVE destination[i] = taken[i]
    <3>1. destination[i] = m_buffer[Slot(m_tail, i - 1)]
      BY <1>0 DEF RingInv, CopiedIsOldest
    <3>2. i \in 1 .. Used(m_head, m_tail)
      BY <1>0, <1>1 DEF Slots
    <3>3. QED
      BY <1>4, <2>2, <3>1, <3>2
  <2>4. QED
    BY <1>0, <1>2, <2>2, <2>3, SeqEqual
<1>7. Contents' = SubSeq(Contents, toRead + 1, Len(Contents))
  <2>. DEFINE rest == SubSeq(Contents, toRead + 1, Len(Contents))
  <2>1. \A i \in toRead + 1 .. Len(Contents) : Contents[i] \in Item
    BY <1>0, <1>1, <1>4, ElementOfSeq DEF Slots
  <2>2. /\ rest \in Seq(Item)
        /\ Len(rest) = IF toRead + 1 <= Len(Contents) THEN Len(Contents) - (toRead + 1) + 1 ELSE 0
        /\ \A i \in 1 .. Len(Contents) - (toRead + 1) + 1 : rest[i] = Contents[toRead + 1 + i - 1]
    <3>1. toRead + 1 \in Int /\ Len(Contents) \in Int
      BY <1>0, <1>1, <1>4 DEF Slots
    <3>2. QED
      BY <2>1, <3>1, SubSeqProperties
  <2>. HIDE DEF rest
  <2>3. /\ Len(rest) = Used(m_head, m_tail) - toRead
        /\ \A i \in 1 .. Used(m_head, m_tail) - toRead : rest[i] = Contents[toRead + i]
    BY <1>0, <1>1, <1>4, <2>2 DEF Slots
  <2>4. ASSUME NEW i \in 1 .. Used(m_head, m_tail) - toRead
        PROVE  Contents'[i] = rest[i]
    <3>1. /\ toRead + i \in 1 .. Used(m_head, m_tail) /\ toRead + i - 1 = toRead + (i - 1)
          /\ i - 1 \in Nat /\ toRead \in Nat /\ toRead + (i - 1) < Capacity
      BY <1>0, <1>1, RingAssumption DEF Slots
    <3>2. Contents[toRead + i] = m_buffer[Slot(m_tail, toRead + (i - 1))]
      BY <1>4, <3>1
    <3>3. Slot(m_tail', i - 1) = Slot(m_tail, toRead + (i - 1))
      BY <1>0, <1>2, <3>1, SlotTwice
    <3>4. Contents'[i] = m_buffer[Slot(m_tail', i - 1)]
      BY <1>5
    <3>5. rest[i] = Contents[toRead + i]
      BY <2>3
    <3>6. QED
      BY <3>2, <3>3, <3>4, <3>5
  <2>5. QED
    BY <1>5, <2>2, <2>3, <2>4, SeqEqual DEF rest
<1>8. toRead \in 1 .. Len(Contents)
  BY <1>0, <1>4 DEF Slots
<1>9. QED
  BY <1>6, <1>7, <1>8 DEF Fifo!Take

LEMMA EmptyContents ==
  ASSUME NEW tail \in Slots
  PROVE  Filled(tail, tail, m_buffer) = <<>>
<1>1. Used(tail, tail) = 0
  BY DEF Used, Slots
<1>2. QED
  BY <1>1 DEF Filled

\* The lock-free ring is a bounded FIFO queue: what is read is what was written,
\* in that order, nothing lost, nothing twice, and never more than fits.
THEOREM RingIsFifo == Spec => ImplementsFifo
<1>1. Init => Fifo!Init
  <2>. SUFFICES ASSUME Init PROVE Contents = <<>> /\ got = <<>>
    BY DEF Fifo!Init
  <2>1. m_head = 0 /\ m_tail = 0 /\ 0 \in Slots /\ got = <<>>
    BY RingAssumption DEF Init, Slots
  <2>2. QED
    BY <2>1, ContentsFilled, EmptyContents
<1>2. RingInv /\ [Next]_vars => [Fifo!Put \/ Fifo!Take \/ Fifo!Clear]_(Fifo!fifoVars)
  <2>. SUFFICES ASSUME RingInv, [Next]_vars
                PROVE  \/ Fifo!Put \/ Fifo!Take \/ Fifo!Clear
                       \/ Contents' = Contents /\ got' = got
    BY DEF Fifo!fifoVars
  <2>1. ASSUME NEW count \in Counts, BeginWrite(count) \/ BeginRead(count)
        PROVE  Contents' = Contents /\ got' = got
    BY <2>1 DEF BeginWrite, BeginRead, Contents, readVars
  <2>2. ASSUME NEW item \in Item, CopyIn(item) PROVE Contents' = Contents /\ got' = got
    BY <2>2, CopyInIsHidden DEF CopyIn, readVars
  <2>3. CASE Publish
    BY <2>3, PublishPuts
  <2>4. CASE CopyOut
    BY <2>4 DEF CopyOut, Contents
  <2>5. CASE Retire
    BY <2>5, RetireTakes
  <2>6. CASE Clear
    <3>1. m_head' = 0 /\ m_tail' = 0 /\ m_buffer' = m_buffer /\ got' = got /\ 0 \in Slots
      BY <2>6, RingAssumption DEF Clear, readVars, Slots
    <3>2. Contents' = Filled(0, 0, m_buffer)
      BY <3>1 DEF Contents, Filled
    <3>3. QED
      BY <3>1, <3>2, EmptyContents DEF Fifo!Clear
  <2>7. CASE UNCHANGED vars
    BY <2>7 DEF vars, readVars, Contents
  <2>8. QED
    BY <2>1, <2>2, <2>3, <2>4, <2>5, <2>6, <2>7 DEF Next
<1>. QED
  BY <1>1, <1>2, RingInvariant, PTL DEF Spec, ImplementsFifo, Fifo!Spec
=============================================================================
