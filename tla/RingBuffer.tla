----------------------------- MODULE RingBuffer -----------------------------
(***************************************************************************)
(* The lock-free ring of include/dsp/RingBuffer.hpp between one producer   *)
(* (write) and one consumer (read).  The loads and stores of m_head and    *)
(* m_tail and the copy of every single slot are steps of their own, so the *)
(* two calls overlap as they do on two cores; each index is loaded with    *)
(* acquire and stored with release by the side that owns it, so a step     *)
(* sees every slot copied before the index it has loaded.                  *)
(***************************************************************************)
EXTENDS Integers, Sequences

CONSTANTS
  Capacity,   \* m_capacity: one slot more than the ring ever holds
  Counts,     \* the counts callers pass
  Item        \* what a slot holds

ASSUME RingAssumption ==
  /\ Capacity \in Nat /\ Capacity > 1
  /\ Counts \subseteq Nat
  /\ Item # {}

VARIABLES
  m_buffer, m_head, m_tail,
  wpc, toWrite, written,      \* the write in progress: how much, how much copied
  rpc, toRead, destination,   \* the read in progress: how much, what is copied
  got                         \* what the last read that finished returned

writeVars == <<wpc, toWrite, written>>
readVars == <<rpc, toRead, destination, got>>
vars == <<m_buffer, m_head, m_tail, writeVars, readVars>>

Slots == 0 .. Capacity - 1

\* Slip: the slot that tells a full ring from an empty one is used as well.
AllFree(head, tail) == IF tail > head THEN tail - head ELSE Capacity - head + tail

Free(head, tail) == IF tail > head THEN tail - head - 1 ELSE Capacity - head + tail - 1
Used(head, tail) == IF head >= tail THEN head - tail ELSE Capacity - tail + head

Least(a, b) == IF a < b THEN a ELSE b

\* Slip: the copy does not come back to the first slot.
UnwrappedSlot(index, offset) == Least(index + offset, Capacity - 1)

\* The two chunks of a copy: up to the end of the vector, then from its start.
Slot(index, offset) ==
  IF offset < Capacity - index THEN index + offset ELSE offset - (Capacity - index)

Init ==
  /\ m_buffer \in [Slots -> Item]
  /\ m_head = 0 /\ m_tail = 0
  /\ wpc = "idle" /\ toWrite = 0 /\ written = 0
  /\ rpc = "idle" /\ toRead = 0 /\ destination = <<>> /\ got = <<>>

-----------------------------------------------------------------------------
(* write(data, count): m_head is the producer's own, m_tail is loaded once. *)

BeginWrite(count) ==
  /\ wpc = "idle"
  /\ Least(count, Free(m_head, m_tail)) > 0
  /\ wpc' = "copy"
  /\ toWrite' = Least(count, Free(m_head, m_tail))
  /\ written' = 0
  /\ UNCHANGED <<m_buffer, m_head, m_tail, readVars>>

CopyIn(item) ==
  /\ wpc = "copy" /\ written < toWrite
  /\ m_buffer' = [m_buffer EXCEPT ![Slot(m_head, written)] = item]
  /\ written' = written + 1
  /\ UNCHANGED <<m_head, m_tail, wpc, toWrite, readVars>>

Publish ==
  /\ wpc = "copy" /\ written = toWrite
  /\ m_head' = (m_head + toWrite) % Capacity
  /\ wpc' = "idle" /\ toWrite' = 0 /\ written' = 0
  /\ UNCHANGED <<m_buffer, m_tail, readVars>>

-----------------------------------------------------------------------------
(* read(destination, count), the mirror image.                             *)

BeginRead(count) ==
  /\ rpc = "idle"
  /\ Least(count, Used(m_head, m_tail)) > 0
  /\ rpc' = "copy"
  /\ toRead' = Least(count, Used(m_head, m_tail))
  /\ destination' = <<>>
  /\ UNCHANGED <<m_buffer, m_head, m_tail, writeVars, got>>

CopyOut ==
  /\ rpc = "copy" /\ Len(destination) < toRead
  /\ destination' = Append(destination, m_buffer[Slot(m_tail, Len(destination))])
  /\ UNCHANGED <<m_buffer, m_head, m_tail, writeVars, rpc, toRead, got>>

Retire ==
  /\ rpc = "copy" /\ Len(destination) = toRead
  /\ m_tail' = (m_tail + toRead) % Capacity
  /\ got' = destination
  /\ rpc' = "idle" /\ toRead' = 0 /\ destination' = <<>>
  /\ UNCHANGED <<m_buffer, m_head, writeVars>>

-----------------------------------------------------------------------------
\* clear() stores both indices, which only a caller that stopped both sides may do.
Clear ==
  /\ wpc = "idle" /\ rpc = "idle"
  /\ m_head' = 0 /\ m_tail' = 0
  /\ UNCHANGED <<m_buffer, writeVars, readVars>>

Next ==
  \/ \E count \in Counts : BeginWrite(count) \/ BeginRead(count)
  \/ \E item \in Item : CopyIn(item)
  \/ Publish
  \/ CopyOut
  \/ Retire
  \/ Clear

Spec == Init /\ [][Next]_vars

-----------------------------------------------------------------------------
\* Indices, counts and copies stay in range: no slot outside the vector is ever
\* touched.
TypeOK ==
  /\ m_buffer \in [Slots -> Item]
  /\ m_head \in Slots /\ m_tail \in Slots
  /\ wpc \in {"idle", "copy"} /\ rpc \in {"idle", "copy"}
  /\ toWrite \in Slots /\ written \in 0 .. toWrite
  /\ toRead \in Slots
  /\ destination \in Seq(Item) /\ Len(destination) <= toRead
  /\ got \in Seq(Item)

\* The slots the producer may still write, or has written and not published,
\* and those the consumer may still read.
Writing == {Slot(m_head, i) : i \in 0 .. toWrite - 1}
Reading == {Slot(m_tail, i) : i \in 0 .. toRead - 1}

\* Producer and consumer never touch the same slot, however their calls overlap:
\* the plain, non-atomic elements of the vector are free of data races.
NoDataRace == Writing \cap Reading = {}

\* The published part of the ring, oldest item first.
Contents == [i \in 1 .. Used(m_head, m_tail) |-> m_buffer[Slot(m_tail, i - 1)]]

\* The ring is a bounded FIFO queue of Capacity - 1 items.
Fifo == INSTANCE BoundedFifo WITH queue <- Contents, Size <- Capacity - 1
ImplementsFifo == Fifo!Spec
=============================================================================
