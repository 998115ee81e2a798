----------------------- MODULE DiversityReceiverProofs -----------------------
(***************************************************************************)
(* Proofs about DiversityReceiver, for any number of dongles, any driver,  *)
(* any decimation and any number of blocks.                                *)
(*                                                                         *)
(* Opening says what m_devices holds and that nothing happens before it is *)
(* complete, Stopping which workers the main thread has stopped and joined,*)
(* Owner what m_mutex is for, Handover that a channel buffer has the       *)
(* newest block of its dongle, Rate where the decimator is, and Old how    *)
(* many blocks from before a retune are still on their way: at most one in *)
(* the buffer of a dongle and one with its worker.                         *)
(*                                                                         *)
(* The last part is about the combiner: its sums, one term after the other,*)
(* are multiples of one direction.                                         *)
(***************************************************************************)
EXTENDS DiversityReceiver, SequenceTheorems, TLAPS

\* m_devices: those that opened so far, in the order of the configuration.
Opening ==
  /\ Len(devices) <= Dongles
  /\ main = "open" => /\ Len(devices) < next
                      /\ \A i \in 1 .. Len(devices) : devices[i] < next
                      /\ \A d \in Dongle : worker[d] = "none"
                      /\ tuner.state = "none"
  /\ main = "start" => \A i \in 1 .. Len(devices) : next <= i => worker[devices[i]] = "none"
  /\ main = "running" => next = 1
  /\ main \in {"start", "running", "stop", "join", "close"} => Len(devices) > 0
  /\ main = "closed" => Len(devices) = 0
  /\ \A i, j \in 1 .. Len(devices) : devices[i] = devices[j] => i = j

\* A worker that may do something is one the main thread has not stopped, or the
\* one it is waiting for.
Stopping ==
  /\ \A d \in Dongle : /\ worker[d] \notin {"none", "ended"} =>
                            d \in Active /\ (running[d] \/ (main = "join" /\ d = devices[next]))
                       /\ running[d] => d \in Active
  /\ main \in {"stop", "join"} => \A i \in 1 .. Len(devices) : i < next => ~running[devices[i]]
  /\ main = "join" => ~running[devices[next]]
  /\ main \in {"close", "closed"} => \A d \in Dongle : ~running[d]

\* With more than one dongle the callback runs under m_mutex.
Owner ==
  /\ \A d \in Dongle :
       mutex = d <=> Len(devices) > 1 /\ worker[d] \in {"assigned", "combined", "callback"}
  /\ \A d \in Dongle : worker[d] \in {"assigned", "combined"} => Len(devices) > 1

\* A block that was captured after the stop is not handed over, but then the
\* dongle has none in its buffer: a stream that ran was cancelled.
Handover ==
  \A d \in Dongle :
    /\ worker[d] = "deliver" => captured[d] > 0
    /\ worker[d] \in {"none", "begin"} => buffers[d] = 0
    /\ Len(devices) = 1 => buffers[d] = 0
    /\ buffers[d] > 0 => buffers[d] = HandedOver(d)
    /\ RtlHardware(d) /\ worker[d] \notin {"none", "begin", "ended"} =>
         async[d] \in {"running", "canceling"}
    /\ RtlHardware(d) /\ worker[d] # "ended" /\ ~running[d]
         /\ (buffers[d] > 0 \/ worker[d] = "deliver") =>
         async[d] = "canceling"

Rate ==
  /\ filter \in [phase : 0 .. Decimation - 1, fed : Nat, out : Nat]
  /\ filter.phase = filter.fed % Decimation
  /\ DecimatorKeepsRate

\* The worker of d is at a block of before the retune, or had begun one and gave
\* it up.
OldBegun(d) == captured[d] < since[d] \/ (worker[d] = "deliver" /\ captured[d] = since[d])

\* The buffer of d has a block of before the retune.
OldBuffered(d) == 0 < buffers[d] /\ buffers[d] <= since[d]

\* The blocks in the buffers were combined; they are about to be cleared.
Clearing == \E d \in Dongle : worker[d] = "combined"

Old ==
  /\ \A d \in Dongle :
       IF worker[d] \in {"deliver", "assigned", "combined", "callback"}
         THEN since[d] <= captured[d] ELSE since[d] <= captured[d] + 1
  /\ stale <= 2
  /\ tuner.state # "done" => stale = 0
  /\ stale >= 1 /\ Len(devices) = 1 => \A d \in Active : ~OldBegun(d)
  /\ stale >= 1 /\ ~Clearing => \A d \in Active : buffers[d] > 0 => ~OldBegun(d)
  /\ stale = 2 => \A d \in Active : ~OldBegun(d) /\ (Clearing \/ ~OldBuffered(d))

ReceiverInv == TypeOK /\ Opening /\ Stopping /\ Owner /\ Handover /\ Rate /\ Old

-----------------------------------------------------------------------------
(* The arithmetic of the decimator.                                        *)

LEMMA DivMod ==
  ASSUME NEW n \in Nat \ {0}, NEW a \in Nat
  PROVE  /\ a \div n \in Nat /\ a % n \in 0 .. n - 1
         /\ a = n * (a \div n) + (a % n)
<1>1. a % n \in 0 .. n - 1
  OBVIOUS
<1>2. a \div n \in Nat
  OBVIOUS
<1>3. a = n * (a \div n) + (a % n)
  OBVIOUS
<1>4. QED
  BY <1>1, <1>2, <1>3

LEMMA DivUnique ==
  ASSUME NEW n \in Nat \ {0}, NEW q \in Nat, NEW r \in 0 .. n - 1
  PROVE  (n * q + r) \div n = q /\ (n * q + r) % n = r
OBVIOUS

\* Adding what is left of a.
LEMMA AddMod ==
  ASSUME NEW n \in Nat \ {0}, NEW a \in Nat, NEW b \in Nat
  PROVE  ((a % n) + b) % n = (a + b) % n /\ (a + b) \div n = a \div n + ((a % n) + b) \div n
<1>. DEFINE q == a \div n
            r == a % n
            k == (r + b) \div n
            t == (r + b) % n
<1>1. q \in Nat /\ r \in 0 .. n - 1 /\ a = n * q + r
  BY DivMod
<1>2. r + b \in Nat
  BY <1>1
<1>3. k \in Nat /\ t \in 0 .. n - 1 /\ r + b = n * k + t
  BY <1>2, DivMod
<1>4. a + b = n * (q + k) + t /\ q + k \in Nat
  BY <1>1, <1>3
<1>. HIDE DEF q, r, k, t
<1>5. (n * (q + k) + t) \div n = q + k /\ (n * (q + k) + t) % n = t
  BY <1>3, <1>4, DivUnique
<1>6. QED
  BY <1>4, <1>5 DEF q, r, k, t

LEMMA AddOne ==
  ASSUME NEW n \in Nat \ {0}, NEW a \in Nat
  PROVE  (a + n) \div n = a \div n + 1
<1>1. a \div n \in Nat /\ a % n \in 0 .. n - 1 /\ a = n * (a \div n) + (a % n)
  BY DivMod
<1>2. a + n = n * (a \div n + 1) + (a % n) /\ a \div n + 1 \in Nat
  BY <1>1
<1>3. QED
  BY ZenonT(30), <1>1, <1>2, DivUnique

\* One sample comes out for every Decimation that went in, rounded up, if that
\* was so before the block, for a block of any size.
LEMMA DecimatedRate ==
  ASSUME NEW f \in [phase : 0 .. Decimation - 1, fed : Nat, out : Nat], NEW n \in Nat,
         f.phase = f.fed % Decimation,
         f.out = (f.fed + Decimation - 1) \div Decimation
  PROVE  LET g == Decimated(f, n)
         IN  /\ g \in [phase : 0 .. Decimation - 1, fed : Nat, out : Nat]
             /\ g.phase = g.fed % Decimation
             /\ g.out = (g.fed + Decimation - 1) \div Decimation
<1>. DEFINE D == Decimation
            r == f.phase
            q == f.fed \div D
            first == (D - PhaseAt(f, 0)) % D
            more == IF first < n THEN (n - 1 - first) \div D + 1 ELSE 0
<1>1. /\ D \in Nat \ {0} /\ q \in Nat /\ r \in 0 .. D - 1 /\ r = f.fed % D /\ f.fed \in Nat
      /\ D - 1 \in Nat
  BY ReceiverAssumption, DivMod
<1>2. first = IF r = 0 THEN 0 ELSE D - r
  <2>1. PhaseAt(f, 0) = r
    BY <1>1 DEF PhaseAt
  <2>2. D - r \in 1 .. D
    BY <1>1
  <2>3. D % D = 0 /\ (D - r < D => (D - r) % D = D - r)
    BY <1>1, <2>2
  <2>4. QED
    BY <1>1, <2>1, <2>2, <2>3
<1>3. f.out = q + (r + (D - 1)) \div D
  <2>. DEFINE a == f.fed
              b == D - 1
  <2>1. f.fed + D - 1 = a + b /\ r = a % D /\ a \in Nat /\ b \in Nat /\ D \in Nat \ {0}
    BY <1>1
  <2>2. f.out = (a + b) \div D
    BY <2>1
  <2>. HIDE DEF a, b, D, r
  <2>3. (a + b) \div D = a \div D + ((a % D) + b) \div D
    BY <2>1, AddMod
  <2>4. f.out = a \div D + (r + b) \div D
    BY <2>1, <2>2, <2>3
  <2>5. QED
    BY <2>4 DEF a, b
<1>4. (f.fed + n + D - 1) \div D = q + (r + n + (D - 1)) \div D
  <2>. DEFINE a == f.fed
              b == n + (D - 1)
              c == f.fed + n + D - 1
              d == r + n + (D - 1)
  <2>1. c = a + b /\ d = r + b /\ r = a % D /\ a \in Nat /\ b \in Nat /\ D \in Nat \ {0}
    BY <1>1
  <2>. HIDE DEF a, b, c, d, D, r
  <2>2. (a + b) \div D = a \div D + ((a % D) + b) \div D
    BY ZenonT(30), <2>1, AddMod
  <2>3. c \div D = a \div D + d \div D
    BY <2>1, <2>2
  <2>4. QED
    BY <2>3 DEF a, c, d
<1>5. more \in Nat /\ (r + n + (D - 1)) \div D = (r + (D - 1)) \div D + more
  <2>1. CASE r = 0 /\ n = 0
    BY <1>1, <1>2, <2>1
  <2>2. CASE r = 0 /\ n > 0
    <3>1. first = 0 /\ more = (n - 1) \div D + 1 /\ n - 1 \in Nat
      BY <1>2, <2>2
    <3>2. r + n + (D - 1) = n - 1 + D /\ r + (D - 1) = D - 1
      BY <1>1, <2>2
    <3>3. (n - 1 + D) \div D = (n - 1) \div D + 1
      BY <1>1, <3>1, AddOne
    <3>4. (D - 1) \div D = 0 /\ (n - 1) \div D \in Nat
      BY <1>1, <3>1
    <3>5. QED
      BY <3>1, <3>2, <3>3, <3>4
  <2>3. CASE r > 0 /\ D - r < n
    <3>. DEFINE m == n - 1 - (D - r)
    <3>1. m \in Nat /\ more = m \div D + 1
      BY <1>1, <1>2, <2>3
    <3>2. r + n + (D - 1) = (m + D) + D /\ m + D \in Nat
      BY <1>1, <2>3
    <3>3. ((m + D) + D) \div D = (m \div D + 1) + 1
      <4>1. ((m + D) + D) \div D = (m + D) \div D + 1
        BY <1>1, <3>2, AddOne
      <4>2. (m + D) \div D = m \div D + 1
        BY <1>1, <3>1, AddOne
      <4>3. QED
        BY <4>1, <4>2
    <3>4. m \div D \in Nat
      BY <1>1, <3>1, DivMod
    <3>5. (r + (D - 1)) \div D = 1
      <4>. DEFINE a == r - 1
                  b == r + (D - 1)
      <4>1. b = a + D /\ a \in Nat /\ a \div D = 0 /\ D \in Nat \ {0}
        BY <1>1, <2>3
      <4>. HIDE DEF a, b, D
      <4>2. (a + D) \div D = a \div D + 1
        BY <4>1, AddOne
      <4>3. b \div D = 1
        BY <4>1, <4>2
      <4>4. QED
        BY <4>3 DEF b
    <3>. HIDE DEF m
    <3>6. QED
      BY <3>1, <3>2, <3>3, <3>4, <3>5
  <2>4. CASE r > 0 /\ ~(D - r < n)
    <3>1. more = 0
      BY <1>2, <2>4
    <3>2. /\ r + n + (D - 1) = (r + n - 1) + D /\ r + n - 1 \in 0 .. D - 1
          /\ r + (D - 1) = (r - 1) + D /\ r - 1 \in 0 .. D - 1
      BY <1>1, <2>4
    <3>3. \A k \in 0 .. D - 1 : (k + D) \div D = 1
      <4>1. (\A k \in 0 .. D - 1 : k \in Nat /\ k \div D = 0) /\ D \in Nat \ {0}
        BY <1>1
      <4>. HIDE DEF D
      <4>2. ASSUME NEW k \in 0 .. D - 1 PROVE (k + D) \div D = 1
        <5>1. k \in Nat /\ k \div D = 0 /\ D \in Nat \ {0}
          BY <4>1
        <5>2. (k + D) \div D = k \div D + 1
          BY <5>1, AddOne
        <5>3. QED
          BY <5>1, <5>2
      <4>3. QED
        BY <4>2
    <3>4. QED
      BY <3>1, <3>2, <3>3
  <2>5. QED
    BY <1>1, <2>1, <2>2, <2>3, <2>4
<1>6. PhaseAt(f, n) \in 0 .. D - 1 /\ PhaseAt(f, n) = (f.fed + n) % D
  <2>1. r + n \in Nat
    BY <1>1
  <2>2. PhaseAt(f, n) \in 0 .. D - 1
    BY <1>1, <2>1, DivMod DEF PhaseAt
  <2>3. QED
    BY <1>1, <2>2, AddMod DEF PhaseAt
<1>7. Decimated(f, n) = [phase |-> PhaseAt(f, n), fed |-> f.fed + n, out |-> f.out + more]
  BY DEF Decimated
<1>8. f.out + more = (f.fed + n + D - 1) \div D
  <2>1. (r + (D - 1)) \div D \in Nat
    <3>1. r + (D - 1) \in Nat
      BY <1>1
    <3>2. QED
      BY <1>1, <3>1, DivMod
  <2>. HIDE DEF q, r, more, D
  <2>2. QED
    BY <1>1, <1>3, <1>4, <1>5, <2>1
<1>9. f.fed + n \in Nat /\ f.out + more \in Nat
  BY <1>1, <1>5
<1>. HIDE DEF more
<1>10. QED
  BY <1>6, <1>7, <1>8, <1>9

\* A block has samples, so the shortest one has.
LEMMA SetSizeNat ==
  ASSUME TypeOK, Active # {}, Active \subseteq Dongle
  PROVE  SetSize \in Nat
<1>. DEFINE sizes == {BlockSize(driver, dev[d]) : d \in Active}
<1>1. sizes \subseteq {131072, 16384, 8192, 4096} /\ sizes # {}
  BY DEF BlockSize, RtlBlock, BladeBlock, SdrplayBlock
<1>. HIDE DEF sizes
<1>2. \E x \in sizes : \A y \in sizes : x <= y
  <2>1. CASE 4096 \in sizes
    BY <1>1, <2>1
  <2>2. CASE 4096 \notin sizes /\ 8192 \in sizes
    BY <1>1, <2>2
  <2>3. CASE 4096 \notin sizes /\ 8192 \notin sizes /\ 16384 \in sizes
    BY <1>1, <2>3
  <2>4. CASE 4096 \notin sizes /\ 8192 \notin sizes /\ 16384 \notin sizes
    <3>0. sizes # {}
      BY <1>1
    <3>1. PICK x \in sizes : TRUE
      BY <3>0
    <3>2. x = 131072 /\ \A y \in sizes : y = x
      BY <1>1, <2>4, <3>1
    <3>3. QED
      BY <3>2
  <2>5. QED
    BY <2>1, <2>2, <2>3, <2>4
<1>3. Min(sizes) \in sizes
  BY <1>2 DEF Min
<1>4. QED
  BY <1>1, <1>3 DEF SetSize, sizes
-----------------------------------------------------------------------------
(* What every step needs.                                                  *)

LEMMA ActiveAt ==
  ASSUME TypeOK
  PROVE  /\ Len(devices) \in Nat /\ devices \in Seq(Dongle)
         /\ \A i \in 1 .. Len(devices) : devices[i] \in Active /\ devices[i] \in Dongle
         /\ \A d \in Active : d \in Dongle /\ \E i \in 1 .. Len(devices) : d = devices[i]
<1>1. devices \in Seq(Dongle)
  BY DEF TypeOK
<1>2. QED
  BY <1>1 DEF Active

LEMMA OpenTyped ==
  ASSUME NEW result \in Open(driver)
  PROVE  result.device \in [handle : BOOLEAN, simulation : BOOLEAN]
<1>1. /\ NoDevice \in [handle : BOOLEAN, simulation : BOOLEAN]
      /\ Simulated \in [handle : BOOLEAN, simulation : BOOLEAN]
      /\ Hardware \in [handle : BOOLEAN, simulation : BOOLEAN]
  BY DEF NoDevice, Simulated, Hardware
<1>2. result \in OpenRtl \/ result \in OpenBlade \/ result \in OpenSdrplay
  BY DEF Open
<1>3. result.device \in {Simulated, Hardware}
  BY <1>2 DEF OpenRtl, OpenBlade, OpenSdrplay, Outcome
<1>4. QED
  BY <1>1, <1>3

LEMMA AloneActive ==
  ASSUME TypeOK, Len(devices) = 1
  PROVE  \A d, e \in Active : d = e
<1>1. 1 .. 1 = {1}
  OBVIOUS
<1>2. QED
  BY <1>1, ActiveAt

LEMMA InvTyped == ReceiverInv => TypeOK
BY DEF ReceiverInv

\* The threads' types, apart from the rest of the type invariant.
LEMMA ThreadTypes ==
  ASSUME TypeOK
  PROVE  /\ running \in [Dongle -> BOOLEAN]
         /\ worker \in [Dongle -> {"none", "begin", "loop", "read", "deliver", "assigned", "combined",
                               "callback", "ended"}]
         /\ async \in [Dongle -> {"inactive", "running", "canceling"}]
         /\ captured \in [Dongle -> 0 .. MaxBlock]
         /\ buffers \in [Dongle -> 0 .. MaxBlock]
         /\ taken \in [Dongle -> 0 .. MaxBlock]
         /\ since \in [Dongle -> 0 .. MaxBlock + 1]
         /\ MaxBlock \in Nat
         /\ mutex \in Dongle \cup {0} /\ 0 \notin Dongle
<1>1. 0 \notin Dongle /\ MaxBlock \in Nat
  BY ReceiverAssumption DEF Dongle
<1>2. QED
  BY <1>1 DEF TypeOK

-----------------------------------------------------------------------------
LEMMA ReceiverInit == Init => ReceiverInv
<1>. SUFFICES ASSUME Init PROVE ReceiverInv
  OBVIOUS
<1>. USE ReceiverAssumption
<1>1. devices \in Seq(Dongle) /\ Len(devices) = 0 /\ 1 .. 0 = {} /\ Active = {}
  BY DEF Init, Active
<1>2. TypeOK
  <2>1. driver \in {"rtlsdr", "bladerf", "sdrplay"}
    BY DEF Init, CreateSdrDevice
  <2>2. /\ dev \in [Dongle -> [handle : BOOLEAN, simulation : BOOLEAN]]
        /\ \A d \in Dongle : dev[d] = NoDevice
    BY DEF Init, NoDevice
  <2>3. filter.phase \in 0 .. Decimation - 1
    BY DEF Init, Fresh
  <2>4. QED
    BY <1>1, <2>1, <2>2, <2>3 DEF Init, TypeOK, Dongle
<1>3. Opening /\ Stopping
  BY <1>1 DEF Init, Opening, Stopping, Dongle
<1>4. Owner /\ Handover
  BY <1>1 DEF Init, Owner, Handover, RtlHardware, Real, NoDevice, Dongle
<1>5. Rate
  <2>1. 0 % Decimation = 0 /\ (0 + Decimation - 1) \div Decimation = 0
    OBVIOUS
  <2>2. filter = Fresh
    BY DEF Init
  <2>3. QED
    BY <2>1, <2>2 DEF Rate, DecimatorKeepsRate, Fresh
<1>6. Old
  BY <1>1 DEF Init, Old
<1>7. QED
  BY <1>2, <1>3, <1>4, <1>5, <1>6 DEF ReceiverInv

-----------------------------------------------------------------------------
(* The main thread.                                                        *)

LEMMA OpenKeeps ==
  ASSUME ReceiverInv, OpenDongle
  PROVE  ReceiverInv'
<1>. USE ReceiverAssumption
<1>1. /\ main = "open" /\ next \in Dongle /\ Len(devices) \in Nat /\ Len(devices) < next
      /\ \A d \in Dongle : worker[d] = "none"
      /\ tuner.state = "none" /\ stale = 0
      /\ UNCHANGED <<driver, running, worker, async, captured, mutex, buffers, taken, stale, tuner,
                     since, filter>>
  BY ActiveAt
  DEF ReceiverInv, TypeOK, Opening, Old, OpenDongle, threadVars, channelVars, tuneVars
<1>2. PICK result \in Open(driver) :
        IF result.ok THEN /\ devices' = Append(devices, next)
                          /\ dev' = [dev EXCEPT ![next] = result.device]
                     ELSE UNCHANGED <<devices, dev>>
  BY DEF OpenDongle
<1>3. result.device \in [handle : BOOLEAN, simulation : BOOLEAN]
  BY OpenTyped
<1>4. /\ devices' \in Seq(Dongle) /\ Len(devices') \in Nat
      /\ Len(devices') <= next
      /\ Active' \subseteq Active \cup {next}
      /\ Active \subseteq Active'
      /\ \A i \in 1 .. Len(devices') : devices'[i] <= next
      /\ \A i, j \in 1 .. Len(devices') : devices'[i] = devices'[j] => i = j
  <2>1. CASE result.ok
    <3>1. /\ devices' \in Seq(Dongle) /\ Len(devices') = Len(devices) + 1
          /\ \A i \in 1 .. Len(devices) : devices'[i] = devices[i]
          /\ devices'[Len(devices) + 1] = next
      <4>1. devices' = Append(devices, next) /\ devices \in Seq(Dongle)
        BY <1>2, <2>1 DEF ReceiverInv, TypeOK
      <4>2. QED
        BY <1>1, <4>1
    <3>2. \A i \in 1 .. Len(devices) : devices[i] < next /\ devices[i] \in Nat
      BY <1>1, ActiveAt DEF ReceiverInv, Opening, Dongle
    <3>3. \A i \in 1 .. Len(devices) + 1 : i \in 1 .. Len(devices) \/ i = Len(devices) + 1
      BY <1>1
    <3>4. Active' = Active \cup {next}
      BY <1>1, <3>1, <3>3 DEF Active
    <3>5. \A i \in 1 .. Len(devices') : devices'[i] <= next
      BY <1>1, <3>1, <3>2, <3>3 DEF Dongle
    <3>6. \A i, j \in 1 .. Len(devices') : devices'[i] = devices'[j] => i = j
      BY <1>1, <3>1, <3>2, <3>3 DEF ReceiverInv, Opening, Dongle
    <3>7. QED
      BY <1>1, <3>1, <3>4, <3>5, <3>6 DEF Dongle
  <2>2. CASE ~result.ok
    <3>1. \A i \in 1 .. Len(devices) : devices[i] < next /\ devices[i] \in Nat
      BY <1>1, ActiveAt DEF ReceiverInv, Opening, Dongle
    <3>2. UNCHANGED devices
      BY <1>2, <2>2
    <3>3. Active' = Active
      BY <3>2 DEF Active
    <3>4. \A i, j \in 1 .. Len(devices) : devices[i] = devices[j] => i = j
      BY DEF ReceiverInv, Opening
    <3>5. next \in Nat /\ devices \in Seq(Dongle)
      BY <1>1, ActiveAt DEF ReceiverInv, Dongle
    <3>6. QED
      BY <1>1, <3>1, <3>2, <3>3, <3>4, <3>5
  <2>3. QED
    BY <2>1, <2>2
<1>5. \/ main' = "open" /\ next' = next + 1 /\ next < Dongles
      \/ main' = "failed" /\ next' = 1
      \/ main' = "start" /\ next' = 1 /\ devices' # <<>>
  BY DEF OpenDongle, AfterOpen
<1>6. main' = "start" => 0 < Len(devices')
  BY <1>4, <1>5
<1>7. TypeOK'
  <2>1. dev' \in [Dongle -> [handle : BOOLEAN, simulation : BOOLEAN]]
    BY <1>2, <1>3 DEF ReceiverInv, TypeOK
  <2>2. \A d \in Dongle \ Active' : driver # "sdrplay" => dev'[d] = NoDevice
    <3>1. CASE result.ok
      <4>1. next \in Active'
        <5>1. devices' = Append(devices, next) /\ devices \in Seq(Dongle)
          BY <1>2, <3>1, ActiveAt DEF ReceiverInv
        <5>2. devices'[Len(devices) + 1] = next /\ Len(devices) + 1 \in 1 .. Len(devices')
          BY <1>1, <5>1
        <5>3. QED
          BY <5>2 DEF Active
      <4>2. \A d \in Dongle \ {next} : dev'[d] = dev[d]
        BY <1>2, <3>1 DEF ReceiverInv, TypeOK
      <4>3. QED
        BY <1>4, <4>1, <4>2 DEF ReceiverInv, TypeOK
    <3>2. CASE ~result.ok
      BY <1>2, <1>4, <3>2 DEF ReceiverInv, TypeOK
    <3>3. QED
      BY <3>1, <3>2
  <2>3. next' \in Dongle /\ main' \in {"open", "start", "failed"}
        /\ (main' \in {"start", "stop", "join"} => next' <= Len(devices'))
    BY <1>1, <1>4, <1>5, <1>6 DEF Dongle
  <2>4. QED
    BY <1>1, <1>4, <2>1, <2>2, <2>3 DEF ReceiverInv, TypeOK
<1>8. Opening'
  <2>1. Len(devices') <= Dongles
    BY <1>1, <1>4 DEF Dongle
  <2>2. main' = "open" => Len(devices') < next' /\ \A i \in 1 .. Len(devices') : devices'[i] < next'
    <3>1. devices' \in Seq(Nat) /\ next \in Nat
      BY <1>1, <1>4 DEF Dongle
    <3>2. QED
      BY <1>4, <1>5, <3>1
  <2>3. main' = "start" => \A i \in 1 .. Len(devices') : worker'[devices'[i]] = "none"
    BY <1>1, <1>4
  <2>4. QED
    BY <1>1, <1>4, <1>5, <1>6, <2>1, <2>2, <2>3 DEF Opening
<1>9. Stopping'
  BY <1>1, <1>4, <1>5 DEF ReceiverInv, Stopping
<1>10. Owner' /\ Handover'
  <2>1. Owner'
    BY <1>1 DEF ReceiverInv, Owner
  <2>2. \A d \in Dongle : buffers[d] = 0
    BY <1>1 DEF ReceiverInv, Handover
  <2>3. Handover'
    BY <1>1, <2>2 DEF Handover
  <2>4. QED
    BY <2>1, <2>3
<1>11. Rate' /\ Old'
  BY <1>1 DEF ReceiverInv, Rate, DecimatorKeepsRate, Old
<1>12. QED
  BY <1>7, <1>8, <1>9, <1>10, <1>11 DEF ReceiverInv

LEMMA StartKeeps ==
  ASSUME ReceiverInv, StartDongle
  PROVE  ReceiverInv'
<1>. DEFINE d == devices[next]
<1>1. /\ main = "start" /\ next \in 1 .. Len(devices) /\ Len(devices) \in Nat
      /\ next \in Dongle /\ d \in Dongle /\ d \in Active
      /\ worker[d] = "none" /\ buffers[d] = 0
      /\ UNCHANGED <<driver, devices, async, captured, mutex, buffers, taken, stale, tuner, since,
                     filter>>
      /\ Active' = Active
  <2>1. main = "start" /\ next \in Dongle /\ next <= Len(devices)
        /\ UNCHANGED <<driver, devices, async, captured, mutex, buffers, taken, stale, tuner, since,
                       filter>>
    BY DEF ReceiverInv, TypeOK, StartDongle, channelVars, tuneVars
  <2>2. next \in 1 .. Len(devices)
    BY <2>1, ActiveAt DEF ReceiverInv, Dongle
  <2>3. d \in Dongle /\ d \in Active /\ Len(devices) \in Nat
    BY <2>2, ActiveAt DEF ReceiverInv
  <2>4. worker[d] = "none"
    BY <2>1, <2>2 DEF ReceiverInv, Opening
  <2>5. buffers[d] = 0
    BY <2>3, <2>4 DEF ReceiverInv, Handover
  <2>6. QED
    BY <2>1, <2>2, <2>3, <2>4, <2>5 DEF Active
<1>2. \/ main' = "running" /\ next' = 1
      \/ main' = "start" /\ next' = next + 1 /\ next < Len(devices)
  BY <1>1 DEF StartDongle, Last, Dongle
<1>3. PICK result \in Start(driver, dev[d]) :
        /\ dev' = [dev EXCEPT ![d] = result.device]
        /\ IF result.ok THEN /\ running' = [running EXCEPT ![d] = TRUE]
                             /\ worker' = [worker EXCEPT ![d] = "begin"]
                        ELSE UNCHANGED <<running, worker>>
  BY DEF StartDongle
<1>4. /\ result.device \in [handle : BOOLEAN, simulation : BOOLEAN]
      /\ driver = "rtlsdr" => result.device = dev[d]
  <2>1. dev[d] \in [handle : BOOLEAN, simulation : BOOLEAN]
    BY <1>1 DEF ReceiverInv, TypeOK
  <2>2. CASE driver \in {"rtlsdr", "bladerf"}
    <3>1. result.device = dev[d]
      BY <2>2 DEF Start, StartRtl, StartBlade, Outcome
    <3>2. QED
      BY <2>1, <3>1
  <2>3. CASE driver \notin {"rtlsdr", "bladerf"}
    <3>. DEFINE simulated == [dev[d] EXCEPT !.simulation = TRUE]
    <3>1. result \in StartSdrplay(dev[d])
      BY <2>3 DEF Start
    <3>2. result = [ok |-> TRUE, device |-> simulated]
      BY <3>1 DEF StartSdrplay, Outcome
    <3>3. simulated \in [handle : BOOLEAN, simulation : BOOLEAN]
      BY <2>1
    <3>. HIDE DEF simulated
    <3>4. result.device = simulated
      BY <3>2
    <3>5. QED
      BY <2>3, <3>3, <3>4
  <2>4. QED
    BY <2>2, <2>3
<1>. HIDE DEF d
<1>5. /\ running' \in [Dongle -> BOOLEAN]
      /\ worker' \in [Dongle -> {"none", "begin", "loop", "read", "deliver", "assigned", "combined",
                             "callback", "ended"}]
      /\ worker'[d] \in {"none", "begin"} /\ (worker'[d] = "begin" => running'[d])
      /\ \A e \in Dongle \ {d} : worker'[e] = worker[e] /\ running'[e] = running[e]
      /\ \A e \in Dongle : running[e] => running'[e]
  BY ZenonT(30), <1>1, <1>3, ThreadTypes DEF ReceiverInv
<1>6. TypeOK'
  <2>1. /\ dev' \in [Dongle -> [handle : BOOLEAN, simulation : BOOLEAN]]
        /\ \A e \in Dongle \ Active : dev'[e] = dev[e]
    BY <1>1, <1>3, <1>4 DEF ReceiverInv, TypeOK
  <2>2. next' \in Dongle /\ main' \in {"start", "running"}
        /\ (main' = "start" => next' <= Len(devices))
    BY <1>1, <1>2, ReceiverAssumption DEF ReceiverInv, Opening, Dongle
  <2>3. QED
    BY ZenonT(30), <1>1, <1>5, <2>1, <2>2, InvTyped DEF TypeOK
<1>7. Opening'
  <2>1. ASSUME main' = "start", NEW i \in 1 .. Len(devices), next' <= i
        PROVE  worker'[devices[i]] = "none"
    <3>1. next' = next + 1 /\ next <= i /\ i # next
      BY <1>1, <1>2, <2>1
    <3>2. worker[devices[i]] = "none" /\ devices[i] # d
      BY <1>1, <3>1 DEF ReceiverInv, Opening, d
    <3>3. devices[i] \in Dongle
      BY ActiveAt DEF ReceiverInv
    <3>4. QED
      BY <1>5, <3>2, <3>3
  <2>2. QED
    BY <1>1, <1>2, <2>1 DEF ReceiverInv, Opening
<1>8. Stopping'
  BY <1>1, <1>2, <1>5 DEF ReceiverInv, Stopping
<1>9. Owner'
  BY <1>1, <1>5 DEF ReceiverInv, Owner
<1>10. Handover'
  <2>1. ASSUME NEW e \in Dongle, RtlHardware(e)' PROVE RtlHardware(e)
    <3>1. driver = "rtlsdr" /\ dev'[e] = dev[e]
      BY <1>1, <1>3, <1>4, <2>1 DEF RtlHardware, ReceiverInv, TypeOK
    <3>2. QED
      BY <2>1, <3>1 DEF RtlHardware, Real
  <2>2. \A e \in Dongle : HandedOver(e)' = HandedOver(e)
    BY <1>1, <1>5 DEF HandedOver
  <2>3. QED
    BY <1>1, <1>5, <2>1, <2>2 DEF ReceiverInv, Handover
<1>11. Rate' /\ Old'
  <2>1. Clearing' = Clearing
    BY <1>1, <1>5 DEF Clearing
  <2>2. \A e \in Dongle : /\ OldBegun(e)' = OldBegun(e) /\ OldBuffered(e)' = OldBuffered(e)
                          /\ worker'[e] \in {"deliver", "assigned", "combined", "callback"} <=>
                               worker[e] \in {"deliver", "assigned", "combined", "callback"}
    BY <1>1, <1>5 DEF OldBegun, OldBuffered
  <2>3. Old'
    BY <1>1, <2>1, <2>2, ActiveAt DEF ReceiverInv, Old
  <2>4. QED
    BY <1>1, <2>3 DEF ReceiverInv, Rate, DecimatorKeepsRate
<1>12. QED
  BY <1>6, <1>7, <1>8, <1>9, <1>10, <1>11 DEF ReceiverInv

\* What only concerns the workers, while a step leaves them and the channels alone.
LEMMA WorkersSame ==
  ASSUME ReceiverInv,
         UNCHANGED <<driver, dev, devices, worker, captured, mutex, buffers, taken, stale, tuner, since,
                     filter>>
  PROVE  /\ Owner' /\ Rate' /\ Old' /\ Active' = Active
         /\ \A d \in Dongle : RtlHardware(d)' = RtlHardware(d) /\ HandedOver(d)' = HandedOver(d)
BY DEF ReceiverInv, Owner, Rate, DecimatorKeepsRate, Old, OldBegun, OldBuffered, Clearing, Active,
       RtlHardware, Real, HandedOver

LEMMA SignalKeeps ==
  ASSUME ReceiverInv, Signal
  PROVE  ReceiverInv'
<1>1. /\ main = "running" /\ main' = "stop" /\ next = 1
      /\ UNCHANGED <<driver, dev, devices, next, running, worker, async, captured, mutex, buffers,
                     taken, stale, tuner, since, filter>>
  BY DEF ReceiverInv, Opening, Signal, setup, threadVars, channelVars, tuneVars
<1>2. next <= Len(devices)
  BY <1>1, ActiveAt DEF ReceiverInv, Opening
<1>3. TypeOK'
  BY ZenonT(30), <1>1, <1>2, InvTyped DEF TypeOK, Active
<1>4. Opening' /\ Stopping'
  BY <1>1, WorkersSame DEF ReceiverInv, Opening, Stopping
<1>5. Handover'
  BY <1>1, WorkersSame DEF ReceiverInv, Handover
<1>6. QED
  BY <1>1, <1>3, <1>4, <1>5, WorkersSame DEF ReceiverInv

\* Past the last dongle none is running.
LEMMA AllStopped ==
  ASSUME ReceiverInv, main \in {"stop", "join"}, Last(next), ~running[devices[next]]
  PROVE  \A d \in Dongle : ~running[d]
<1>1. next \in Nat /\ next <= Len(devices) /\ Len(devices) <= next
  BY ActiveAt DEF ReceiverInv, TypeOK, Last, Dongle
<1>2. ASSUME NEW i \in 1 .. Len(devices) PROVE ~running[devices[i]]
  <2>1. i < next \/ i = next
    BY <1>1
  <2>2. QED
    BY <2>1 DEF ReceiverInv, Stopping
<1>3. QED
  BY <1>2, ActiveAt DEF ReceiverInv, Stopping

LEMMA StopKeeps ==
  ASSUME ReceiverInv, StopDongle
  PROVE  ReceiverInv'
<1>. DEFINE d == devices[next]
<1>1. /\ main = "stop" /\ next \in 1 .. Len(devices) /\ Len(devices) \in Nat
      /\ next \in Dongle /\ d \in Dongle /\ Len(devices) <= Dongles
      /\ UNCHANGED <<driver, dev, devices, worker, captured, mutex, buffers, taken, stale, tuner, since,
                     filter>>
  <2>1. main = "stop" /\ next \in Dongle /\ next <= Len(devices)
        /\ UNCHANGED <<driver, dev, devices, worker, captured, mutex, buffers, taken, stale, tuner,
                       since, filter>>
    BY DEF ReceiverInv, TypeOK, StopDongle, setup, channelVars, tuneVars
  <2>2. next \in 1 .. Len(devices)
    BY <2>1, ActiveAt DEF ReceiverInv, Dongle
  <2>3. QED
    BY <2>1, <2>2, ActiveAt DEF ReceiverInv, Opening
<1>2. Owner' /\ Rate' /\ Old' /\ Active' = Active
      /\ \A e \in Dongle : RtlHardware(e)' = RtlHardware(e) /\ HandedOver(e)' = HandedOver(e)
  BY <1>1, WorkersSame
<1>3. CASE running[d]
  <2>1. /\ running' = [running EXCEPT ![d] = FALSE]
        /\ async' = [async EXCEPT ![d] = Cancel(driver, @)]
        /\ main' = "join" /\ next' = next
    BY <1>3 DEF StopDongle
  <2>2. Cancel(driver, async[d]) \in {"inactive", "running", "canceling"}
        /\ (driver = "rtlsdr" /\ async[d] \in {"running", "canceling"} =>
              Cancel(driver, async[d]) = "canceling")
    BY <1>1, ThreadTypes DEF ReceiverInv, Cancel, CancelRtl, CancelBlade, CancelSdrplay
  <2>. HIDE DEF d
  <2>3. /\ running' \in [Dongle -> BOOLEAN] /\ async' \in [Dongle -> {"inactive", "running", "canceling"}]
        /\ ~running'[d] /\ async'[d] = Cancel(driver, async[d])
        /\ \A e \in Dongle \ {d} : running'[e] = running[e] /\ async'[e] = async[e]
    BY <1>1, <2>1, <2>2, ThreadTypes DEF ReceiverInv
  <2>4. TypeOK'
    BY <1>1, <1>2, <2>1, <2>3 DEF ReceiverInv, TypeOK
  <2>5. Opening'
    BY <1>1, <2>1 DEF ReceiverInv, Opening
  <2>6. Stopping'
    <3>1. \A e \in Dongle : running'[e] => running[e]
      BY <2>3
    <3>2. \A i \in 1 .. Len(devices) : i < next => ~running'[devices[i]]
      BY <1>1, <3>1, ActiveAt DEF ReceiverInv, Stopping
    <3>3. QED
      BY <1>1, <1>2, <2>1, <2>3, <3>1, <3>2 DEF ReceiverInv, Stopping, d
  <2>7. Handover'
    <3>1. ASSUME NEW e \in Dongle, RtlHardware(e), worker[e] \notin {"none", "begin", "ended"}
          PROVE  async'[e] \in {"running", "canceling"}
      BY <2>2, <2>3, <3>1 DEF ReceiverInv, Handover, RtlHardware
    <3>2. ASSUME NEW e \in Dongle, RtlHardware(e), worker[e] # "ended", ~running'[e],
                 buffers[e] > 0 \/ worker[e] = "deliver"
          PROVE  async'[e] = "canceling"
      <4>1. CASE e = d
        <5>1. worker[d] \notin {"none", "begin", "ended"}
          BY <1>1, <3>2, <4>1 DEF ReceiverInv, Handover
        <5>2. QED
          BY <1>1, <2>2, <2>3, <3>2, <4>1, <5>1 DEF ReceiverInv, Handover, RtlHardware
      <4>2. CASE e # d
        BY <2>3, <3>2, <4>2 DEF ReceiverInv, Handover
      <4>3. QED
        BY <4>1, <4>2
    <3>3. QED
      BY <1>1, <1>2, <3>1, <3>2 DEF ReceiverInv, Handover
  <2>8. QED
    BY <1>2, <2>4, <2>5, <2>6, <2>7 DEF ReceiverInv
<1>4. CASE ~running[d]
  <2>1. /\ UNCHANGED <<running, async>>
        /\ \/ main' = "close" /\ next' = 1 /\ Last(next)
           \/ main' = "stop" /\ next' = next + 1 /\ next < Len(devices)
    BY <1>1, <1>4 DEF StopDongle, Last
  <2>2. TypeOK'
    <3>1. next' \in Dongle /\ (main' = "stop" => next' <= Len(devices))
      BY <1>1, <2>1, ReceiverAssumption DEF Dongle
    <3>2. QED
      BY <1>1, <1>2, <2>1, <3>1 DEF ReceiverInv, TypeOK
  <2>3. Opening'
    BY <1>1, <2>1 DEF ReceiverInv, Opening
  <2>4. Stopping'
    <3>1. main' = "close" => \A e \in Dongle : ~running[e]
      BY <1>1, <1>4, <2>1, AllStopped
    <3>2. main' = "stop" => \A i \in 1 .. Len(devices) : i < next' => ~running[devices[i]]
      <4>1. main' = "stop" => \A i \in 1 .. Len(devices) : i < next' => i < next \/ i = next
        BY <1>1, <2>1
      <4>2. QED
        BY <1>1, <1>4, <4>1 DEF ReceiverInv, Stopping
    <3>3. QED
      BY <1>1, <1>2, <2>1, <3>1, <3>2 DEF ReceiverInv, Stopping
  <2>5. Handover'
    BY <1>1, <1>2, <2>1 DEF ReceiverInv, Handover
  <2>6. QED
    BY <1>2, <2>2, <2>3, <2>4, <2>5 DEF ReceiverInv
<1>5. QED
  BY <1>3, <1>4

LEMMA JoinKeeps ==
  ASSUME ReceiverInv, JoinWorker
  PROVE  ReceiverInv'
<1>1. /\ main = "join" /\ next \in 1 .. Len(devices) /\ Len(devices) \in Nat
      /\ next \in Dongle /\ Len(devices) <= Dongles
      /\ worker[devices[next]] = "ended" /\ ~running[devices[next]]
      /\ UNCHANGED <<driver, dev, devices, running, worker, async, captured, mutex, buffers, taken, stale,
                     tuner, since, filter>>
  <2>1. main = "join" /\ next \in Dongle /\ next <= Len(devices)
        /\ UNCHANGED <<driver, dev, devices, running, worker, async, captured, mutex, buffers, taken,
                       stale, tuner, since, filter>>
        /\ worker[devices[next]] = "ended"
    BY DEF ReceiverInv, TypeOK, JoinWorker, Ended, setup, threadVars, channelVars, tuneVars
  <2>2. next \in 1 .. Len(devices)
    BY <2>1, ActiveAt DEF ReceiverInv, Dongle
  <2>3. QED
    BY <2>1, <2>2, ActiveAt DEF ReceiverInv, Opening, Stopping
<1>2. Owner' /\ Rate' /\ Old' /\ Active' = Active
      /\ \A e \in Dongle : RtlHardware(e)' = RtlHardware(e) /\ HandedOver(e)' = HandedOver(e)
  BY <1>1, WorkersSame
<1>3. \/ main' = "close" /\ next' = 1 /\ Last(next)
      \/ main' = "stop" /\ next' = next + 1 /\ next < Len(devices)
  BY <1>1 DEF JoinWorker, Last
<1>4. TypeOK'
  <2>1. next' \in Dongle /\ (main' = "stop" => next' <= Len(devices))
    BY <1>1, <1>3, ReceiverAssumption DEF Dongle
  <2>2. QED
    BY <1>1, <1>2, <1>3, <2>1, InvTyped DEF TypeOK
<1>5. Opening'
  BY <1>1, <1>3 DEF ReceiverInv, Opening
<1>6. Stopping'
  <2>1. main' = "close" => \A e \in Dongle : ~running[e]
    BY <1>1, <1>3, AllStopped
  <2>2. main' = "stop" => \A i \in 1 .. Len(devices) : i < next' => ~running[devices[i]]
    <3>1. main' = "stop" => \A i \in 1 .. Len(devices) : i < next' => i < next \/ i = next
      BY <1>1, <1>3
    <3>2. QED
      BY <1>1, <3>1 DEF ReceiverInv, Stopping
  <2>3. QED
    BY <1>1, <1>2, <1>3, <2>1, <2>2 DEF ReceiverInv, Stopping
<1>7. Handover'
  BY <1>1, <1>2 DEF ReceiverInv, Handover
<1>8. QED
  BY <1>2, <1>4, <1>5, <1>6, <1>7 DEF ReceiverInv

LEMMA CloseKeeps ==
  ASSUME ReceiverInv, Close
  PROVE  ReceiverInv'
<1>1. /\ main = "close" /\ main' = "closed" /\ devices' = <<>>
      /\ dev' = [d \in Dongle |-> Closed(driver, dev[d])]
      /\ UNCHANGED <<driver, next, running, worker, async, captured, mutex, buffers, taken, stale,
                     tuner, since, filter>>
  BY DEF Close, threadVars, channelVars, tuneVars
<1>2. devices' \in Seq(Dongle) /\ Len(devices') = 0 /\ 1 .. 0 = {} /\ Active' = {}
  BY <1>1 DEF Active
<1>3. \A d \in Dongle : worker[d] \in {"none", "ended"} /\ ~running[d]
  BY <1>1 DEF ReceiverInv, Stopping
<1>4. /\ \A d \in Dongle : driver # "sdrplay" => dev'[d] = NoDevice
      /\ dev' \in [Dongle -> [handle : BOOLEAN, simulation : BOOLEAN]]
  <2>1. \A d \in Dongle : driver # "sdrplay" => Closed(driver, dev[d]) = NoDevice
    BY DEF ReceiverInv, TypeOK, Closed, CloseRtl, CloseBlade
  <2>2. ASSUME NEW d \in Dongle PROVE Closed(driver, dev[d]) \in [handle : BOOLEAN, simulation : BOOLEAN]
    <3>1. NoDevice \in [handle : BOOLEAN, simulation : BOOLEAN]
      BY DEF NoDevice
    <3>2. CASE driver = "sdrplay"
      <4>1. Closed(driver, dev[d]) = [NoDevice EXCEPT !.handle = dev[d].handle /\ dev[d].simulation]
        BY <3>2 DEF Closed, CloseSdrplay
      <4>2. (dev[d].handle /\ dev[d].simulation) \in BOOLEAN
        OBVIOUS
      <4>3. QED
        BY <4>1, <4>2 DEF NoDevice
    <3>3. QED
      BY <2>1, <3>1, <3>2
  <2>3. QED
    BY <1>1, <2>1, <2>2
<1>5. TypeOK'
  BY <1>1, <1>2, <1>4 DEF ReceiverInv, TypeOK
<1>6. Opening' /\ Stopping'
  BY <1>1, <1>2, <1>3, ReceiverAssumption DEF Opening, Stopping
<1>7. Owner'
  BY <1>1, <1>2, <1>3 DEF ReceiverInv, Owner
<1>8. Handover'
  <2>1. \A d \in Dongle : ~RtlHardware(d)'
    BY <1>1, <1>4 DEF RtlHardware, Real, NoDevice
  <2>2. \A d \in Dongle : HandedOver(d)' = HandedOver(d)
    BY <1>1 DEF HandedOver
  <2>3. QED
    BY <1>1, <2>1, <2>2 DEF ReceiverInv, Handover
<1>9. Rate' /\ Old'
  BY <1>1, <1>2 DEF ReceiverInv, Rate, DecimatorKeepsRate, Old
<1>10. QED
  BY <1>5, <1>6, <1>7, <1>8, <1>9 DEF ReceiverInv

-----------------------------------------------------------------------------
(* The worker of a dongle.                                                 *)

Labels == {"begin", "loop", "read", "deliver", "assigned", "combined", "callback", "ended"}

\* A worker that is under way is not noticed by the main thread.
LEMMA WorkerStep ==
  ASSUME ReceiverInv, NEW d \in Dongle, NEW label \in Labels,
         worker[d] \notin {"none", "ended"},
         GotoW(d, label),
         UNCHANGED <<driver, dev, devices, main, next, running, tuner>>
  PROVE  /\ Opening' /\ Stopping' /\ Active' = Active /\ d \in Active
         /\ worker' \in [Dongle -> {"none", "begin", "loop", "read", "deliver", "assigned", "combined",
                                "callback", "ended"}]
         /\ worker'[d] = label /\ \A e \in Dongle \ {d} : worker'[e] = worker[e]
         /\ \A e \in Dongle : RtlHardware(e)' = RtlHardware(e)
<1>1. /\ worker' \in [Dongle -> {"none", "begin", "loop", "read", "deliver", "assigned", "combined",
                             "callback", "ended"}]
      /\ worker'[d] = label /\ \A e \in Dongle \ {d} : worker'[e] = worker[e]
  BY ThreadTypes DEF ReceiverInv, GotoW, Labels
<1>2. Active' = Active /\ d \in Active
  BY DEF Active, ReceiverInv, Stopping
<1>3. \A e \in Dongle : worker[e] = "none" => worker'[e] = "none"
  BY <1>1
<1>4. Opening'
  BY <1>3, ActiveAt DEF ReceiverInv, Opening
<1>5. \A e \in Dongle : worker'[e] \notin {"none", "ended"} => worker[e] \notin {"none", "ended"}
  BY <1>1
<1>6. Stopping'
  BY <1>2, <1>5 DEF ReceiverInv, Stopping
<1>7. QED
  BY <1>1, <1>2, <1>4, <1>6 DEF RtlHardware, Real

\* Between two blocks: nothing is handed over.
LEMMA MoveKeeps ==
  ASSUME ReceiverInv, NEW d \in Dongle, NEW label \in {"loop", "read", "ended"},
         worker[d] \in {"begin", "loop", "read"},
         GotoW(d, label),
         async' \in [Dongle -> {"inactive", "running", "canceling"}],
         \A e \in Dongle \ {d} : async'[e] = async[e],
         RtlHardware(d) /\ label # "ended" => async'[d] \in {"running", "canceling"},
         label # "ended" /\ buffers[d] > 0 => async'[d] = async[d],
         UNCHANGED <<driver, dev, devices, main, next, running, captured, mutex, buffers, taken, stale,
                     tuner, since, filter>>
  PROVE  ReceiverInv'
<1>1. /\ Opening' /\ Stopping' /\ Active' = Active
      /\ worker' \in [Dongle -> {"none", "begin", "loop", "read", "deliver", "assigned", "combined",
                             "callback", "ended"}]
      /\ worker'[d] = label /\ \A e \in Dongle \ {d} : worker'[e] = worker[e]
      /\ \A e \in Dongle : RtlHardware(e)' = RtlHardware(e)
  BY WorkerStep DEF Labels
<1>2. TypeOK'
  BY ZenonT(30), <1>1, InvTyped DEF TypeOK
<1>3. Owner'
  BY <1>1 DEF ReceiverInv, Owner
<1>4. Handover'
  <2>1. \A e \in Dongle : HandedOver(e)' = HandedOver(e)
    BY <1>1 DEF HandedOver
  <2>2. ASSUME NEW e \in Dongle \ {d}
        PROVE  /\ worker'[e] = worker[e] /\ async'[e] = async[e]
    BY <1>1
  <2>3. ASSUME RtlHardware(d), label # "ended", ~running[d], buffers[d] > 0
        PROVE  async'[d] = "canceling"
    BY <2>3 DEF ReceiverInv, Handover
  <2>4. QED
    BY <1>1, <2>1, <2>2, <2>3 DEF ReceiverInv, Handover
<1>5. Rate' /\ Old'
  <2>1. Clearing' = Clearing
    BY <1>1 DEF Clearing
  <2>2. \A e \in Dongle : /\ OldBegun(e)' = OldBegun(e) /\ OldBuffered(e)' = OldBuffered(e)
                          /\ worker'[e] \in {"deliver", "assigned", "combined", "callback"} <=>
                               worker[e] \in {"deliver", "assigned", "combined", "callback"}
    BY <1>1 DEF OldBegun, OldBuffered
  <2>3. Old'
    BY <1>1, <2>1, <2>2, ActiveAt DEF ReceiverInv, Old
  <2>4. QED
    BY <2>3 DEF ReceiverInv, Rate, DecimatorKeepsRate
<1>6. QED
  BY <1>1, <1>2, <1>3, <1>4, <1>5 DEF ReceiverInv

LEMMA BetweenKeeps ==
  ASSUME ReceiverInv, NEW d \in Dongle, Begin(d) \/ Loop(d) \/ TimeOut(d) \/ StreamEnds(d)
  PROVE  ReceiverInv'
<1>1. async \in [Dongle -> {"inactive", "running", "canceling"}]
  BY ThreadTypes DEF ReceiverInv
<1>2. UNCHANGED <<driver, dev, devices, main, next, running, captured, mutex, buffers, taken, stale,
                  tuner, since, filter>>
  BY DEF Begin, Loop, TimeOut, StreamEnds, setup, channelVars, tuneVars
<1>3. CASE Begin(d)
  <2>1. worker[d] = "begin" /\ buffers[d] = 0 /\ ~(buffers[d] > 0)
    BY <1>3 DEF Begin, ReceiverInv, Handover
  <2>2. CASE RtlHardware(d)
    <3>1. GotoW(d, "read") /\ async' = [async EXCEPT ![d] = "running"]
      BY <1>3, <2>2 DEF Begin
    <3>2. /\ async' \in [Dongle -> {"inactive", "running", "canceling"}]
          /\ async'[d] = "running" /\ \A e \in Dongle \ {d} : async'[e] = async[e]
      BY <1>1, <3>1
    <3>3. QED
      BY <1>2, <2>1, <3>1, <3>2, MoveKeeps
  <2>3. CASE ~RtlHardware(d)
    <3>1. GotoW(d, "loop") /\ UNCHANGED async
      BY <1>3, <2>3 DEF Begin
    <3>2. QED
      BY <1>1, <1>2, <2>1, <2>3, <3>1, MoveKeeps
  <2>4. QED
    BY <2>2, <2>3
<1>4. CASE Loop(d)
  <2>1. /\ worker[d] = "loop" /\ UNCHANGED async
        /\ \E label \in {"read", "ended"} : GotoW(d, label)
    BY <1>4 DEF Loop
  <2>2. RtlHardware(d) => async[d] \in {"running", "canceling"}
    BY <2>1 DEF ReceiverInv, Handover
  <2>3. QED
    BY <1>1, <1>2, <2>1, <2>2, MoveKeeps
<1>5. CASE TimeOut(d)
  <2>1. worker[d] = "read" /\ ~RtlHardware(d) /\ UNCHANGED async /\ GotoW(d, "loop")
    BY <1>5 DEF TimeOut
  <2>2. QED
    BY <1>1, <1>2, <2>1, MoveKeeps
<1>6. CASE StreamEnds(d)
  <2>1. worker[d] = "read" /\ async' = [async EXCEPT ![d] = "inactive"] /\ GotoW(d, "ended")
    BY <1>6 DEF StreamEnds
  <2>2. /\ async' \in [Dongle -> {"inactive", "running", "canceling"}]
        /\ \A e \in Dongle \ {d} : async'[e] = async[e]
    BY <1>1, <2>1
  <2>3. QED
    BY <1>2, <2>1, <2>2, MoveKeeps
<1>7. QED
  BY <1>3, <1>4, <1>5, <1>6

LEMMA CaptureKeeps ==
  ASSUME ReceiverInv, NEW d \in Dongle, Capture(d)
  PROVE  ReceiverInv'
<1>1. /\ worker[d] = "read" /\ captured[d] < MaxBlock /\ async[d] # "canceling"
      /\ captured' = [captured EXCEPT ![d] = @ + 1]
      /\ UNCHANGED <<driver, dev, devices, main, next, running, async, mutex, buffers, taken, stale,
                     tuner, since, filter>>
  BY DEF Capture, setup, channelVars, tuneVars
<1>2. PICK label \in {"read", "deliver"} :
        GotoW(d, label) /\ (label = "read" <=> RtlHardware(d) /\ ~running[d])
  BY DEF Capture
<1>3. /\ Opening' /\ Stopping' /\ Active' = Active
      /\ worker' \in [Dongle -> {"none", "begin", "loop", "read", "deliver", "assigned", "combined",
                             "callback", "ended"}]
      /\ worker'[d] = label /\ \A e \in Dongle \ {d} : worker'[e] = worker[e]
      /\ \A e \in Dongle : RtlHardware(e)' = RtlHardware(e)
  BY <1>1, <1>2, WorkerStep DEF Labels
<1>4. /\ captured' \in [Dongle -> 0 .. MaxBlock] /\ captured[d] \in Nat
      /\ captured'[d] = captured[d] + 1
      /\ \A e \in Dongle \ {d} : captured'[e] = captured[e]
  BY <1>1, ThreadTypes DEF ReceiverInv
<1>5. TypeOK'
  BY ZenonT(30), <1>1, <1>3, <1>4, InvTyped DEF TypeOK
<1>6. Owner'
  BY <1>1, <1>2, <1>3 DEF ReceiverInv, Owner
<1>7. label = "read" => ~(buffers[d] > 0)
  BY <1>1, <1>2 DEF ReceiverInv, Handover
<1>8. Handover'
  <2>1. \A e \in Dongle \ {d} : HandedOver(e)' = HandedOver(e)
    BY <1>3, <1>4 DEF HandedOver
  <2>2. label = "deliver" => HandedOver(d)' = HandedOver(d)
    BY <1>1, <1>3, <1>4 DEF HandedOver
  <2>3. RtlHardware(d) => async[d] \in {"running", "canceling"}
    BY <1>1 DEF ReceiverInv, Handover
  <2>4. captured'[d] > 0
    BY <1>4
  <2>5. ASSUME NEW e \in Dongle, e = d
        PROVE  /\ worker'[e] = "deliver" => captured'[e] > 0
               /\ worker'[e] \in {"none", "begin"} => buffers[e] = 0
               /\ buffers[e] > 0 => buffers[e] = HandedOver(e)'
               /\ RtlHardware(e) => async[e] \in {"running", "canceling"}
               /\ RtlHardware(e) /\ ~running[e] /\ (buffers[e] > 0 \/ worker'[e] = "deliver") =>
                    async[e] = "canceling"
    BY <1>1, <1>2, <1>3, <1>7, <2>2, <2>3, <2>4, <2>5 DEF ReceiverInv, Handover
  <2>6. QED
    BY <1>1, <1>3, <1>4, <2>1, <2>5 DEF ReceiverInv, Handover
<1>9. Rate' /\ Old'
  <2>1. Clearing' = Clearing
    BY <1>1, <1>2, <1>3 DEF Clearing
  <2>2. \A e \in Dongle : since[e] \in Nat /\ captured[e] \in Nat
    BY ThreadTypes DEF ReceiverInv
  <2>3. \A e \in Dongle : /\ OldBegun(e)' => OldBegun(e)
                          /\ OldBuffered(e)' = OldBuffered(e)
    BY <1>1, <1>2, <1>3, <1>4, <2>2 DEF OldBegun, OldBuffered
  <2>4. \A e \in Dongle :
          IF worker'[e] \in {"deliver", "assigned", "combined", "callback"}
            THEN since[e] <= captured'[e] ELSE since[e] <= captured'[e] + 1
    BY <1>1, <1>2, <1>3, <1>4, <2>2 DEF ReceiverInv, Old
  <2>5. Old'
    BY <1>1, <1>3, <2>1, <2>3, <2>4, ActiveAt DEF ReceiverInv, Old
  <2>6. QED
    BY <1>1, <2>5 DEF ReceiverInv, Rate, DecimatorKeepsRate
<1>10. QED
  BY <1>3, <1>5, <1>6, <1>8, <1>9 DEF ReceiverInv

\* What Forget does: the mark of the dongle goes with the first newer block.
LEMMA ForgetDoes ==
  ASSUME TypeOK, NEW d \in Dongle, Forget(d)
  PROVE  /\ since' \in [Dongle -> 0 .. MaxBlock + 1]
         /\ since'[d] = IF captured[d] > since[d] THEN 0 ELSE since[d]
         /\ \A e \in Dongle \ {d} : since'[e] = since[e]
         /\ \A e \in Dongle : since'[e] <= since[e] /\ since'[e] \in Nat /\ since[e] \in Nat
BY ThreadTypes DEF Forget

LEMMA AloneKeeps ==
  ASSUME ReceiverInv, NEW d \in Dongle, DeliverAlone(d)
  PROVE  ReceiverInv'
<1>1. /\ worker[d] = "deliver" /\ Len(devices) = 1
      /\ taken' = [taken EXCEPT ![d] = captured[d]]
      /\ stale' = Counted /\ Forget(d) /\ GotoW(d, "callback")
      /\ UNCHANGED <<driver, dev, devices, main, next, running, async, captured, mutex, buffers, tuner,
                     filter>>
  BY DEF DeliverAlone, setup
<1>2. /\ Opening' /\ Stopping' /\ Active' = Active /\ d \in Active
      /\ worker' \in [Dongle -> {"none", "begin", "loop", "read", "deliver", "assigned", "combined",
                             "callback", "ended"}]
      /\ worker'[d] = "callback" /\ \A e \in Dongle \ {d} : worker'[e] = worker[e]
      /\ \A e \in Dongle : RtlHardware(e)' = RtlHardware(e)
  BY <1>1, WorkerStep DEF Labels
<1>3. /\ since' \in [Dongle -> 0 .. MaxBlock + 1]
      /\ since'[d] = IF captured[d] > since[d] THEN 0 ELSE since[d]
      /\ \A e \in Dongle \ {d} : since'[e] = since[e]
      /\ \A e \in Dongle : since'[e] <= since[e] /\ since'[e] \in Nat /\ since[e] \in Nat
  BY <1>1, ForgetDoes DEF ReceiverInv
<1>4. /\ taken' \in [Dongle -> 0 .. MaxBlock] /\ taken'[d] = captured[d]
      /\ captured[d] \in Nat /\ captured[d] > 0 /\ since[d] <= captured[d]
  BY <1>1, ThreadTypes DEF ReceiverInv, Handover, Old
<1>5. \A e \in Active : e = d
  BY <1>1, <1>2, AloneActive DEF ReceiverInv
<1>6. \/ stale' = 0
      \/ stale' = stale + 1 /\ tuner.state = "done" /\ captured[d] <= since[d]
  BY <1>1, <1>4, <1>5 DEF Counted
<1>7. stale \in Nat /\ (stale >= 1 => since[d] < captured[d])
  BY <1>1, <1>2, <1>3, <1>4 DEF ReceiverInv, TypeOK, Old, OldBegun
<1>8. stale' \in {0, 1} /\ (stale' = 1 => tuner.state = "done")
  BY <1>3, <1>4, <1>6, <1>7
<1>9. TypeOK'
  <2>1. stale' \in Nat
    BY <1>8
  <2>2. QED
    BY ZenonT(30), <1>1, <1>2, <1>3, <1>4, <2>1, InvTyped DEF TypeOK
<1>10. Owner'
  <2>1. ~(Len(devices) > 1)
    BY <1>1
  <2>2. QED
    BY <1>1, <1>2, <2>1 DEF ReceiverInv, Owner
<1>11. Handover'
  <2>1. \A e \in Dongle \ {d} : HandedOver(e)' = HandedOver(e)
    BY <1>1, <1>2 DEF HandedOver
  <2>2. buffers[d] = 0
    BY <1>1 DEF ReceiverInv, Handover
  <2>3. QED
    BY <1>1, <1>2, <2>1, <2>2 DEF ReceiverInv, Handover
<1>12. Rate' /\ Old'
  <2>1. \A e \in Active' : ~OldBegun(e)'
    BY <1>1, <1>2, <1>3, <1>4, <1>5 DEF OldBegun
  <2>2. \A e \in Dongle :
          IF worker'[e] \in {"deliver", "assigned", "combined", "callback"}
            THEN since'[e] <= captured[e] ELSE since'[e] <= captured[e] + 1
    <3>1. \A e \in Dongle : captured[e] \in Nat
      BY ThreadTypes DEF ReceiverInv
    <3>2. QED
      BY <1>1, <1>2, <1>3, <1>4, <3>1 DEF ReceiverInv, Old
  <2>3. Old'
    BY <1>1, <1>8, <2>1, <2>2 DEF Old
  <2>4. QED
    BY <1>1, <2>3 DEF ReceiverInv, Rate, DecimatorKeepsRate
<1>13. QED
  BY <1>2, <1>9, <1>10, <1>11, <1>12 DEF ReceiverInv

LEMMA AssignKeeps ==
  ASSUME ReceiverInv, NEW d \in Dongle, AssignBlock(d)
  PROVE  ReceiverInv'
<1>1. /\ worker[d] = "deliver" /\ Len(devices) > 1
      /\ mutex = 0 /\ mutex' = d
      /\ buffers' = [buffers EXCEPT ![d] = captured[d]]
      /\ Forget(d) /\ GotoW(d, "assigned")
      /\ UNCHANGED <<driver, dev, devices, main, next, running, async, captured, taken, stale, tuner,
                     filter>>
  BY DEF AssignBlock, MutexFree, Assign, setup
<1>2. /\ Opening' /\ Stopping' /\ Active' = Active /\ d \in Active
      /\ worker' \in [Dongle -> {"none", "begin", "loop", "read", "deliver", "assigned", "combined",
                             "callback", "ended"}]
      /\ worker'[d] = "assigned" /\ \A e \in Dongle \ {d} : worker'[e] = worker[e]
      /\ \A e \in Dongle : RtlHardware(e)' = RtlHardware(e)
  BY <1>1, WorkerStep DEF Labels
<1>3. /\ since' \in [Dongle -> 0 .. MaxBlock + 1]
      /\ since'[d] = IF captured[d] > since[d] THEN 0 ELSE since[d]
      /\ \A e \in Dongle \ {d} : since'[e] = since[e]
      /\ \A e \in Dongle : since'[e] <= since[e] /\ since'[e] \in Nat /\ since[e] \in Nat
  BY <1>1, ForgetDoes DEF ReceiverInv
<1>4. /\ buffers' \in [Dongle -> 0 .. MaxBlock] /\ buffers'[d] = captured[d]
      /\ \A e \in Dongle \ {d} : buffers'[e] = buffers[e]
      /\ captured[d] \in Nat /\ captured[d] > 0 /\ since[d] <= captured[d]
  BY <1>1, ThreadTypes DEF ReceiverInv, Handover, Old
<1>5. /\ mutex \notin Dongle
      /\ \A e \in Dongle : worker[e] \notin {"assigned", "combined", "callback"}
  BY <1>1, ThreadTypes DEF ReceiverInv, Owner
<1>6. TypeOK'
  BY <1>1, <1>2, <1>3, <1>4, InvTyped DEF TypeOK
<1>7. Owner'
  BY <1>1, <1>2, <1>5 DEF Owner
<1>8. Handover'
  <2>1. \A e \in Dongle \ {d} : HandedOver(e)' = HandedOver(e)
    BY <1>1, <1>2 DEF HandedOver
  <2>2. HandedOver(d)' = captured[d]
    BY <1>1, <1>2 DEF HandedOver
  <2>3. RtlHardware(d) => async[d] \in {"running", "canceling"}
    BY <1>1 DEF ReceiverInv, Handover
  <2>4. RtlHardware(d) /\ ~running[d] => async[d] = "canceling"
    BY <1>1 DEF ReceiverInv, Handover
  <2>5. /\ worker'[d] = "assigned" /\ buffers'[d] = HandedOver(d)'
        /\ Len(devices) # 1
    BY <1>1, <1>2, <1>4, <2>2, ActiveAt DEF ReceiverInv
  <2>6. \A e \in Dongle \ {d} : worker'[e] = worker[e] /\ buffers'[e] = buffers[e]
    BY <1>2, <1>4
  <2>7. QED
    BY <1>1, <1>2, <2>1, <2>3, <2>4, <2>5, <2>6 DEF ReceiverInv, Handover
<1>9. Rate' /\ Old'
  <2>1. ~Clearing /\ ~Clearing'
    BY <1>2, <1>5 DEF Clearing
  <2>2. \A e \in Dongle : captured[e] \in Nat
    BY ThreadTypes DEF ReceiverInv
  <2>3. \A e \in Dongle :
          IF worker'[e] \in {"deliver", "assigned", "combined", "callback"}
            THEN since'[e] <= captured[e] ELSE since'[e] <= captured[e] + 1
    BY SMTT(20), <1>1, <1>2, <1>3, <1>4, <2>2 DEF ReceiverInv, Old
  <2>4. ~OldBegun(d)' /\ \A e \in Dongle \ {d} : /\ OldBegun(e)' = OldBegun(e)
                                                /\ OldBuffered(e)' = OldBuffered(e)
    BY <1>1, <1>2, <1>3, <1>4 DEF OldBegun, OldBuffered
  <2>5. stale = 2 => ~OldBuffered(d)'
    <3>1. stale = 2 => since[d] < captured[d]
      BY <1>1, <1>2, <1>3, <1>4 DEF ReceiverInv, Old, OldBegun
    <3>2. QED
      BY <1>3, <1>4, <3>1 DEF OldBuffered
  <2>6. Old'
    BY <1>1, <1>2, <1>4, <2>1, <2>3, <2>4, <2>5, ActiveAt DEF ReceiverInv, Old
  <2>7. QED
    BY <1>1, <2>6 DEF ReceiverInv, Rate, DecimatorKeepsRate
<1>10. QED
  BY <1>2, <1>6, <1>7, <1>8, <1>9 DEF ReceiverInv

\* Only the owner of m_mutex combines.
LEMMA OneOwner ==
  ASSUME ReceiverInv, NEW d \in Dongle, worker[d] \in {"assigned", "combined"}
  PROVE  /\ mutex = d /\ Len(devices) > 1 /\ Len(devices) # 1
         /\ \A e \in Dongle \ {d} : worker[e] \notin {"assigned", "combined", "callback"}
<1>1. Len(devices) > 1 /\ Len(devices) # 1
  BY ActiveAt DEF ReceiverInv, Owner
<1>2. QED
  BY <1>1 DEF ReceiverInv, Owner

LEMMA AfterBlockLabel ==
  ASSUME NEW d \in Dongle
  PROVE  AfterBlock(d) \in {"read", "loop"}
BY DEF AfterBlock

LEMMA CombineKeeps ==
  ASSUME ReceiverInv, NEW d \in Dongle, CombineBlocks(d)
  PROVE  ReceiverInv'
<1>1. /\ worker[d] = "assigned"
      /\ UNCHANGED <<driver, dev, devices, main, next, running, async, captured, buffers, tuner, since,
                     filter>>
  BY DEF CombineBlocks, setup, tuneVars
<1>2. /\ mutex = d /\ Len(devices) > 1 /\ Len(devices) # 1
      /\ \A e \in Dongle \ {d} : worker[e] \notin {"assigned", "combined", "callback"}
  BY <1>1, OneOwner
<1>3. ~Clearing
  BY <1>1, <1>2 DEF Clearing
<1>4. \A e \in Dongle : since[e] \in Nat /\ captured[e] \in Nat /\ buffers[e] \in Nat
  BY ThreadTypes DEF ReceiverInv
<1>5. RtlHardware(d) => async[d] \in {"running", "canceling"}
  BY <1>1 DEF ReceiverInv, Handover
<1>6. CASE \A e \in Active : buffers[e] > 0
  <2>1. taken' = buffers /\ stale' = Counted /\ GotoW(d, "combined") /\ mutex' = mutex
    BY <1>6 DEF CombineBlocks
  <2>2. /\ Opening' /\ Stopping' /\ Active' = Active /\ d \in Active
        /\ worker' \in [Dongle -> {"none", "begin", "loop", "read", "deliver", "assigned", "combined",
                               "callback", "ended"}]
        /\ worker'[d] = "combined" /\ \A e \in Dongle \ {d} : worker'[e] = worker[e]
        /\ \A e \in Dongle : RtlHardware(e)' = RtlHardware(e)
    BY <1>1, <2>1, WorkerStep DEF Labels
  <2>3. Owner'
    BY <1>1, <1>2, <2>1, <2>2 DEF ReceiverInv, Owner
  <2>4. Handover'
    <3>1. \A e \in Dongle : HandedOver(e)' = HandedOver(e)
      BY <1>1, <2>2 DEF HandedOver
    <3>2. QED
      BY <1>1, <2>2, <3>1 DEF ReceiverInv, Handover
  <2>5. \/ stale' = 0
        \/ /\ stale' = stale + 1 /\ tuner.state = "done"
           /\ \E e \in Active : OldBuffered(e)
    <3>1. \A e \in Active : taken'[e] <= since[e] => OldBuffered(e)
      BY <1>6, <2>1 DEF OldBuffered
    <3>2. QED
      BY <2>1, <3>1 DEF Counted
  <2>6. /\ stale \in Nat /\ stale <= 2
        /\ stale = 2 => ~\E e \in Active : OldBuffered(e)
        /\ stale >= 1 => \A e \in Active : ~OldBegun(e)
    BY <1>3, <1>6 DEF ReceiverInv, TypeOK, Old
  <2>7. /\ stale' \in Nat /\ stale' <= 2
        /\ stale' >= 1 => tuner.state = "done"
        /\ stale' = 2 => stale >= 1
    BY <2>5, <2>6
  <2>8. TypeOK'
    BY ZenonT(30), <1>1, <2>1, <2>2, <2>7, InvTyped DEF TypeOK
  <2>9. Old'
    <3>1. Clearing'
      BY <2>2 DEF Clearing
    <3>2. \A e \in Dongle : OldBegun(e)' => OldBegun(e)
      BY <1>1, <2>2 DEF OldBegun
    <3>3. \A e \in Dongle :
            IF worker'[e] \in {"deliver", "assigned", "combined", "callback"}
              THEN since[e] <= captured[e] ELSE since[e] <= captured[e] + 1
      BY <1>1, <2>2 DEF ReceiverInv, Old
    <3>4. stale' = 0 \/ stale' >= 1
      BY <2>7
    <3>5. QED
      BY <1>1, <1>2, <2>2, <2>6, <2>7, <3>1, <3>2, <3>3, <3>4, ActiveAt DEF ReceiverInv, Old
  <2>10. QED
    BY <1>1, <2>2, <2>3, <2>4, <2>8, <2>9 DEF ReceiverInv, Rate, DecimatorKeepsRate
<1>7. CASE ~\A e \in Active : buffers[e] > 0
  <2>1. mutex' = 0 /\ GotoW(d, AfterBlock(d)) /\ UNCHANGED <<taken, stale>>
    BY <1>7 DEF CombineBlocks
  <2>2. /\ Opening' /\ Stopping' /\ Active' = Active /\ d \in Active
        /\ worker' \in [Dongle -> {"none", "begin", "loop", "read", "deliver", "assigned", "combined",
                               "callback", "ended"}]
        /\ worker'[d] = AfterBlock(d) /\ \A e \in Dongle \ {d} : worker'[e] = worker[e]
        /\ \A e \in Dongle : RtlHardware(e)' = RtlHardware(e)
    BY <1>1, <2>1, WorkerStep, AfterBlockLabel DEF Labels
  <2>3. worker'[d] \in {"read", "loop"}
    BY <2>2, AfterBlockLabel
  <2>4. Owner'
    BY <1>2, <2>1, <2>2, <2>3, ThreadTypes DEF ReceiverInv, Owner
  <2>5. Handover'
    <3>1. \A e \in Dongle : HandedOver(e)' = HandedOver(e)
      BY <1>1, <2>2, <2>3 DEF HandedOver
    <3>2. QED
      BY <1>1, <1>5, <2>2, <2>3, <3>1 DEF ReceiverInv, Handover
  <2>6. TypeOK'
    BY ZenonT(30), <1>1, <2>1, <2>2, InvTyped DEF TypeOK
  <2>7. Old'
    <3>1. ~Clearing'
      BY <1>1, <1>2, <2>2, <2>3 DEF Clearing
    <3>2. \A e \in Dongle : OldBegun(e)' = OldBegun(e) /\ OldBuffered(e)' = OldBuffered(e)
      BY <1>1, <2>2, <2>3 DEF OldBegun, OldBuffered
    <3>3. \A e \in Dongle :
            IF worker'[e] \in {"deliver", "assigned", "combined", "callback"}
              THEN since[e] <= captured[e] ELSE since[e] <= captured[e] + 1
      BY <1>1, <1>4, <2>2, <2>3 DEF ReceiverInv, Old
    <3>4. QED
      BY <1>1, <1>3, <2>1, <2>2, <3>1, <3>2, <3>3, ActiveAt DEF ReceiverInv, Old
  <2>8. QED
    BY <1>1, <2>2, <2>4, <2>5, <2>6, <2>7 DEF ReceiverInv, Rate, DecimatorKeepsRate
<1>8. QED
  BY <1>6, <1>7

LEMMA CallBackKeeps ==
  ASSUME ReceiverInv, NEW d \in Dongle, CallBack(d)
  PROVE  ReceiverInv'
<1>1. /\ worker[d] = "combined" /\ buffers' = [e \in Dongle |-> 0] /\ GotoW(d, "callback")
      /\ UNCHANGED <<driver, dev, devices, main, next, running, async, captured, mutex, taken, stale,
                     tuner, since, filter>>
  BY DEF CallBack, ClearBuffers, setup, tuneVars
<1>2. /\ mutex = d /\ Len(devices) > 1 /\ Len(devices) # 1
      /\ \A e \in Dongle \ {d} : worker[e] \notin {"assigned", "combined", "callback"}
  BY <1>1, OneOwner
<1>3. /\ Opening' /\ Stopping' /\ Active' = Active /\ d \in Active
      /\ worker' \in [Dongle -> {"none", "begin", "loop", "read", "deliver", "assigned", "combined",
                             "callback", "ended"}]
      /\ worker'[d] = "callback" /\ \A e \in Dongle \ {d} : worker'[e] = worker[e]
      /\ \A e \in Dongle : RtlHardware(e)' = RtlHardware(e)
  BY <1>1, WorkerStep DEF Labels
<1>4. buffers' \in [Dongle -> 0 .. MaxBlock] /\ \A e \in Dongle : buffers'[e] = 0
  BY <1>1, ThreadTypes DEF ReceiverInv
<1>5. TypeOK'
  BY ZenonT(30), <1>1, <1>3, <1>4, InvTyped DEF TypeOK
<1>6. Owner'
  BY <1>1, <1>2, <1>3 DEF ReceiverInv, Owner
<1>7. Handover'
  <2>1. \A e \in Dongle : ~(buffers'[e] > 0)
    BY <1>4
  <2>2. QED
    BY <1>1, <1>3, <1>4, <2>1 DEF ReceiverInv, Handover
<1>8. Old'
  <2>1. \A e \in Dongle : ~OldBuffered(e)' /\ ~(buffers'[e] > 0)
    BY <1>4 DEF OldBuffered
  <2>2. \A e \in Dongle : OldBegun(e)' = OldBegun(e)
    BY <1>1, <1>3 DEF OldBegun
  <2>3. \A e \in Dongle :
          IF worker'[e] \in {"deliver", "assigned", "combined", "callback"}
            THEN since[e] <= captured[e] ELSE since[e] <= captured[e] + 1
    BY <1>1, <1>3 DEF ReceiverInv, Old
  <2>4. QED
    BY <1>1, <1>2, <1>3, <2>1, <2>2, <2>3, ActiveAt DEF ReceiverInv, Old
<1>9. QED
  BY <1>1, <1>3, <1>5, <1>6, <1>7, <1>8 DEF ReceiverInv, Rate, DecimatorKeepsRate

LEMMA EndKeeps ==
  ASSUME ReceiverInv, NEW d \in Dongle, EndCallback(d)
  PROVE  ReceiverInv'
<1>1. /\ worker[d] = "callback" /\ filter' = Decimated(filter, SetSize)
      /\ mutex' = (IF mutex = d THEN 0 ELSE mutex) /\ GotoW(d, AfterBlock(d))
      /\ UNCHANGED <<driver, dev, devices, main, next, running, async, captured, buffers, taken, stale,
                     tuner, since>>
  BY DEF EndCallback, setup
<1>2. /\ Opening' /\ Stopping' /\ Active' = Active /\ d \in Active
      /\ worker' \in [Dongle -> {"none", "begin", "loop", "read", "deliver", "assigned", "combined",
                             "callback", "ended"}]
      /\ worker'[d] = AfterBlock(d) /\ \A e \in Dongle \ {d} : worker'[e] = worker[e]
      /\ \A e \in Dongle : RtlHardware(e)' = RtlHardware(e)
  BY <1>1, WorkerStep, AfterBlockLabel DEF Labels
<1>3. worker'[d] \in {"read", "loop"}
  BY <1>2, AfterBlockLabel
<1>4. Rate'
  <2>1. SetSize \in Nat
    BY <1>2, ActiveAt, SetSizeNat DEF ReceiverInv
  <2>2. QED
    BY <1>1, <2>1, DecimatedRate DEF ReceiverInv, Rate, DecimatorKeepsRate
<1>5. mutex' \in Dongle \cup {0}
  BY <1>1, ThreadTypes DEF ReceiverInv
<1>6. TypeOK'
  <2>1. filter'.phase \in 0 .. Decimation - 1
    BY <1>4 DEF Rate
  <2>2. QED
    BY ZenonT(30), <1>1, <1>2, <1>5, <2>1, InvTyped DEF TypeOK
<1>7. Owner'
  BY <1>1, <1>2, <1>3, ThreadTypes DEF ReceiverInv, Owner
<1>8. RtlHardware(d) => async[d] \in {"running", "canceling"}
  BY <1>1 DEF ReceiverInv, Handover
<1>9. Handover'
  <2>1. \A e \in Dongle : HandedOver(e)' = HandedOver(e)
    BY <1>1, <1>2, <1>3 DEF HandedOver
  <2>2. QED
    BY <1>1, <1>2, <1>3, <1>8, <2>1 DEF ReceiverInv, Handover
<1>10. Old'
  <2>1. Clearing' = Clearing
    BY <1>1, <1>2, <1>3 DEF Clearing
  <2>2. \A e \in Dongle : OldBegun(e)' = OldBegun(e) /\ OldBuffered(e)' = OldBuffered(e)
    BY <1>1, <1>2, <1>3 DEF OldBegun, OldBuffered
  <2>3. \A e \in Dongle : since[e] \in Nat /\ captured[e] \in Nat
    BY ThreadTypes DEF ReceiverInv
  <2>4. \A e \in Dongle :
          IF worker'[e] \in {"deliver", "assigned", "combined", "callback"}
            THEN since[e] <= captured[e] ELSE since[e] <= captured[e] + 1
    BY <1>1, <1>2, <1>3, <2>3 DEF ReceiverInv, Old
  <2>5. QED
    BY <1>1, <1>2, <2>1, <2>2, <2>4, ActiveAt DEF ReceiverInv, Old
<1>11. QED
  BY <1>2, <1>4, <1>6, <1>7, <1>9, <1>10 DEF ReceiverInv

-----------------------------------------------------------------------------
(* A retune.                                                               *)

LEMMA RetuneKeeps ==
  ASSUME ReceiverInv, BeginRetune \/ Retune
  PROVE  ReceiverInv'
<1>1. /\ UNCHANGED <<driver, dev, devices, main, next, running, worker, async, captured, mutex, buffers,
                     taken, stale>>
      /\ tuner.state # "done" /\ main # "open"
  BY DEF BeginRetune, Retune, TuneDongle, ResetFilter, ReceiverInv, Opening, setup, threadVars, channelVars
<1>2. stale = 0
  BY <1>1 DEF ReceiverInv, Old
<1>3. /\ Owner' /\ Active' = Active
      /\ \A e \in Dongle : RtlHardware(e)' = RtlHardware(e) /\ HandedOver(e)' = HandedOver(e)
  BY <1>1 DEF ReceiverInv, Owner, Active, RtlHardware, Real, HandedOver
<1>4. tuner' \in [state : {"none", "tuning", "done"}, at : 0 .. Dongles + 1, by : Dongle \cup {0}]
  <2>1. tuner \in [state : {"none", "tuning", "done"}, at : 0 .. Dongles + 1, by : Dongle \cup {0}]
        /\ Dongles \in Nat \ {0} /\ Len(devices) \in Nat /\ Len(devices) <= Dongles
    BY ReceiverAssumption, ActiveAt DEF ReceiverInv, TypeOK, Opening
  <2>2. CASE BeginRetune
    <3>1. PICK by \in Dongle \cup {0} : tuner' = [state |-> "tuning", at |-> 1, by |-> by]
      BY <2>2, ActiveAt DEF BeginRetune, ReceiverInv
    <3>2. 1 \in 0 .. Dongles + 1
      BY <2>1
    <3>3. QED
      BY <3>1, <3>2
  <2>3. CASE TuneDongle
    <3>1. tuner' = [tuner EXCEPT !.at = @ + 1] /\ tuner.at <= Len(devices)
      BY <2>3 DEF TuneDongle
    <3>2. tuner.at + 1 \in 0 .. Dongles + 1
      BY <2>1, <3>1
    <3>3. QED
      BY <2>1, <3>1, <3>2
  <2>4. CASE ResetFilter
    <3>1. tuner' = [state |-> "done", at |-> 0, by |-> 0] /\ 0 \in 0 .. Dongles + 1
      BY <2>1, <2>4 DEF ResetFilter
    <3>2. QED
      BY <3>1
  <2>5. QED
    BY <2>2, <2>3, <2>4 DEF Retune
<1>5. /\ since' \in [Dongle -> 0 .. MaxBlock + 1]
      /\ \A d \in Dongle :
           IF worker[d] \in {"deliver", "assigned", "combined", "callback"}
             THEN since'[d] <= captured[d] ELSE since'[d] <= captured[d] + 1
  <2>1. CASE TuneDongle
    <3>. DEFINE d == devices[tuner.at]
                begun == captured[d] + IF worker[d] = "read" THEN 1 ELSE 0
    <3>1. since' = [since EXCEPT ![d] = begun] \/ since' = since
      BY <2>1 DEF TuneDongle
    <3>2. \A e \in Dongle : captured[e] \in 0 .. MaxBlock
      BY ThreadTypes DEF ReceiverInv
    <3>3. d \in Dongle => begun \in 0 .. MaxBlock + 1
      BY <3>2, ThreadTypes DEF ReceiverInv
    <3>. HIDE DEF d
    <3>4. CASE since' = [since EXCEPT ![d] = begun]
      <4>1. since \in [Dongle -> 0 .. MaxBlock + 1]
        BY ThreadTypes DEF ReceiverInv
      <4>2. ASSUME NEW e \in Dongle, e = d
            PROVE  /\ since'[e] \in 0 .. MaxBlock + 1
                   /\ since'[e] = captured[e] + IF worker[e] = "read" THEN 1 ELSE 0
        <5>1. since'[e] = begun
          BY <3>4, <4>1, <4>2
        <5>2. QED
          BY <3>3, <4>2, <5>1
      <4>3. ASSUME NEW e \in Dongle, e # d PROVE since'[e] = since[e]
        BY <3>4, <4>1, <4>3
      <4>4. since' \in [Dongle -> 0 .. MaxBlock + 1]
        <5>1. DOMAIN since' = Dongle /\ since' = [e \in Dongle |-> since'[e]]
          BY <3>4, <4>1
        <5>2. \A e \in Dongle : since'[e] \in 0 .. MaxBlock + 1
          BY <4>1, <4>2, <4>3
        <5>3. QED
          BY <5>1, <5>2
      <4>5. ASSUME NEW e \in Dongle
            PROVE  IF worker[e] \in {"deliver", "assigned", "combined", "callback"}
                     THEN since'[e] <= captured[e] ELSE since'[e] <= captured[e] + 1
        <5>1. CASE e = d
          BY <3>2, <4>2, <5>1
        <5>2. CASE e # d
          BY <4>3, <5>2 DEF ReceiverInv, Old
        <5>3. QED
          BY <5>1, <5>2
      <4>6. QED
        BY <4>4, <4>5
    <3>5. CASE since' = since
      BY <3>5, ThreadTypes DEF ReceiverInv, Old
    <3>6. QED
      BY <3>1, <3>4, <3>5
  <2>2. CASE UNCHANGED since
    BY <2>2, ThreadTypes DEF ReceiverInv, Old
  <2>3. QED
    BY <2>1, <2>2 DEF BeginRetune, Retune, ResetFilter
<1>6. Rate'
  <2>1. filter' = filter \/ filter' = Fresh
    BY DEF BeginRetune, Retune, TuneDongle, ResetFilter
  <2>2. CASE filter' = filter
    BY <2>2 DEF ReceiverInv, Rate, DecimatorKeepsRate
  <2>3. CASE filter' = Fresh
    <3>1. 0 % Decimation = 0 /\ (0 + Decimation - 1) \div Decimation = 0 /\ 0 \in 0 .. Decimation - 1
      BY ReceiverAssumption
    <3>2. QED
      BY <2>3, <3>1 DEF Rate, DecimatorKeepsRate, Fresh
  <2>4. QED
    BY <2>1, <2>2, <2>3
<1>7. TypeOK'
  <2>1. filter'.phase \in 0 .. Decimation - 1
    BY <1>6 DEF Rate
  <2>2. QED
    BY <1>1, <1>3, <1>4, <1>5, <2>1 DEF ReceiverInv, TypeOK
<1>8. Opening' /\ Stopping'
  BY <1>1, <1>3 DEF ReceiverInv, Opening, Stopping
<1>9. Handover'
  BY <1>1, <1>3 DEF ReceiverInv, Handover
<1>10. Old'
  BY <1>1, <1>2, <1>5 DEF Old
<1>11. QED
  BY <1>3, <1>6, <1>7, <1>8, <1>9, <1>10 DEF ReceiverInv

-----------------------------------------------------------------------------
LEMMA ReceiverNext == ReceiverInv /\ [Next]_vars => ReceiverInv'
<1>. SUFFICES ASSUME ReceiverInv, [Next]_vars PROVE ReceiverInv'
  OBVIOUS
<1>1. CASE Main \/ Signal
  BY <1>1, OpenKeeps, StartKeeps, StopKeeps, JoinKeeps, CloseKeeps, SignalKeeps DEF Main
<1>2. CASE BeginRetune \/ Retune
  BY <1>2, RetuneKeeps
<1>3. ASSUME NEW d \in Dongle,
             Work(d) \/ Capture(d) \/ TimeOut(d) \/ StreamEnds(d) \/ AssignBlock(d)
      PROVE  ReceiverInv'
  BY <1>3, BetweenKeeps, CaptureKeeps, AloneKeeps, AssignKeeps, CombineKeeps, CallBackKeeps, EndKeeps
  DEF Work
<1>4. CASE UNCHANGED vars
  <2>1. UNCHANGED <<driver, dev, devices, main, next, running, worker, async, captured, mutex, buffers,
                    taken, stale, tuner, since, filter>>
    BY <1>4 DEF vars, setup, threadVars, channelVars, tuneVars
  <2>2. TypeOK'
    <3>1. Active' = Active
      BY <2>1 DEF Active
    <3>2. QED
      BY ZenonT(30), <2>1, <3>1, InvTyped DEF TypeOK
  <2>3. Opening' /\ Stopping' /\ Handover'
    BY <2>1, WorkersSame DEF ReceiverInv, Opening, Stopping, Handover
  <2>4. QED
    BY <2>1, <2>2, <2>3, WorkersSame DEF ReceiverInv
<1>5. QED
  BY <1>1, <1>2, <1>3, <1>4 DEF Next

LEMMA ReceiverSafe == Spec => []ReceiverInv
BY ReceiverInit, ReceiverNext, PTL DEF Spec

-----------------------------------------------------------------------------
(* The properties.                                                         *)

\* Every variable keeps its type; the loops of open, start and stop never leave
\* m_devices, however many dongles open.
THEOREM ReceiverTypeCorrect == Spec => []TypeOK
<1>1. ReceiverInv => TypeOK
  BY DEF ReceiverInv
<1>2. QED
  BY <1>1, ReceiverSafe, PTL

\* The sample callback is never run by two workers at once, with one dongle
\* because there is one worker and with more because of m_mutex.
THEOREM ReceiverOneCallback == Spec => []OneCallbackAtATime
<1>1. ASSUME ReceiverInv PROVE OneCallbackAtATime
  <2>. SUFFICES ASSUME NEW d \in Dongle, NEW e \in Dongle,
                       worker[d] = "callback", worker[e] = "callback"
                PROVE  d = e
    BY DEF OneCallbackAtATime
  <2>1. CASE Len(devices) > 1
    BY <1>1, <2>1 DEF ReceiverInv, Owner
  <2>2. CASE ~(Len(devices) > 1)
    <3>1. d \in Active /\ e \in Active
      BY <1>1 DEF ReceiverInv, Stopping
    <3>2. Len(devices) = 1
      <4>1. PICK i \in 1 .. Len(devices) : d = devices[i]
        BY <1>1, <3>1, ActiveAt DEF ReceiverInv
      <4>2. Len(devices) \in Nat
        BY <1>1 DEF ReceiverInv, TypeOK
      <4>. DEFINE n == Len(devices)
      <4>3. n \in Nat /\ ~(n > 1) /\ i \in 1 .. n
        BY <2>2, <4>1, <4>2
      <4>. HIDE DEF n
      <4>4. n = 1
        BY <4>3
      <4>5. QED
        BY <4>4 DEF n
    <3>3. QED
      BY <1>1, <3>1, <3>2, AloneActive DEF ReceiverInv
  <2>3. QED
    BY <2>1, <2>2
<1>2. QED
  BY <1>1, ReceiverSafe, PTL

\* After DiversityReceiver::stop no worker of any dongle runs, and after close
\* the libraries of the drivers that can be closed have nothing open.
THEOREM ReceiverQuietAfterStop == Spec => []QuietAfterStop
<1>1. ASSUME ReceiverInv PROVE QuietAfterStop
  <2>1. ASSUME main \in {"close", "closed"}, NEW d \in Dongle
        PROVE  worker[d] \in {"none", "ended"}
    BY <1>1, <2>1 DEF ReceiverInv, Stopping
  <2>2. ASSUME main = "closed", driver # "sdrplay", NEW d \in Dongle
        PROVE  ~dev[d].handle
    <3>1. Active = {}
      BY <1>1, <2>2 DEF ReceiverInv, Opening, Active
    <3>2. dev[d] = NoDevice
      BY <1>1, <2>2, <3>1 DEF ReceiverInv, TypeOK
    <3>3. QED
      BY <3>2 DEF NoDevice
  <2>3. QED
    BY <2>1, <2>2 DEF QuietAfterStop
<1>2. QED
  BY <1>1, ReceiverSafe, PTL

\* At most two sets in a row still have samples of before the retune, for any
\* number of dongles and wherever their blocks are when they are retuned.
THEOREM ReceiverRetuneTakesEffect == Spec => []RetuneTakesEffect
<1>1. ReceiverInv => RetuneTakesEffect
  BY DEF ReceiverInv, Old, RetuneTakesEffect
<1>2. QED
  BY <1>1, ReceiverSafe, PTL

\* The channel filter keeps its rate over blocks of any size.
THEOREM ReceiverDecimatorKeepsRate == Spec => []DecimatorKeepsRate
<1>1. ReceiverInv => DecimatorKeepsRate
  BY DEF ReceiverInv, Rate
<1>2. QED
  BY <1>1, ReceiverSafe, PTL

\* Every set that is given to the callback has the newest block of every dongle.
THEOREM ReceiverCombinesNewest == Spec => CombinesNewest
<1>. DEFINE Newest == taken' # taken => \A d \in Active : taken'[d] = HandedOver(d)'
<1>1. ASSUME ReceiverInv, [Next]_vars PROVE [Newest]_vars
  <2>. SUFFICES ASSUME taken' # taken, NEW d \in Active PROVE taken'[d] = HandedOver(d)'
    OBVIOUS
  <2>. d \in Dongle
    BY <1>1, ActiveAt DEF ReceiverInv
  <2>1. ASSUME NEW e \in Dongle, DeliverAlone(e) PROVE taken'[d] = HandedOver(d)'
    <3>1. /\ worker[e] = "deliver" /\ Len(devices) = 1
          /\ taken' = [taken EXCEPT ![e] = captured[e]]
          /\ worker' = [worker EXCEPT ![e] = "callback"] /\ UNCHANGED captured
      BY <2>1 DEF DeliverAlone, GotoW
    <3>2. e = d
      BY <1>1, <3>1, AloneActive DEF ReceiverInv, Stopping
    <3>3. QED
      BY <1>1, <3>1, <3>2, ThreadTypes DEF ReceiverInv, HandedOver
  <2>2. ASSUME NEW e \in Dongle, CombineBlocks(e) PROVE taken'[d] = HandedOver(d)'
    <3>1. /\ worker[e] = "assigned" /\ taken' = buffers /\ buffers[d] > 0
          /\ worker' = [worker EXCEPT ![e] = "combined"] /\ UNCHANGED captured
      BY <2>2 DEF CombineBlocks, GotoW
    <3>2. HandedOver(d)' = HandedOver(d)
      BY <1>1, <3>1, ThreadTypes DEF ReceiverInv, HandedOver
    <3>3. QED
      BY <1>1, <3>1, <3>2 DEF ReceiverInv, Handover
  <2>3. \E e \in Dongle : DeliverAlone(e) \/ CombineBlocks(e)
    BY <1>1
    DEF Next, Main, OpenDongle, StartDongle, StopDongle, JoinWorker, Close, Signal, BeginRetune, Retune,
        TuneDongle, ResetFilter, Work, Begin, Loop, CallBack, EndCallback, Capture, TimeOut, StreamEnds,
        AssignBlock, vars, channelVars
  <2>4. QED
    BY <2>1, <2>2, <2>3
<1>2. QED
  BY <1>1, ReceiverSafe, PTL DEF Spec, CombinesNewest

-----------------------------------------------------------------------------
(* The combiner.  Its sums are folds, and a fold goes step by step.         *)

Powers == INSTANCE FoldLemmas WITH Op <- LAMBDA p, s, z : s + z[1] * z[1] + z[2] * z[2]
Sums == INSTANCE FoldLemmas WITH Op <- LAMBDA p, x, y : Combiner!Sum2(x, y)
Weights == INSTANCE FoldLemmas WITH Op <- LAMBDA p, s, w : s + w
Shortest == INSTANCE FoldLemmas WITH Op <- LAMBDA p, n, b : IF Len(b) < n THEN Len(b) ELSE n

\* The power and the correlation are the folds of the lemmas.
LEMMA CombinerFolds ==
  /\ \A data : Combiner!Power(data) = Powers!Fold(0, 0, data)
  /\ \A ref, data : Combiner!CrossCorrelation(ref, data) =
       Sums!Fold(0, <<0, 0>>, [i \in 1 .. Len(data) |-> Combiner!CrossProduct(ref[i], data[i])])
<1>1. \A data : Combiner!Power(data) = Powers!Fold(0, 0, data)
  BY Zenon DEF Combiner!Power, Combiner!FoldLeft, Combiner!MapThenFoldSet, Combiner!Max,
     Powers!Fold, Powers!FoldLeft, Powers!MapThenFoldSet, Powers!Max
<1>2. \A ref, data : Combiner!CrossCorrelation(ref, data) =
       Sums!Fold(0, <<0, 0>>, [i \in 1 .. Len(data) |-> Combiner!CrossProduct(ref[i], data[i])])
  BY Zenon DEF Combiner!CrossCorrelation, Combiner!FoldLeft, Combiner!MapThenFoldSet, Combiner!Max,
     Sums!Fold, Sums!FoldLeft, Sums!MapThenFoldSet, Sums!Max
<1>. QED
  BY <1>1, <1>2

-----------------------------------------------------------------------------
(* Quarter turns.                                                           *)

Vector == Int \X Int
Unit == {<<1, 0>>, <<0, 1>>, <<-1, 0>>, <<0, -1>>}
Quarters == 0 .. 3

\* The coordinates of vectors.
LEMMA Coordinates ==
  /\ \A x \in Vector : x[1] \in Int /\ x[2] \in Int /\ x = <<x[1], x[2]>>
  /\ \A m, n \in Int : <<m, n>> \in Vector /\ <<m, n>>[1] = m /\ <<m, n>>[2] = n
  /\ Unit \subseteq Vector
BY DEF Vector, Unit

\* What a turn is.
LEMMA TurnedIs ==
  ASSUME NEW x, NEW q \in Int
  PROVE  /\ q % 4 = 0 => Combiner!Turned(x, q) = x
         /\ q % 4 = 1 => Combiner!Turned(x, q) = <<-x[2], x[1]>>
         /\ q % 4 = 2 => Combiner!Turned(x, q) = <<-x[1], -x[2]>>
         /\ q % 4 = 3 => Combiner!Turned(x, q) = <<x[2], -x[1]>>
         /\ q % 4 \in Quarters
BY DEF Combiner!Turned, Quarters

LEMMA TurnedTyped ==
  /\ \A x \in Vector, q \in Int : Combiner!Turned(x, q) \in Vector
  /\ \A u \in Unit, q \in Int : Combiner!Turned(u, q) \in Unit
<1>1. ASSUME NEW x \in Vector, NEW q \in Int PROVE Combiner!Turned(x, q) \in Vector
  <2>1. x[1] \in Int /\ x[2] \in Int
    BY Coordinates
  <2>2. -x[1] \in Int /\ -x[2] \in Int
    BY <2>1
  <2>3. q % 4 = 0 \/ q % 4 = 1 \/ q % 4 = 2 \/ q % 4 = 3
    OBVIOUS
  <2>. QED
    BY <2>1, <2>2, <2>3, TurnedIs, Coordinates
<1>2. ASSUME NEW u \in Unit, NEW q \in Int PROVE Combiner!Turned(u, q) \in Unit
  <2>1. q % 4 = 0 \/ q % 4 = 1 \/ q % 4 = 2 \/ q % 4 = 3
    OBVIOUS
  <2>. QED
    BY <2>1, TurnedIs DEF Unit
<1>. QED
  BY <1>1, <1>2

\* Scaling commutes with turns and composes; sums of multiples are multiples.
LEMMA ScaledLaws ==
  /\ \A k \in Int, x \in Vector : Combiner!Scaled(k, x) \in Vector
  /\ \A k \in Int, x \in Vector, q \in Int :
       Combiner!Turned(Combiner!Scaled(k, x), q) = Combiner!Scaled(k, Combiner!Turned(x, q))
  /\ \A k, m \in Int, x \in Vector :
       Combiner!Scaled(k, Combiner!Scaled(m, x)) = Combiner!Scaled(k * m, x)
  /\ \A k, m \in Int, x \in Vector :
       Combiner!Sum2(Combiner!Scaled(k, x), Combiner!Scaled(m, x)) = Combiner!Scaled(k + m, x)
  /\ \A x \in Vector : Combiner!Scaled(0, x) = <<0, 0>>
<1>0. \A x \in Vector : x[1] \in Int /\ x[2] \in Int
  BY Coordinates
<1>1. \A k, m \in Int : k * m \in Int
  OBVIOUS
<1>2. \A k \in Int, x \in Vector :
         /\ Combiner!Scaled(k, x) \in Vector
         /\ Combiner!Scaled(k, x)[1] = k * x[1] /\ Combiner!Scaled(k, x)[2] = k * x[2]
  BY <1>0, <1>1, Coordinates, Zenon DEF Combiner!Scaled
<1>3. ASSUME NEW k \in Int, NEW x \in Vector, NEW q \in Int
      PROVE  Combiner!Turned(Combiner!Scaled(k, x), q) = Combiner!Scaled(k, Combiner!Turned(x, q))
  <2>1. q % 4 = 0 \/ q % 4 = 1 \/ q % 4 = 2 \/ q % 4 = 3
    OBVIOUS
  <2>2. k * (-x[1]) = -(k * x[1]) /\ k * (-x[2]) = -(k * x[2])
    BY <1>0
  <2>. DEFINE y == Combiner!Scaled(k, x)
  <2>7. y[1] = k * x[1] /\ y[2] = k * x[2]
    BY <1>2, Zenon
  <2>. HIDE DEF y
  <2>3. CASE q % 4 = 0
    BY <2>3, TurnedIs, Zenon DEF y
  <2>4. CASE q % 4 = 1
    <3>1. /\ Combiner!Turned(y, q) = <<-y[2], y[1]>>
          /\ Combiner!Turned(x, q) = <<-x[2], x[1]>>
      BY <2>4, TurnedIs, Zenon
    <3>2. Combiner!Scaled(k, <<-x[2], x[1]>>) = <<k * (-x[2]), k * x[1]>>
      BY DEF Combiner!Scaled
    <3>. QED
      BY <2>2, <2>7, <3>1, <3>2, Zenon DEF y
  <2>5. CASE q % 4 = 2
    <3>1. /\ Combiner!Turned(y, q) = <<-y[1], -y[2]>>
          /\ Combiner!Turned(x, q) = <<-x[1], -x[2]>>
      BY <2>5, TurnedIs, Zenon
    <3>2. Combiner!Scaled(k, <<-x[1], -x[2]>>) = <<k * (-x[1]), k * (-x[2])>>
      BY DEF Combiner!Scaled
    <3>. QED
      BY <2>2, <2>7, <3>1, <3>2, Zenon DEF y
  <2>6. CASE q % 4 = 3
    <3>1. /\ Combiner!Turned(y, q) = <<y[2], -y[1]>>
          /\ Combiner!Turned(x, q) = <<x[2], -x[1]>>
      BY <2>6, TurnedIs, Zenon
    <3>2. Combiner!Scaled(k, <<x[2], -x[1]>>) = <<k * x[2], k * (-x[1])>>
      BY DEF Combiner!Scaled
    <3>. QED
      BY <2>2, <2>7, <3>1, <3>2, Zenon DEF y
  <2>. QED
    BY <2>1, <2>3, <2>4, <2>5, <2>6
<1>4. ASSUME NEW k \in Int, NEW m \in Int, NEW x \in Vector
      PROVE  /\ Combiner!Scaled(k, Combiner!Scaled(m, x)) = Combiner!Scaled(k * m, x)
             /\ Combiner!Sum2(Combiner!Scaled(k, x), Combiner!Scaled(m, x)) = Combiner!Scaled(k + m, x)
  <2>1. \A i \in Int : k * (m * i) = (k * m) * i /\ k * i + m * i = (k + m) * i
    OBVIOUS
  <2>2. Combiner!Scaled(k, Combiner!Scaled(m, x)) = <<k * (m * x[1]), k * (m * x[2])>>
    BY <1>2, Zenon DEF Combiner!Scaled
  <2>3. Combiner!Sum2(Combiner!Scaled(k, x), Combiner!Scaled(m, x)) =
           <<k * x[1] + m * x[1], k * x[2] + m * x[2]>>
    BY <1>2, Zenon DEF Combiner!Sum2
  <2>. QED
    BY <1>0, <2>1, <2>2, <2>3, Zenon DEF Combiner!Scaled
<1>5. ASSUME NEW x \in Vector PROVE Combiner!Scaled(0, x) = <<0, 0>>
  BY <1>0 DEF Combiner!Scaled
<1>. QED
  BY <1>2, <1>3, <1>4, <1>5, Zenon

\* The angle between two turns of one direction, and that turning by it aligns
\* them.
LEMMA Angles ==
  ASSUME NEW u \in Unit, NEW p \in Quarters, NEW q \in Quarters
  PROVE  /\ Combiner!TimesConj(Combiner!Turned(u, p), Combiner!Turned(u, q))
              = Combiner!Turned(<<1, 0>>, p - q)
         /\ Combiner!Turned(Combiner!Turned(u, q), (p - q) % 4) = Combiner!Turned(u, p)
<1>1. /\ p = 0 \/ p = 1 \/ p = 2 \/ p = 3
      /\ q = 0 \/ q = 1 \/ q = 2 \/ q = 3
  BY DEF Quarters
<1>2. Combiner!TimesConj(Combiner!Turned(u, p), Combiner!Turned(u, q))
        = Combiner!Turned(<<1, 0>>, p - q)
  BY <1>1 DEF Combiner!TimesConj, Combiner!Turned, Unit
<1>3. Combiner!Turned(Combiner!Turned(u, q), (p - q) % 4) = Combiner!Turned(u, p)
  BY <1>1 DEF Combiner!Turned, Unit
<1>. QED
  BY <1>2, <1>3

-----------------------------------------------------------------------------
(* Multiples and squares.                                                   *)

LEMMA MultipleDivided ==
  ASSUME NEW n \in Nat \ {0}, NEW m \in Nat
  PROVE  (n * m) \div n = m
<1>. DEFINE a == n * m
            q == a \div n
            r == a % n
<1>1. a \in Nat
  OBVIOUS
<1>2. r \in 0 .. n - 1 /\ q \in Nat /\ a = n * q + r
  <2>. HIDE DEF a
  <2>1. a % n \in 0 .. n - 1 /\ a \div n \in Nat /\ a = n * (a \div n) + (a % n)
    BY <1>1
  <2>. QED
    BY <2>1
<1>3. q = m
  <2>. HIDE DEF q, r
  <2>1. n * m = n * q + r /\ q \in Nat /\ r \in Nat /\ r < n
    BY <1>2
  <2>2. CASE q < m
    <3>1. PICK k \in Nat : m = q + 1 + k
      <4>1. m = q + 1 + (m - q - 1) /\ m - q - 1 \in Nat
        BY <2>1, <2>2
      <4>. QED
        BY <4>1, Zenon
    <3>2. n * (q + 1 + k) = n * q + n + n * k /\ n * k \in Nat /\ n * q \in Nat
      <4>1. n \in Int /\ q \in Int /\ k \in Int
        BY <2>1, <3>1
      <4>2. \A i, j, l \in Int : i * (j + 1 + l) = i * j + i + i * l
        OBVIOUS
      <4>3. \A i, j \in Nat : i * j \in Nat
        OBVIOUS
      <4>. QED
        BY <2>1, <3>1, <4>1, <4>2, <4>3
    <3>. DEFINE x == n * q
                y == n * k
    <3>3. x + r = x + n + y /\ x \in Nat /\ y \in Nat
      BY <2>1, <3>1, <3>2
    <3>. HIDE DEF x, y
    <3>. QED
      BY <2>1, <3>3
  <2>3. CASE m < q
    <3>1. PICK k \in Nat : q = m + 1 + k
      <4>1. q = m + 1 + (q - m - 1) /\ q - m - 1 \in Nat
        BY <2>1, <2>3
      <4>. QED
        BY <4>1, Zenon
    <3>2. n * (m + 1 + k) = n * m + n + n * k /\ n * k \in Nat /\ n * m \in Nat
      <4>1. n \in Int /\ m \in Int /\ k \in Int
        BY <3>1
      <4>2. \A i, j, l \in Int : i * (j + 1 + l) = i * j + i + i * l
        OBVIOUS
      <4>3. \A i, j \in Nat : i * j \in Nat
        OBVIOUS
      <4>. QED
        BY <3>1, <4>1, <4>2, <4>3
    <3>. DEFINE x == n * m
                y == n * k
    <3>3. x = (x + n + y) + r /\ x \in Nat /\ y \in Nat
      BY <2>1, <3>1, <3>2
    <3>. HIDE DEF x, y
    <3>. QED
      BY <2>1, <3>3
  <2>. QED
    BY <2>1, <2>2, <2>3
<1>. QED
  BY <1>3

\* Multiples of squares are in the order of what is squared.
LEMMA SquaresInOrder ==
  ASSUME NEW n \in Nat \ {0}, NEW a \in Nat, NEW b \in Nat
  PROVE  /\ n * (a * a) < n * (b * b) <=> a < b
         /\ n * (a * a) <= n * (b * b) <=> a <= b
<1>1. ASSUME NEW x \in Nat, NEW y \in Nat, x < y
      PROVE  x * x < y * y /\ n * (x * x) < n * (y * y) /\ n * (x * x) \in Nat /\ n * (y * y) \in Nat
  <2>1. PICK k \in Nat : y = x + 1 + k
    <3>1. y = x + 1 + (y - x - 1) /\ y - x - 1 \in Nat
      BY <1>1
    <3>. QED
      BY <3>1, Zenon
  <2>2. PICK d \in Nat : y * y = x * x + 1 + d
    <3>1. (x + 1 + k) * (x + 1 + k) = x * x + 1 + (2 * x + 2 * k + 2 * (x * k) + k * k)
      OBVIOUS
    <3>2. 2 * x + 2 * k + 2 * (x * k) + k * k \in Nat
      <4>1. x * k \in Nat /\ k * k \in Nat
        OBVIOUS
      <4>. QED
        BY <4>1
    <3>. QED
      BY <2>1, <3>1, <3>2, Zenon
  <2>. DEFINE s == x * x
              t == y * y
  <2>3. s \in Nat /\ t = s + 1 + d
    BY <2>2
  <2>. HIDE DEF s, t
  <2>4. n * (s + 1 + d) = n * s + n + n * d /\ n * s \in Nat /\ n * d \in Nat
    <3>1. \A i, j \in Nat : i * j \in Nat
      OBVIOUS
    <3>2. n * (s + 1 + d) = n * s + n + n * d
      BY <2>3
    <3>. QED
      BY <2>3, <3>1, <3>2
  <2>. DEFINE ns == n * s
              nd == n * d
              nt == n * t
  <2>5. nt = ns + n + nd /\ ns \in Nat /\ nd \in Nat
    BY <2>3, <2>4
  <2>. HIDE DEF ns, nd, nt
  <2>6. ns < nt /\ nt \in Nat /\ s < t
    BY <2>3, <2>5
  <2>. QED
    BY <2>5, <2>6 DEF ns, nt, s, t
<1>2. a < b \/ a = b \/ b < a
  OBVIOUS
<1>3. n * (a * a) \in Nat /\ n * (b * b) \in Nat
  <2>1. \A i, j \in Nat : i * j \in Nat
    OBVIOUS
  <2>. QED
    BY <2>1
<1>. DEFINE na == n * (a * a)
            nb == n * (b * b)
<1>4. /\ a < b => na < nb
      /\ b < a => nb < na
      /\ a = b => na = nb
      /\ na \in Nat /\ nb \in Nat
  BY <1>1, <1>3
<1>. HIDE DEF na, nb
<1>5. (na < nb <=> a < b) /\ (na <= nb <=> a <= b)
  BY <1>2, <1>4
<1>. QED
  BY <1>5 DEF na, nb

\* The square root is unique.
LEMMA RootIs ==
  ASSUME NEW a \in Nat \ {0}
  PROVE  (CHOOSE r \in 1 .. a * a : r * r = a * a) = a
<1>1. a \in 1 .. a * a
  <2>1. a * a \in Nat /\ a <= a * a
    OBVIOUS
  <2>. QED
    BY <2>1
<1>2. ASSUME NEW r \in 1 .. a * a, r * r = a * a PROVE r = a
  <2>1. r \in Nat /\ a \in Nat
    BY <1>1
  <2>2. 1 * (r * r) = 1 * (a * a)
    BY <1>2, Zenon
  <2>3. /\ 1 * (r * r) < 1 * (a * a) <=> r < a
        /\ 1 * (a * a) < 1 * (r * r) <=> a < r
    BY <2>1, SquaresInOrder
  <2>4. 1 * (r * r) \in Int /\ 1 * (a * a) \in Int
    BY <2>1
  <2>. DEFINE x == 1 * (r * r)
              y == 1 * (a * a)
  <2>5. x = y /\ x \in Int /\ (x < y <=> r < a) /\ (y < x <=> a < r)
    BY <2>2, <2>3, <2>4
  <2>. HIDE DEF x, y
  <2>. QED
    BY <2>1, <2>5
<1>. QED
  BY <1>1, <1>2, Zenon

-----------------------------------------------------------------------------
(* One channel: the samples of a block that are combined.                   *)

\* Those of what a dongle hears.
Clip(a, p) == [i \in 1 .. Count |-> Combiner!Scaled(a, Combiner!Turned(Wave[i], p))]

LEMMA WaveIs ==
  /\ Len(Wave) \in Nat \ {0} /\ Count \in Nat \ {0}
  /\ Count = IF Len(Wave) < Capacity THEN Len(Wave) ELSE Capacity
  /\ 1 .. Count \subseteq 1 .. Len(Wave)
  /\ \A i \in 1 .. Len(Wave) : Wave[i] \in Unit
<1>1. Wave \in Seq(Unit) /\ Wave # <<>> /\ Capacity \in Nat \ {0}
  BY SignalAssumption DEF Unit
<1>2. Len(Wave) \in Nat \ {0} /\ \A i \in 1 .. Len(Wave) : Wave[i] \in Unit
  BY <1>1
<1>. DEFINE n == Len(Wave)
<1>3. Count = IF n < Capacity THEN n ELSE Capacity
  <2>1. Count = CHOOSE x \in {n, Capacity} : \A y \in {n, Capacity} : x <= y
    BY DEF Count, Min
  <2>. HIDE DEF n
  <2>2. n \in Nat /\ Capacity \in Nat
    BY <1>1, <1>2 DEF n
  <2>. QED
    BY <2>1, <2>2
<1>4. 1 .. Count \subseteq 1 .. n
  <2>. HIDE DEF n
  <2>1. n \in Nat /\ Capacity \in Nat
    BY <1>1, <1>2 DEF n
  <2>. QED
    BY <1>3, <2>1
<1>. QED
  BY <1>1, <1>2, <1>3, <1>4

LEMMA ClipIs ==
  ASSUME NEW a \in Nat, NEW p \in Quarters
  PROVE  /\ Clip(a, p) \in Seq(Vector) /\ Len(Clip(a, p)) = Count
         /\ \A i \in 1 .. Count : /\ Wave[i] \in Unit
                                  /\ Combiner!Turned(Wave[i], p) \in Unit
                                  /\ Clip(a, p)[i] = Combiner!Scaled(a, Combiner!Turned(Wave[i], p))
         /\ Len(Heard(a, p)) = Len(Wave)
         /\ SubSeq(Heard(a, p), 1, Count) = Clip(a, p)
<1>1. a \in Int /\ p \in Int
  BY DEF Quarters
<1>. DEFINE S(i) == Combiner!Scaled(a, Combiner!Turned(Wave[i], p))
            n == Len(Wave)
            m == Count
<1>2. ASSUME NEW i \in 1 .. n
      PROVE  Wave[i] \in Unit /\ Combiner!Turned(Wave[i], p) \in Unit /\ S(i) \in Vector
  <2>1. Combiner!Turned(Wave[i], p) \in Unit /\ Unit \subseteq Vector /\ Wave[i] \in Unit
    BY <1>1, WaveIs, TurnedTyped, Coordinates
  <2>. QED
    BY <1>1, <2>1, ScaledLaws
<1>3. Heard(a, p) = [i \in 1 .. n |-> S(i)] /\ Clip(a, p) = [i \in 1 .. m |-> S(i)]
  BY Zenon DEF Heard, Clip
<1>4. n \in Nat \ {0} /\ m \in Nat \ {0} /\ 1 .. m \subseteq 1 .. n
  BY WaveIs, Zenon
<1>. HIDE DEF S, n, m
<1>5. /\ [i \in 1 .. n |-> S(i)] \in Seq(Vector) /\ Len([i \in 1 .. n |-> S(i)]) = n
      /\ [i \in 1 .. m |-> S(i)] \in Seq(Vector) /\ Len([i \in 1 .. m |-> S(i)]) = m
  BY <1>2, <1>4
<1>6. SubSeq([i \in 1 .. n |-> S(i)], 1, m) = [i \in 1 .. m |-> S(i)]
  BY <1>2, <1>4, <1>5
<1>. QED
  BY <1>2, <1>3, <1>4, <1>5, <1>6 DEF S, n, m

\* The power of a clip: every sample has the same.
LEMMA PowerIs ==
  ASSUME NEW a \in Nat, NEW p \in Quarters
  PROVE  Combiner!Power(Clip(a, p)) = Count * (a * a)
<1>1. a \in Int
  OBVIOUS
<1>. DEFINE s == Clip(a, p)
            n == Count
<1>2. s \in Seq(Vector) /\ Len(s) = n /\ n \in Nat
  BY ClipIs, WaveIs, Zenon
<1>3. ASSUME NEW i \in 1 .. n
      PROVE  /\ s[i][1] * s[i][1] + s[i][2] * s[i][2] = a * a
             /\ s[i][1] * s[i][1] \in Int /\ s[i][2] * s[i][2] \in Int
  <2>1. PICK u \in Unit : s[i] = Combiner!Scaled(a, u)
    BY ClipIs, Zenon
  <2>2. (u[1] \in {1, -1} /\ u[2] = 0) \/ (u[1] = 0 /\ u[2] \in {1, -1})
    BY DEF Unit
  <2>3. s[i][1] = a * u[1] /\ s[i][2] = a * u[2]
    BY <2>1 DEF Combiner!Scaled
  <2>. HIDE DEF s
  <2>4. s[i][1] \in Int /\ s[i][2] \in Int
    BY <1>1, <2>2, <2>3
  <2>5. a * 1 = a /\ a * 0 = 0 /\ a * (-1) = -a /\ (-a) * (-a) = a * a /\ 0 * 0 = 0 /\ a * a \in Int
    BY <1>1
  <2>6. CASE u[1] \in {1, -1} /\ u[2] = 0
    <3>1. (s[i][1] = a \/ s[i][1] = -a) /\ s[i][2] = 0
      BY <2>3, <2>5, <2>6
    <3>2. s[i][1] * s[i][1] = a * a /\ s[i][2] * s[i][2] = 0
      BY <2>5, <3>1, Zenon
    <3>. QED
      BY <2>5, <3>2
  <2>7. CASE u[1] = 0 /\ u[2] \in {1, -1}
    <3>1. (s[i][2] = a \/ s[i][2] = -a) /\ s[i][1] = 0
      BY <2>3, <2>5, <2>7
    <3>2. s[i][2] * s[i][2] = a * a /\ s[i][1] * s[i][1] = 0
      BY <2>5, <3>1, Zenon
    <3>. QED
      BY <2>5, <3>2
  <2>. QED
    BY <2>2, <2>6, <2>7
<1>. HIDE DEF s, n
<1>4. PICK f : /\ f[0] = 0 /\ f[n] = Powers!Fold(0, 0, s)
               /\ \A k \in 1 .. n : f[k] = f[k - 1] + s[k][1] * s[k][1] + s[k][2] * s[k][2]
  <2>1. \E f : /\ f[0] = 0
               /\ \A k \in 1 .. Len(s) : f[k] = f[k - 1] + s[k][1] * s[k][1] + s[k][2] * s[k][2]
               /\ f[Len(s)] = Powers!Fold(0, 0, s)
    BY <1>2, Powers!FoldTrace, Zenon
  <2>. QED
    BY <1>2, <2>1, Zenon
<1>. DEFINE X(i) == s[i][1] * s[i][1]
            Y(i) == s[i][2] * s[i][2]
            A == a * a
<1>5. \A k \in 1 .. n : /\ f[k] = f[k - 1] + X(k) + Y(k)
                        /\ X(k) \in Int /\ Y(k) \in Int /\ X(k) + Y(k) = A
  BY <1>3, <1>4
<1>6. A \in Int
  BY <1>1
<1>. HIDE DEF X, Y, A
<1>. DEFINE S == {k \in Nat : k <= n => f[k] = k * A}
<1>7. 0 \in S
  BY <1>4, <1>6
<1>8. ASSUME NEW k \in Nat, k \in S PROVE k + 1 \in S
  <2>. SUFFICES ASSUME k + 1 <= n PROVE f[k + 1] = (k + 1) * A
    OBVIOUS
  <2>1. k + 1 \in 1 .. n /\ (k + 1) - 1 = k /\ f[k] = k * A
    BY <1>2, <1>8
  <2>2. f[k + 1] = k * A + X(k + 1) + Y(k + 1)
    BY <1>5, <2>1, Zenon
  <2>. DEFINE x == X(k + 1)
              y == Y(k + 1)
              z == k * A
  <2>3. x \in Int /\ y \in Int /\ x + y = A /\ z \in Int /\ (k + 1) * A = z + A
    BY <1>5, <1>6, <2>1
  <2>. HIDE DEF x, y, z
  <2>4. z + x + y = z + A
    BY <2>3
  <2>. QED
    BY <2>2, <2>3, <2>4, Zenon DEF x, y, z
<1>9. f[n] = n * A
  <2>. HIDE DEF S
  <2>1. Nat \subseteq S
    BY <1>7, <1>8, Powers!NatSetInduction, Zenon
  <2>2. n \in S /\ n <= n
    BY <1>2, <2>1
  <2>. QED
    BY <2>2 DEF S
<1>. QED
  BY <1>4, <1>9, CombinerFolds, Zenon DEF s, A, n

\* Its amplitude, at least a thousandth.
LEMMA AmplitudeIs ==
  ASSUME NEW a \in Nat, NEW p \in Quarters
  PROVE  Combiner!Amplitude(Clip(a, p)) = IF a = 0 THEN 1 ELSE a
<1>. DEFINE average == Combiner!Power(Clip(a, p)) \div Len(Clip(a, p))
<1>2. average = a * a
  <2>1. average = (Count * (a * a)) \div Count
    BY PowerIs, ClipIs, Zenon
  <2>2. a * a \in Nat /\ Count \in Nat \ {0}
    BY WaveIs
  <2>. DEFINE A == a * a
              n == Count
  <2>3. A \in Nat /\ n \in Nat \ {0} /\ average = (n * A) \div n
    BY <2>1, <2>2
  <2>. HIDE DEF A, n, average
  <2>4. (n * A) \div n = A
    BY <2>3, MultipleDivided
  <2>. QED
    BY <2>3, <2>4, Zenon DEF A
<1>3. Combiner!Amplitude(Clip(a, p)) =
        IF average = 0 THEN 1 ELSE CHOOSE r \in 1 .. average : r * r = average
  BY Zenon DEF Combiner!Amplitude
<1>. HIDE DEF average
<1>4. CASE a = 0
  BY <1>2, <1>3, <1>4
<1>5. CASE a # 0
  <2>1. a * a # 0 /\ a \in Nat \ {0}
    BY <1>5
  <2>2. (CHOOSE r \in 1 .. a * a : r * r = a * a) = a
    BY <2>1, RootIs
  <2>. QED
    BY <1>2, <1>3, <1>5, <2>1, <2>2, Zenon
<1>. QED
  BY <1>4, <1>5

-----------------------------------------------------------------------------
(* Two channels: the phase between them.                                    *)

LEMMA ScaledProduct ==
  ASSUME NEW a \in Int, NEW b \in Int, NEW x \in Vector, NEW y \in Vector
  PROVE  Combiner!TimesConj(Combiner!Scaled(a, x), Combiner!Scaled(b, y))
           = Combiner!Scaled(a * b, Combiner!TimesConj(x, y))
<1>1. x[1] \in Int /\ x[2] \in Int /\ y[1] \in Int /\ y[2] \in Int
  BY Coordinates
<1>2. \A i, j \in Int : (a * i) * (b * j) = (a * b) * (i * j)
  OBVIOUS
<1>3. \A i, j \in Int : (a * b) * i + (a * b) * j = (a * b) * (i + j)
  OBVIOUS
<1>4. \A i, j \in Int : (a * b) * i - (a * b) * j = (a * b) * (i - j)
  OBVIOUS
<1>. DEFINE v == Combiner!Scaled(a, x)
            w == Combiner!Scaled(b, y)
            m == a * b
            t == Combiner!TimesConj(x, y)
<1>5. v[1] = a * x[1] /\ v[2] = a * x[2] /\ w[1] = b * y[1] /\ w[2] = b * y[2]
  BY DEF Combiner!Scaled
<1>6. t[1] = x[1] * y[1] + x[2] * y[2] /\ t[2] = x[2] * y[1] - x[1] * y[2]
  BY DEF Combiner!TimesConj
<1>7. \A i, j \in Int : i * j \in Int
  OBVIOUS
<1>. HIDE DEF v, w, t, m
<1>8. Combiner!TimesConj(v, w) = <<v[1] * w[1] + v[2] * w[2], v[2] * w[1] - v[1] * w[2]>>
  BY Zenon DEF Combiner!TimesConj
<1>9. Combiner!Scaled(m, t) = <<m * t[1], m * t[2]>>
  BY Zenon DEF Combiner!Scaled
<1>10. v[1] * w[1] + v[2] * w[2] = m * t[1]
  <2>1. v[1] * w[1] = m * (x[1] * y[1]) /\ v[2] * w[2] = m * (x[2] * y[2])
    BY <1>1, <1>2, <1>5 DEF m
  <2>2. m * (x[1] * y[1]) + m * (x[2] * y[2]) = m * (x[1] * y[1] + x[2] * y[2])
    BY <1>1, <1>3, <1>7 DEF m
  <2>. QED
    BY <1>6, <2>1, <2>2, Zenon
<1>11. v[2] * w[1] - v[1] * w[2] = m * t[2]
  <2>1. v[2] * w[1] = m * (x[2] * y[1]) /\ v[1] * w[2] = m * (x[1] * y[2])
    BY <1>1, <1>2, <1>5 DEF m
  <2>2. m * (x[2] * y[1]) - m * (x[1] * y[2]) = m * (x[2] * y[1] - x[1] * y[2])
    BY <1>1, <1>4, <1>7 DEF m
  <2>. QED
    BY <1>6, <2>1, <2>2, Zenon
<1>. QED
  BY <1>8, <1>9, <1>10, <1>11, Zenon DEF v, w, t, m

LEMMA CorrelationIs ==
  ASSUME NEW a \in Nat, NEW p \in Quarters, NEW b \in Nat, NEW q \in Quarters
  PROVE  Combiner!CrossCorrelation(Clip(a, p), Clip(b, q))
           = Combiner!Scaled(Count * (a * b), Combiner!Turned(<<1, 0>>, p - q))
<1>1. a \in Int /\ b \in Int /\ p \in Int /\ q \in Int /\ p - q \in Int /\ a * b \in Int
  BY DEF Quarters
<1>. DEFINE m == a * b
            e == Combiner!Turned(<<1, 0>>, p - q)
            x == Combiner!Scaled(m, e)
            n == Count
            s == [i \in 1 .. n |-> x]
            zero == <<0, 0>>
<1>2. e \in Vector /\ x \in Vector
  <2>1. <<1, 0>> \in Vector
    BY Coordinates
  <2>2. e \in Vector
    BY <1>1, <2>1, TurnedTyped
  <2>. QED
    BY <1>1, <2>2, ScaledLaws
<1>3. ASSUME NEW i \in 1 .. n PROVE Combiner!CrossProduct(Clip(a, p)[i], Clip(b, q)[i]) = x
  <2>1. /\ Wave[i] \in Unit
        /\ Clip(a, p)[i] = Combiner!Scaled(a, Combiner!Turned(Wave[i], p))
        /\ Clip(b, q)[i] = Combiner!Scaled(b, Combiner!Turned(Wave[i], q))
    BY ClipIs, Zenon
  <2>2. Combiner!Turned(Wave[i], p) \in Vector /\ Combiner!Turned(Wave[i], q) \in Vector
    BY <1>1, <2>1, TurnedTyped, Coordinates
  <2>3. Combiner!TimesConj(Combiner!Turned(Wave[i], p), Combiner!Turned(Wave[i], q)) = e
    BY <2>1, Angles, Zenon
  <2>4. Combiner!TimesConj(Clip(a, p)[i], Clip(b, q)[i])
          = Combiner!Scaled(m, Combiner!TimesConj(Combiner!Turned(Wave[i], p), Combiner!Turned(Wave[i], q)))
    BY <1>1, <2>1, <2>2, ScaledProduct DEF m
  <2>. QED
    BY <2>3, <2>4, Zenon DEF Combiner!CrossProduct
<1>4. [i \in 1 .. Len(Clip(b, q)) |-> Combiner!CrossProduct(Clip(a, p)[i], Clip(b, q)[i])] = s
  BY <1>3, ClipIs, Zenon
<1>5. n \in Nat
  BY WaveIs
<1>. HIDE DEF x, e, m, n
<1>6. s \in Seq(Vector) /\ Len(s) = n /\ \A k \in 1 .. n : s[k] = x
  BY <1>2, <1>5
<1>. HIDE DEF s, zero
<1>7. PICK f : /\ f[0] = zero /\ f[n] = Sums!Fold(0, zero, s)
               /\ \A k \in 1 .. n : f[k] = Combiner!Sum2(f[k - 1], s[k])
  <2>1. \E f : /\ f[0] = zero
               /\ \A k \in 1 .. Len(s) : f[k] = Combiner!Sum2(f[k - 1], s[k])
               /\ f[Len(s)] = Sums!Fold(0, zero, s)
    BY <1>6, Sums!FoldTrace
  <2>. QED
    BY <1>6, <2>1, Zenon
<1>8. m \in Int
  BY <1>1 DEF m
<1>9. \A i, j \in Int :
        Combiner!Sum2(Combiner!Scaled(i, e), Combiner!Scaled(j, e)) = Combiner!Scaled(i + j, e)
  BY <1>2, ScaledLaws
<1>. DEFINE S == {k \in Nat : k <= n => f[k] = Combiner!Scaled(k * m, e)}
<1>10. 0 \in S
  <2>1. Combiner!Scaled(0, e) = zero
    BY <1>2, ScaledLaws DEF zero
  <2>2. 0 * m = 0
    BY <1>8
  <2>3. f[0] = Combiner!Scaled(0 * m, e)
    BY <1>7, <2>1, <2>2, Zenon
  <2>. QED
    BY <2>3
<1>11. ASSUME NEW k \in Nat, k \in S PROVE k + 1 \in S
  <2>. SUFFICES ASSUME k + 1 <= n PROVE f[k + 1] = Combiner!Scaled((k + 1) * m, e)
    OBVIOUS
  <2>1. k + 1 \in 1 .. n /\ (k + 1) - 1 = k /\ f[k] = Combiner!Scaled(k * m, e)
    BY <1>5, <1>11
  <2>2. f[k + 1] = Combiner!Sum2(Combiner!Scaled(k * m, e), Combiner!Scaled(m, e))
    BY <1>6, <1>7, <2>1, Zenon DEF x
  <2>3. k * m \in Int /\ k * m + m = (k + 1) * m
    BY <1>8
  <2>. DEFINE z == k * m
  <2>4. Combiner!Sum2(Combiner!Scaled(z, e), Combiner!Scaled(m, e)) = Combiner!Scaled(z + m, e)
    <3>1. z \in Int
      BY <2>3
    <3>. HIDE DEF z
    <3>. QED
      BY <1>8, <1>9, <3>1
  <2>. QED
    BY <2>2, <2>3, <2>4, Zenon DEF z
<1>12. f[n] = Combiner!Scaled(n * m, e)
  <2>. HIDE DEF S
  <2>1. Nat \subseteq S
    BY <1>10, <1>11, Sums!NatSetInduction, Zenon
  <2>2. n \in S /\ n <= n
    BY <1>5, <2>1
  <2>. QED
    BY <2>2 DEF S
<1>13. Combiner!CrossCorrelation(Clip(a, p), Clip(b, q)) = f[n]
  <2>1. \A v, w : Combiner!CrossCorrelation(v, w) =
          Sums!Fold(0, <<0, 0>>, [i \in 1 .. Len(w) |-> Combiner!CrossProduct(v[i], w[i])])
    BY CombinerFolds, Zenon
  <2>. QED
    BY <1>4, <1>7, <2>1, Zenon DEF zero
<1>. QED
  BY <1>12, <1>13, Zenon DEF m, e, n

\* atan2 finds the angle of what was turned, and 0 where there is nothing.
LEMMA PhaseIs ==
  ASSUME NEW k \in Nat, NEW d \in Int
  PROVE  Combiner!Phase(Combiner!Scaled(k, Combiner!Turned(<<1, 0>>, d)))
           = IF k = 0 THEN 0 ELSE d % 4
<1>. DEFINE x == Combiner!Scaled(k, Combiner!Turned(<<1, 0>>, d))
            r == d % 4
            Found(q) == Combiner!Turned(x, -q)[1] > 0 /\ Combiner!Turned(x, -q)[2] = 0
<1>1. r = 0 \/ r = 1 \/ r = 2 \/ r = 3
  OBVIOUS
<1>2. Combiner!Phase(x) = IF x = <<0, 0>> THEN 0 ELSE CHOOSE q \in 0 .. 3 : Found(q)
  BY Zenon DEF Combiner!Phase
<1>3. x = IF r = 0 THEN <<k, 0>> ELSE IF r = 1 THEN <<0, k>>
          ELSE IF r = 2 THEN <<-k, 0>> ELSE <<0, -k>>
  <2>1. Combiner!Turned(<<1, 0>>, d) = IF r = 0 THEN <<1, 0>> ELSE IF r = 1 THEN <<0, 1>>
          ELSE IF r = 2 THEN <<-1, 0>> ELSE <<0, -1>>
    BY <1>1 DEF Combiner!Turned
  <2>. QED
    BY <1>1, <2>1 DEF Combiner!Scaled
<1>. HIDE DEF r, x
<1>4. CASE k = 0
  <2>1. x = <<0, 0>>
    BY <1>1, <1>3, <1>4
  <2>. QED
    BY <1>2, <1>4, <2>1 DEF x
<1>5. CASE k # 0
  <2>0. /\ k > 0 /\ k \in Int /\ ~(0 > 0) /\ ~(-k > 0) /\ -k # 0
        /\ -0 = 0 /\ -(-k) = k
    <3>1. k > 0 /\ k \in Int /\ ~(0 > 0) /\ ~(-k > 0) /\ -k # 0
      BY <1>5
    <3>2. -0 = 0
      <4>1. \A n \in Int : n + (-n) = 0 /\ (-n) \in Int
        OBVIOUS
      <4>2. \A n \in Int : 0 + n = n
        OBVIOUS
      <4>3. 0 \in Int
        OBVIOUS
      <4>. QED
        BY <4>1, <4>2, <4>3, Zenon
    <3>3. -(-k) = k
      OBVIOUS
    <3>. QED
      BY <3>1, <3>2, <3>3
  <2>1. /\ k > 0 /\ k \in Int /\ ~(0 > 0) /\ ~(-k > 0) /\ -k # 0
        /\ -0 = 0 /\ -(-k) = k /\ x # <<0, 0>>
    BY <1>1, <1>3, <1>5, <2>0
  <2>2. \A q \in 0 .. 3 : q = 0 \/ q = 1 \/ q = 2 \/ q = 3
    OBVIOUS
  <2>3. /\ (-0) % 4 = 0 /\ (-1) % 4 = 3 /\ (-2) % 4 = 2 /\ (-3) % 4 = 1
    <3>1. \A n \in Int : (n = 0 => (-n) % 4 = 0) /\ (n = 1 => (-n) % 4 = 3)
      OBVIOUS
    <3>2. \A n \in Int : (n = 2 => (-n) % 4 = 2) /\ (n = 3 => (-n) % 4 = 1)
      OBVIOUS
    <3>3. 0 \in Int /\ 1 \in Int /\ 2 \in Int /\ 3 \in Int
      OBVIOUS
    <3>. QED
      BY <3>1, <3>2, <3>3, Zenon
  <2>4. /\ Combiner!Turned(x, -0) = x /\ Combiner!Turned(x, -1) = <<x[2], -x[1]>>
        /\ Combiner!Turned(x, -2) = <<-x[1], -x[2]>> /\ Combiner!Turned(x, -3) = <<-x[2], x[1]>>
    BY <2>3 DEF Combiner!Turned
  <2>5. \A q \in 0 .. 3 : Found(q) <=> q = r
    <3>1. /\ Found(0) <=> (x[1] > 0 /\ x[2] = 0)
          /\ Found(1) <=> (x[2] > 0 /\ -x[1] = 0)
          /\ Found(2) <=> (-x[1] > 0 /\ -x[2] = 0)
          /\ Found(3) <=> (-x[2] > 0 /\ x[1] = 0)
      BY <2>4
    <3>. HIDE DEF Found
    <3>2. CASE r = 0
      BY <1>3, <2>1, <2>2, <3>1, <3>2
    <3>3. CASE r = 1
      <4>1. x = <<0, k>>
        BY <1>3, <3>3
      <4>2. x[1] = 0 /\ x[2] = k
        BY <4>1
      <4>3. ~Found(0) /\ Found(1) /\ ~Found(2) /\ ~Found(3)
        BY <2>1, <3>1, <4>2
      <4>. QED
        BY <2>2, <3>3, <4>3
    <3>4. CASE r = 2
      <4>1. x = <<-k, 0>>
        BY <1>3, <3>4
      <4>2. x[1] = -k /\ x[2] = 0
        BY <4>1
      <4>3. ~Found(0) /\ ~Found(1) /\ Found(2) /\ ~Found(3)
        BY <2>1, <3>1, <4>2
      <4>. QED
        BY <2>2, <3>4, <4>3
    <3>5. CASE r = 3
      BY <1>3, <2>1, <2>2, <3>1, <3>5
    <3>. QED
      BY <1>1, <3>2, <3>3, <3>4, <3>5
  <2>6. r \in 0 .. 3
    BY <1>1
  <2>. HIDE DEF Found
  <2>7. (CHOOSE q \in 0 .. 3 : Found(q)) = r
    BY <2>5, <2>6
  <2>. QED
    BY <1>2, <1>5, <2>1, <2>7 DEF x, r
<1>. QED
  BY <1>4, <1>5
-----------------------------------------------------------------------------
(* All channels.                                                            *)

\* The clips of all channels.
Clips(amp, turn) == [c \in Dongle |-> Clip(amp[c], turn[c])]

Weight(mode, amp, turn) == [c \in Dongle |-> Combiner!ChannelWeight(mode, Clips(amp, turn), c)]

Parts(mode, amp, turn, i) ==
  [c \in Dongle |-> Combiner!Scaled(Combiner!ChannelWeight(mode, Clips(amp, turn), c),
                      Combiner!Turned(Clips(amp, turn)[c][i], Combiner!ChannelPhase(Clips(amp, turn), c)))]

\* CombineBlocks takes the first Count samples of every block; and its sums are
\* the folds of the lemmas.
LEMMA CombinedClips ==
  ASSUME NEW mode, NEW amp \in [Dongle -> Nat], NEW turn \in [Dongle -> Quarters]
  PROVE  /\ Dongles \in Nat /\ 1 \in Dongle /\ Len(Clips(amp, turn)) = Dongles
         /\ Combined(mode, amp, turn) =
              IF mode = "SelectionCombining"
                THEN [scale |-> 1, samples |-> Clips(amp, turn)[Combiner!Best(Clips(amp, turn))]]
                ELSE Combiner!Aligned(mode, Clips(amp, turn))
         /\ Combiner!Aligned(mode, Clips(amp, turn)) =
              [scale   |-> Weights!Fold(0, 0, Weight(mode, amp, turn)),
               samples |-> [i \in 1 .. Count |-> Sums!Fold(0, <<0, 0>>, Parts(mode, amp, turn, i))]]
<1>0. Dongles \in Nat /\ Dongles # 0 /\ Dongle = 1 .. Dongles /\ 1 \in Dongle
  BY ReceiverAssumption DEF Dongle
<1>. DEFINE H(d) == Heard(amp[d], turn[d])
            heard == [d \in Dongle |-> H(d)]
            clips == Clips(amp, turn)
            T == {H(d) : d \in Dongle}
            count == Combiner!FoldLeft(LAMBDA n, b : IF Len(b) < n THEN Len(b) ELSE n, Capacity, heard)
<1>1. ASSUME NEW d \in Dongle
      PROVE  /\ Len(H(d)) = Len(Wave) /\ SubSeq(H(d), 1, Count) = Clip(amp[d], turn[d])
             /\ Len(Clip(amp[d], turn[d])) = Count
  BY ClipIs
<1>. HIDE DEF H
<1>2. heard \in Seq(T) /\ Len(heard) = Dongles /\ \A d \in Dongle : heard[d] = H(d)
  <2>1. heard = [d \in 1 .. Dongles |-> H(d)] /\ \A d \in 1 .. Dongles : H(d) \in T
    BY <1>0, Zenon
  <2>. HIDE DEF T
  <2>2. [d \in 1 .. Dongles |-> H(d)] \in Seq(T) /\ Len([d \in 1 .. Dongles |-> H(d)]) = Dongles
    BY <1>0, <2>1
  <2>. QED
    BY <2>1, <2>2, Zenon
<1>3. clips = [c \in Dongle |-> Clip(amp[c], turn[c])]
  BY Zenon DEF Clips
<1>4. Len(clips) = Dongles /\ \A c \in Dongle : clips[c] = Clip(amp[c], turn[c])
  <2>. HIDE DEF clips
  <2>. QED
    BY <1>0, <1>3
<1>5. count = Count
  <2>1. count = Shortest!Fold(0, Capacity, heard)
    BY Zenon DEF Combiner!FoldLeft, Combiner!MapThenFoldSet, Combiner!Max,
       Shortest!Fold, Shortest!FoldLeft, Shortest!MapThenFoldSet, Shortest!Max
  <2>. DEFINE n == Len(Wave)
              m == Count
  <2>2. /\ n \in Nat /\ Capacity \in Nat /\ m = IF n < Capacity THEN n ELSE Capacity
        /\ \A d \in Dongle : Len(heard[d]) = n
    BY <1>1, <1>2, WaveIs, SignalAssumption
  <2>. HIDE DEF heard, T, n, m
  <2>3. PICK f : /\ f[0] = Capacity /\ f[Dongles] = Shortest!Fold(0, Capacity, heard)
                 /\ \A k \in Dongle : f[k] = IF Len(heard[k]) < f[k - 1] THEN Len(heard[k]) ELSE f[k - 1]
    <3>1. \E f : /\ f[0] = Capacity
                 /\ \A k \in 1 .. Len(heard) :
                      f[k] = IF Len(heard[k]) < f[k - 1] THEN Len(heard[k]) ELSE f[k - 1]
                 /\ f[Len(heard)] = Shortest!Fold(0, Capacity, heard)
      BY <1>2, Shortest!FoldTrace
    <3>. QED
      BY <1>0, <1>2, <3>1, Zenon
  <2>. DEFINE S == {k \in Nat : k + 1 <= Dongles => f[k + 1] = m}
  <2>4. 0 \in S
    BY <1>0, <2>2, <2>3
  <2>5. ASSUME NEW k \in Nat, k \in S PROVE k + 1 \in S
    <3>. SUFFICES ASSUME (k + 1) + 1 <= Dongles PROVE f[(k + 1) + 1] = m
      OBVIOUS
    <3>1. (k + 1) + 1 \in Dongle /\ ((k + 1) + 1) - 1 = k + 1 /\ f[k + 1] = m
      BY <1>0, <2>5
    <3>2. f[(k + 1) + 1] = IF n < m THEN n ELSE m
      BY <2>2, <2>3, <3>1, Zenon
    <3>. QED
      BY <2>2, <3>2
  <2>6. f[Dongles] = m
    <3>. HIDE DEF S
    <3>1. Nat \subseteq S
      BY <2>4, <2>5, Shortest!NatSetInduction, Zenon
    <3>2. Dongles - 1 \in S /\ (Dongles - 1) + 1 = Dongles /\ Dongles <= Dongles
      BY <1>0, <3>1
    <3>. QED
      BY <3>2 DEF S
  <2>. QED
    BY <2>1, <2>3, <2>6, Zenon DEF m
<1>6. [c \in 1 .. Len(heard) |-> SubSeq(heard[c], 1, count)] = clips
  <2>1. \A c \in Dongle : SubSeq(heard[c], 1, count) = Clip(amp[c], turn[c])
    <3>. HIDE DEF heard, count
    <3>. QED
      BY <1>1, <1>2, <1>5, Zenon
  <2>2. 1 .. Len(heard) = Dongle
    <3>. HIDE DEF heard
    <3>. QED
      BY <1>0, <1>2, Zenon
  <2>. HIDE DEF heard, count
  <2>. QED
    BY <1>3, <2>1, <2>2, Zenon
<1>7. Combined(mode, amp, turn) =
        IF mode = "SelectionCombining"
          THEN [scale |-> 1, samples |-> clips[Combiner!Best(clips)]]
          ELSE Combiner!Aligned(mode, clips)
  <2>1. Combined(mode, amp, turn) = Combiner!CombineBlocks(mode, heard, Capacity)
    BY Zenon DEF Combined, H
  <2>2. Combiner!CombineBlocks(mode, heard, Capacity) =
          LET channels == [c \in 1 .. Len(heard) |-> SubSeq(heard[c], 1, count)]
          IN IF mode = "SelectionCombining"
               THEN [scale |-> 1, samples |-> channels[Combiner!Best(channels)]]
               ELSE Combiner!Aligned(mode, channels)
    BY Zenon DEF Combiner!CombineBlocks
  <2>. HIDE DEF heard, count, clips
  <2>. QED
    BY <1>6, <2>1, <2>2, Zenon
<1>8. Combiner!Aligned(mode, clips) =
        [scale   |-> Weights!Fold(0, 0, Weight(mode, amp, turn)),
         samples |-> [i \in 1 .. Count |-> Sums!Fold(0, <<0, 0>>, Parts(mode, amp, turn, i))]]
  <2>. DEFINE W == [c \in 1 .. Len(clips) |-> Combiner!ChannelWeight(mode, clips, c)]
              F == [c \in 1 .. Len(clips) |-> Combiner!ChannelPhase(clips, c)]
              P(i) == [c \in 1 .. Len(clips) |-> Combiner!Scaled(W[c], Combiner!Turned(clips[c][i], F[c]))]
  <2>0. 1 .. Len(clips) = Dongle /\ Len(clips[1]) = Count
    <3>. HIDE DEF clips
    <3>. QED
      BY <1>0, <1>1, <1>4, Zenon
  <2>1. Combiner!Aligned(mode, clips) =
          [scale   |-> Combiner!FoldLeft(LAMBDA s, w : s + w, 0, W),
           samples |-> [i \in 1 .. Len(clips[1]) |-> Combiner!FoldLeft(Combiner!Sum2, <<0, 0>>, P(i))]]
    BY Zenon DEF Combiner!Aligned
  <2>. HIDE DEF clips
  <2>2. W = Weight(mode, amp, turn)
    BY <2>0, Zenon DEF Weight, clips
  <2>3. \A c \in Dongle : /\ W[c] = Combiner!ChannelWeight(mode, clips, c)
                          /\ F[c] = Combiner!ChannelPhase(clips, c)
    BY <2>0, Zenon
  <2>4. ASSUME NEW i PROVE P(i) = Parts(mode, amp, turn, i)
    <3>1. Parts(mode, amp, turn, i) =
            [c \in Dongle |-> Combiner!Scaled(Combiner!ChannelWeight(mode, clips, c),
                                Combiner!Turned(clips[c][i], Combiner!ChannelPhase(clips, c)))]
      BY Zenon DEF Parts, clips
    <3>. HIDE DEF W, F
    <3>. QED
      BY <2>0, <2>3, <3>1, Zenon
  <2>5. Combiner!FoldLeft(LAMBDA s, w : s + w, 0, W) = Weights!Fold(0, 0, W)
    BY Zenon DEF Combiner!FoldLeft, Combiner!MapThenFoldSet, Combiner!Max,
       Weights!Fold, Weights!FoldLeft, Weights!MapThenFoldSet, Weights!Max
  <2>6. ASSUME NEW i
        PROVE  Combiner!FoldLeft(Combiner!Sum2, <<0, 0>>, P(i)) = Sums!Fold(0, <<0, 0>>, P(i))
    BY Zenon DEF Combiner!FoldLeft, Combiner!MapThenFoldSet, Combiner!Max,
       Sums!Fold, Sums!FoldLeft, Sums!MapThenFoldSet, Sums!Max
  <2>. HIDE DEF W, P
  <2>7. \A i : Combiner!FoldLeft(Combiner!Sum2, <<0, 0>>, P(i))
                 = Sums!Fold(0, <<0, 0>>, Parts(mode, amp, turn, i))
    BY <2>4, <2>6, Zenon
  <2>. QED
    BY <2>0, <2>1, <2>2, <2>5, <2>7, Zenon DEF clips
<1>. QED
  BY <1>0, <1>4, <1>7, <1>8 DEF H

\* The gain with which a channel is in the sum.
Gain(mode, amp, turn, c) == Weight(mode, amp, turn)[c] * amp[c]

\* What a channel adds to the sum: the direction of the leading channel, with its
\* own amplitude and its weight.
LEMMA PartIs ==
  ASSUME NEW mode, NEW amp \in [Dongle -> Nat], NEW turn \in [Dongle -> Quarters],
         NEW r \in Dongle, Leads(amp, r), NEW c \in Dongle
  PROVE  /\ Weight(mode, amp, turn)[c] \in Nat \ {0}
         /\ \A i \in 1 .. Count : Parts(mode, amp, turn, i)[c] =
              Combiner!Scaled(Gain(mode, amp, turn, c), Combiner!Turned(Wave[i], turn[r]))
<1>. DEFINE a == amp[1]
            p == turn[1]
            b == amp[c]
            q == turn[c]
            clips == Clips(amp, turn)
            w == Combiner!ChannelWeight(mode, clips, c)
            f == Combiner!ChannelPhase(clips, c)
            x(i) == Combiner!Turned(Wave[i], q)
            u(i) == Combiner!Turned(Wave[i], turn[r])
<1>0. /\ 1 \in Dongle /\ p \in Quarters /\ q \in Quarters /\ turn[r] \in Int
      /\ a \in Nat /\ b \in Nat /\ p \in Int /\ q \in Int
  <2>1. 1 \in Dongle
    BY ReceiverAssumption DEF Dongle
  <2>2. a \in Nat /\ b \in Nat /\ p \in Quarters /\ q \in Quarters /\ turn[r] \in Quarters
    BY <2>1
  <2>. HIDE DEF a, b, p, q
  <2>3. \A n \in Quarters : n \in Int
    BY DEF Quarters
  <2>. QED
    BY <2>1, <2>2, <2>3
\* Whoever is heard is the leader, or is turned to it.
<1>1. b # 0 => c = r \/ (r = 1 /\ a # 0)
  <2>1. amp[r] > 0 /\ (r = 1 \/ \A d \in Dongle \ {r} : amp[d] = 0)
    BY DEF Leads
  <2>2. r = 1 => a # 0
    BY <2>1
  <2>. QED
    BY <2>1, <2>2, Zenon
<1>2. c = r /\ r # 1 => a = 0
  BY <1>0 DEF Leads
<1>3. clips[1] = Clip(a, p) /\ clips[c] = Clip(b, q)
  BY <1>0, Zenon DEF Clips
<1>4. w \in Nat \ {0}
  <2>1. w = IF c # 1 /\ mode = "MaximalRatioCombining" THEN Combiner!Amplitude(clips[c]) ELSE 1000
    BY Zenon DEF Combiner!ChannelWeight
  <2>2. Combiner!Amplitude(clips[c]) = IF b = 0 THEN 1 ELSE b
    <3>. HIDE DEF b, q, clips
    <3>1. Combiner!Amplitude(Clip(b, q)) = IF b = 0 THEN 1 ELSE b
      BY <1>0, AmplitudeIs
    <3>. QED
      BY <1>3, <3>1, ZenonT(40)
  <2>. HIDE DEF w, b
  <2>. QED
    BY <1>0, <2>1, <2>2
<1>5. /\ f = 0 \/ f = (p - q) % 4
      /\ f = IF c = 1 \/ a = 0 \/ b = 0 THEN 0 ELSE (p - q) % 4
  <2>1. f = IF c = 1 THEN 0 ELSE Combiner!Phase(Combiner!CrossCorrelation(clips[1], clips[c]))
    BY Zenon DEF Combiner!ChannelPhase
  <2>. DEFINE k == Count * (a * b)
  <2>2. Combiner!CrossCorrelation(clips[1], clips[c]) = Combiner!Scaled(k, Combiner!Turned(<<1, 0>>, p - q))
    <3>. HIDE DEF a, b, p, q, clips
    <3>1. Combiner!CrossCorrelation(Clip(a, p), Clip(b, q)) = Combiner!Scaled(k, Combiner!Turned(<<1, 0>>, p - q))
      BY <1>0, CorrelationIs
    <3>. QED
      BY <1>3, <3>1, Zenon
  <2>3. k \in Nat /\ (k = 0 <=> a = 0 \/ b = 0) /\ p - q \in Int
    <3>1. \A i, j \in Nat : i * j \in Nat /\ (i * j = 0 <=> i = 0 \/ j = 0)
      OBVIOUS
    <3>2. Count \in Nat \ {0}
      BY WaveIs
    <3>. DEFINE n == Count
                m == a * b
    <3>3. m \in Nat /\ (m = 0 <=> a = 0 \/ b = 0) /\ n \in Nat \ {0} /\ k = n * m
      BY <1>0, <3>1, <3>2
    <3>. HIDE DEF a, b, m, n, k
    <3>. QED
      BY <1>0, <3>1, <3>3
  <2>. HIDE DEF k, a, b, p, q, f
  <2>4. Combiner!Phase(Combiner!Scaled(k, Combiner!Turned(<<1, 0>>, p - q)))
          = IF k = 0 THEN 0 ELSE (p - q) % 4
    BY <2>3, PhaseIs
  <2>. QED
    BY <2>1, <2>2, <2>3, <2>4, Zenon
<1>6. ASSUME NEW i \in 1 .. Count
      PROVE  /\ clips[c][i] = Combiner!Scaled(b, x(i))
             /\ x(i) \in Vector /\ u(i) \in Vector /\ Wave[i] \in Unit
  <2>1. Wave[i] \in Unit /\ Clip(b, q)[i] = Combiner!Scaled(b, x(i))
    BY <1>0, ClipIs, Zenon
  <2>2. x(i) \in Vector /\ u(i) \in Vector
    BY <1>0, <2>1, TurnedTyped, Coordinates
  <2>. QED
    BY <1>3, <2>1, <2>2, Zenon
<1>7. f \in Int
  BY <1>0, <1>5
<1>8. /\ Weight(mode, amp, turn)[c] = w
      /\ \A i : Parts(mode, amp, turn, i)[c] = Combiner!Scaled(w, Combiner!Turned(clips[c][i], f))
  BY Zenon DEF Weight, Parts
<1>9. ASSUME NEW i \in 1 .. Count
      PROVE  Parts(mode, amp, turn, i)[c] = Combiner!Scaled(w * b, u(i))
  <2>. DEFINE y == Combiner!Turned(x(i), f)
  <2>. HIDE DEF clips, w, f, x, u, a, b, p, q
  <2>1. Combiner!Turned(clips[c][i], f) = Combiner!Scaled(b, y)
    <3>1. \A k \in Int, v \in Vector, g \in Int :
            Combiner!Turned(Combiner!Scaled(k, v), g) = Combiner!Scaled(k, Combiner!Turned(v, g))
      BY ScaledLaws
    <3>2. b \in Int
      BY <1>0
    <3>3. Combiner!Turned(Combiner!Scaled(b, x(i)), f) = Combiner!Scaled(b, y)
      BY <1>6, <1>7, <3>1, <3>2 DEF y
    <3>. QED
      BY <1>6, <3>3, Zenon
  <2>2. y \in Vector
    BY <1>6, <1>7, TurnedTyped
  <2>. HIDE DEF y
  <2>3. Combiner!Scaled(w, Combiner!Scaled(b, y)) = Combiner!Scaled(w * b, y)
    BY <1>0, <1>4, <2>2, ScaledLaws
  <2>4. CASE b = 0
    <3>1. w * b = 0
      BY <1>4, <2>4
    <3>2. Combiner!Scaled(0, y) = <<0, 0>> /\ Combiner!Scaled(0, u(i)) = <<0, 0>>
      BY <1>6, <2>2, ScaledLaws
    <3>. QED
      BY <1>8, <2>1, <2>3, <3>1, <3>2, Zenon
  <2>5. CASE b # 0
    <3>1. y = u(i)
      <4>1. CASE c = r
        <5>1. c # 1 => a = 0
          BY <1>2, <4>1, Zenon
        <5>2. f = 0
          BY <1>5, <5>1, Zenon
        <5>3. f % 4 = 0
          BY <5>2
        <5>4. y = x(i)
          BY <1>7, <5>3, TurnedIs, Zenon DEF y
        <5>. QED
          BY <4>1, <5>4, Zenon DEF x, u, q
      <4>2. CASE c # r
        <5>1. r = 1 /\ a # 0
          BY <1>1, <2>5, <4>2, Zenon
        <5>2. f = (p - q) % 4 /\ c # 1
          BY <1>5, <2>5, <4>2, <5>1, Zenon
        <5>3. Combiner!Turned(Combiner!Turned(Wave[i], q), (p - q) % 4) = Combiner!Turned(Wave[i], p)
          BY <1>0, <1>6, Angles, Zenon
        <5>. QED
          BY <5>1, <5>2, <5>3, Zenon DEF x, u, y, p
      <4>. QED
        BY <4>1, <4>2
    <3>. QED
      BY <1>8, <2>1, <2>3, <3>1, Zenon
  <2>. QED
    BY <2>4, <2>5
<1>10. Gain(mode, amp, turn, c) = w * b
  BY <1>8, Zenon DEF Gain
<1>. QED
  BY <1>4, <1>8, <1>9, <1>10, Zenon

\* A function of the numbers up to n is a sequence.
LEMMA IsSequence ==
  ASSUME NEW S, NEW n \in Nat, NEW f, f = [c \in 1 .. n |-> f[c]], \A c \in 1 .. n : f[c] \in S
  PROVE  f \in Seq(S) /\ Len(f) = n
<1>1. [c \in 1 .. n |-> f[c]] \in Seq(S) /\ Len([c \in 1 .. n |-> f[c]]) = n
  OBVIOUS
<1>. QED
  BY <1>1, Zenon

\* The sum is the direction of dongle r, times gain.
IsSum(mode, amp, turn, r, lo, hi, gain) ==
  LET scale == Weights!Fold(0, 0, Weight(mode, amp, turn))
  IN /\ lo * scale <= gain /\ gain <= hi * scale /\ gain > 0 /\ scale \in Nat
     /\ \A i \in 1 .. Count : Sums!Fold(0, <<0, 0>>, Parts(mode, amp, turn, i)) =
          Combiner!Scaled(gain, Combiner!Turned(Wave[i], turn[r]))

\* The sum of all channels is the direction of the leading one, with a gain between
\* the least and the greatest of the amplitudes.
LEMMA SumIs ==
  ASSUME NEW mode, NEW amp \in [Dongle -> Nat], NEW turn \in [Dongle -> Quarters],
         NEW r \in Dongle, Leads(amp, r), NEW lo \in Nat, NEW hi \in Nat,
         \A c \in Dongle : lo <= amp[c] /\ amp[c] <= hi
  PROVE  \E gain \in Nat : IsSum(mode, amp, turn, r, lo, hi, gain)
<1>. DEFINE W == Weight(mode, amp, turn)
            P(i) == Parts(mode, amp, turn, i)
            u(i) == Combiner!Turned(Wave[i], turn[r])
            part(c) == Gain(mode, amp, turn, c)
            G == [c \in Dongle |-> part(c)]
            zero == <<0, 0>>
<1>0. Dongles \in Nat /\ Dongles # 0 /\ Dongle = 1 .. Dongles /\ 1 \in Dongle
  BY ReceiverAssumption DEF Dongle
<1>1. ASSUME NEW c \in Dongle
      PROVE  /\ W[c] \in Nat /\ W[c] # 0 /\ amp[c] \in Nat
             /\ \A i \in 1 .. Count : P(i)[c] = Combiner!Scaled(part(c), u(i))
  <2>1. amp[c] \in Nat
    OBVIOUS
  <2>2. W[c] \in Nat \ {0}
    BY PartIs
  <2>3. \A i \in 1 .. Count : P(i)[c] = Combiner!Scaled(part(c), u(i))
    BY PartIs
  <2>. QED
    BY <2>1, <2>2, <2>3
<1>2. ASSUME NEW i \in 1 .. Count PROVE u(i) \in Vector
  <2>1. i \in 1 .. Len(Wave) /\ turn[r] \in Int
    BY WaveIs DEF Quarters
  <2>2. Wave[i] \in Unit
    BY <2>1, WaveIs, Zenon
  <2>. QED
    BY <2>1, <2>2, TurnedTyped, Coordinates DEF u
<1>3. /\ W = [c \in Dongle |-> W[c]]
      /\ \A i \in 1 .. Count : P(i) = [c \in Dongle |-> P(i)[c]]
  <2>1. W = [c \in Dongle |-> Combiner!ChannelWeight(mode, Clips(amp, turn), c)]
    BY Zenon DEF Weight
  <2>2. \A i : P(i) = [c \in Dongle |-> Combiner!Scaled(Combiner!ChannelWeight(mode, Clips(amp, turn), c),
                      Combiner!Turned(Clips(amp, turn)[c][i], Combiner!ChannelPhase(Clips(amp, turn), c)))]
    BY Zenon DEF Parts
  <2>. HIDE DEF W, P
  <2>. QED
    BY <2>1, <2>2, Zenon
<1>. HIDE DEF W, P, u
<1>4. ASSUME NEW c \in Dongle
      PROVE  /\ part(c) \in Nat /\ lo * W[c] <= part(c) /\ part(c) <= hi * W[c]
             /\ lo * W[c] \in Nat /\ hi * W[c] \in Nat
  <2>. DEFINE n == amp[c]
              w == W[c]
  <2>1. n \in Nat /\ w \in Nat /\ lo <= n /\ n <= hi /\ part(c) = w * n
    BY <1>1 DEF Gain, W
  <2>. HIDE DEF n, w, part
  <2>2. lo * w \in Nat /\ hi * w \in Nat /\ w * n \in Nat
    BY <2>1
  <2>3. lo * w <= w * n
    BY <2>1
  <2>4. w * n <= hi * w
    BY <2>1
  <2>. QED
    BY <2>1, <2>2, <2>3, <2>4 DEF n, w
<1>5. amp[r] # 0
  <2>1. amp[r] > 0 /\ amp[r] \in Nat
    BY DEF Leads
  <2>. QED
    BY <2>1
<1>6. part(r) > 0
  <2>. DEFINE n == amp[r]
              w == W[r]
  <2>1. n \in Nat /\ n # 0 /\ w \in Nat /\ w # 0 /\ part(r) = w * n
    BY <1>1, <1>5 DEF Gain, W
  <2>. HIDE DEF n, w, part
  <2>2. w * n > 0
    BY <2>1
  <2>. QED
    BY <2>1, <2>2
<1>. HIDE DEF part
<1>7. W \in Seq(Nat) /\ Len(W) = Dongles
  <2>1. W = [c \in 1 .. Dongles |-> W[c]] /\ \A c \in 1 .. Dongles : W[c] \in Nat
    BY <1>0, <1>1, <1>3
  <2>. QED
    BY <1>0, <2>1, IsSequence
<1>8. ASSUME NEW i \in 1 .. Count PROVE P(i) \in Seq(Vector) /\ Len(P(i)) = Dongles
  <2>. DEFINE s == P(i)
  <2>0. \A k \in Int, x \in Vector : Combiner!Scaled(k, x) \in Vector
    BY ScaledLaws, Zenon
  <2>1. s = [c \in 1 .. Dongles |-> s[c]] /\ \A c \in 1 .. Dongles : s[c] \in Vector
    <3>1. s = [c \in 1 .. Dongles |-> s[c]]
      BY <1>0, <1>3, Zenon
    <3>2. ASSUME NEW c \in Dongle PROVE s[c] \in Vector
      <4>1. s[c] = Combiner!Scaled(part(c), u(i)) /\ part(c) \in Nat /\ u(i) \in Vector
        BY <1>1, <1>2, <1>4 DEF part
      <4>. QED
        BY <2>0, <4>1
    <3>. QED
      BY <1>0, <3>1, <3>2, Zenon
  <2>. HIDE DEF s
  <2>2. s \in Seq(Vector) /\ Len(s) = Dongles
    BY <1>0, <2>1, IsSequence
  <2>. QED
    BY <2>2 DEF s
<1>9. G \in Seq(Nat) /\ Len(G) = Dongles /\ \A c \in Dongle : G[c] = part(c)
  <2>1. G = [c \in 1 .. Dongles |-> part(c)] /\ \A c \in 1 .. Dongles : part(c) \in Nat
    BY <1>0, <1>4, Zenon
  <2>2. [c \in 1 .. Dongles |-> part(c)] \in Seq(Nat) /\ Len([c \in 1 .. Dongles |-> part(c)]) = Dongles
    BY <1>0, <2>1
  <2>. QED
    BY <2>1, <2>2, Zenon
<1>. HIDE DEF G, zero
<1>10. PICK h : /\ h[0] = 0 /\ h[Dongles] = Weights!Fold(0, 0, W)
                /\ \A c \in Dongle : h[c] = h[c - 1] + W[c]
  <2>1. \E f : /\ f[0] = 0
               /\ \A c \in 1 .. Len(W) : f[c] = f[c - 1] + W[c]
               /\ f[Len(W)] = Weights!Fold(0, 0, W)
    BY <1>7, Weights!FoldTrace
  <2>. QED
    BY <1>0, <1>7, <2>1, Zenon
<1>11. PICK g : /\ g[0] = 0 /\ \A c \in Dongle : g[c] = g[c - 1] + part(c)
  <2>1. \E f : /\ f[0] = 0
               /\ \A c \in 1 .. Len(G) : f[c] = f[c - 1] + G[c]
               /\ f[Len(G)] = Weights!Fold(0, 0, G)
    BY <1>9, Weights!FoldTrace
  <2>. QED
    BY <1>0, <1>9, <2>1, Zenon
<1>. DEFINE Between(k) == /\ g[k] \in Nat /\ h[k] \in Nat
                          /\ lo * h[k] <= g[k] /\ g[k] <= hi * h[k]
                          /\ k < r \/ g[k] > 0
            B == {k \in Nat : k <= Dongles => Between(k)}
<1>12. 0 \in B
  <2>1. Between(0)
    BY <1>0, <1>10, <1>11
  <2>. QED
    BY <2>1
<1>13. ASSUME NEW k \in Nat, k \in B PROVE k + 1 \in B
  <2>. SUFFICES ASSUME k + 1 <= Dongles PROVE Between(k + 1)
    OBVIOUS
  <2>0. k + 1 \in Dongle /\ (k + 1) - 1 = k /\ k <= Dongles
    BY <1>0
  <2>1. Between(k)
    BY <1>13, <2>0
  <2>2. h[k + 1] = h[k] + W[k + 1] /\ g[k + 1] = g[k] + part(k + 1)
    BY <1>10, <1>11, <2>0, Zenon
  <2>. DEFINE w == W[k + 1]
              n == part(k + 1)
              x == h[k]
              y == g[k]
  <2>3. /\ w \in Nat /\ n \in Nat /\ lo * w <= n /\ n <= hi * w
        /\ x \in Nat /\ y \in Nat /\ lo * x <= y /\ y <= hi * x
        /\ k + 1 = r => n > 0
        /\ k < r \/ y > 0
    BY <1>1, <1>4, <1>6, <2>0, <2>1
  <2>. HIDE DEF w, n, x, y
  <2>4. lo * (x + w) = lo * x + lo * w /\ hi * (x + w) = hi * x + hi * w
    BY <2>3
  <2>5. lo * x \in Nat /\ lo * w \in Nat /\ hi * x \in Nat /\ hi * w \in Nat
    BY <2>3
  <2>6. lo * (x + w) <= y + n /\ y + n <= hi * (x + w)
    <3>. DEFINE lx == lo * x
                lw == lo * w
                hx == hi * x
                hw == hi * w
    <3>1. lx + lw <= y + n /\ y + n <= hx + hw
      <4>1. lx \in Nat /\ lw \in Nat /\ hx \in Nat /\ hw \in Nat /\ lw <= n /\ n <= hw /\ lx <= y /\ y <= hx
        BY <2>3, <2>5
      <4>. HIDE DEF lx, lw, hx, hw
      <4>. QED
        BY <2>3, <4>1
    <3>. QED
      BY <2>4, <3>1
  <2>7. (k + 1 < r \/ y + n > 0) /\ y + n \in Nat /\ x + w \in Nat
    BY <1>0, <2>3
  <2>8. h[k + 1] = x + w /\ g[k + 1] = y + n
    BY <2>2 DEF x, y, w, n
  <2>. QED
    BY <2>6, <2>7, <2>8, Zenon
<1>14. Between(Dongles)
  <2>. HIDE DEF B, Between
  <2>1. Nat \subseteq B
    BY <1>12, <1>13, Weights!NatSetInduction, Zenon
  <2>2. Dongles \in B /\ Dongles <= Dongles
    BY <1>0, <2>1
  <2>. QED
    BY <2>2 DEF B
<1>15. ASSUME NEW i \in 1 .. Count
       PROVE  Sums!Fold(0, <<0, 0>>, P(i)) = Combiner!Scaled(g[Dongles], u(i))
  <2>. DEFINE s == P(i)
              v == u(i)
  <2>0. \A m, n \in Int :
           Combiner!Sum2(Combiner!Scaled(m, v), Combiner!Scaled(n, v)) = Combiner!Scaled(m + n, v)
    BY <1>2, ScaledLaws
  <2>1. zero = Combiner!Scaled(0, v)
    BY <1>2, ScaledLaws DEF zero
  <2>2. \A c \in Dongle : s[c] = Combiner!Scaled(part(c), v)
    BY <1>1, Zenon DEF part
  <2>3. s \in Seq(Vector) /\ Len(s) = Dongles
    BY <1>8
  <2>. HIDE DEF s, v
  <2>4. PICK f : /\ f[0] = zero /\ f[Dongles] = Sums!Fold(0, zero, s)
                 /\ \A c \in Dongle : f[c] = Combiner!Sum2(f[c - 1], s[c])
    <3>1. \E f : /\ f[0] = zero
                 /\ \A c \in 1 .. Len(s) : f[c] = Combiner!Sum2(f[c - 1], s[c])
                 /\ f[Len(s)] = Sums!Fold(0, zero, s)
      BY <2>3, Sums!FoldTrace
    <3>. QED
      BY <1>0, <2>3, <3>1, Zenon
  <2>. DEFINE E == {k \in Nat : k <= Dongles => g[k] \in Nat /\ f[k] = Combiner!Scaled(g[k], v)}
  <2>5. 0 \in E
    BY <1>11, <2>1, <2>4
  <2>6. ASSUME NEW k \in Nat, k \in E PROVE k + 1 \in E
    <3>. SUFFICES ASSUME k + 1 <= Dongles
         PROVE  g[k + 1] \in Nat /\ f[k + 1] = Combiner!Scaled(g[k + 1], v)
      OBVIOUS
    <3>0. k + 1 \in Dongle /\ (k + 1) - 1 = k /\ k <= Dongles
      BY <1>0
    <3>1. g[k] \in Nat /\ f[k] = Combiner!Scaled(g[k], v)
      BY <2>6, <3>0
    <3>2. g[k + 1] = g[k] + part(k + 1) /\ part(k + 1) \in Nat
      BY <1>4, <1>11, <3>0
    <3>3. f[k + 1] = Combiner!Sum2(Combiner!Scaled(g[k], v), Combiner!Scaled(part(k + 1), v))
      BY <2>2, <2>4, <3>0, <3>1, Zenon
    <3>4. Combiner!Sum2(Combiner!Scaled(g[k], v), Combiner!Scaled(part(k + 1), v))
            = Combiner!Scaled(g[k] + part(k + 1), v)
      <4>. DEFINE m == g[k]
                  n == part(k + 1)
      <4>1. m \in Int /\ n \in Int
        BY <3>1, <3>2
      <4>. HIDE DEF m, n
      <4>2. Combiner!Sum2(Combiner!Scaled(m, v), Combiner!Scaled(n, v)) = Combiner!Scaled(m + n, v)
        BY <2>0, <4>1
      <4>. QED
        BY <4>2, Zenon DEF m, n
    <3>5. g[k] + part(k + 1) \in Nat
      BY <3>1, <3>2
    <3>. QED
      BY <3>2, <3>3, <3>4, <3>5, Zenon
  <2>7. f[Dongles] = Combiner!Scaled(g[Dongles], v)
    <3>. HIDE DEF E
    <3>1. Nat \subseteq E
      BY <2>5, <2>6, Sums!NatSetInduction, Zenon
    <3>2. Dongles \in E /\ Dongles <= Dongles
      BY <1>0, <3>1
    <3>. QED
      BY <3>2 DEF E
  <2>. QED
    BY <2>4, <2>7, Zenon DEF s, v, zero
<1>. DEFINE gain == g[Dongles]
            scale == Weights!Fold(0, 0, W)
<1>16. /\ gain \in Nat /\ lo * scale <= gain /\ gain <= hi * scale /\ gain > 0 /\ scale \in Nat
  <2>1. Dongles \in Nat /\ r \in Nat /\ r <= Dongles /\ ~(Dongles < r)
    BY <1>0
  <2>. QED
    BY <1>10, <1>14, <2>1
<1>17. \A i \in 1 .. Count : Sums!Fold(0, <<0, 0>>, P(i)) = Combiner!Scaled(gain, u(i))
  BY <1>15
<1>. HIDE DEF gain, scale
<1>18. IsSum(mode, amp, turn, r, lo, hi, gain)
  BY <1>16, <1>17, Zenon DEF W, P, u, scale, IsSum
<1>. QED
  BY <1>16, <1>18, Zenon

\* The least and the greatest amplitude.
LEMMA Extremes ==
  ASSUME NEW amp \in [Dongle -> Nat]
  PROVE  LET all == {amp[d] : d \in Dongle}
         IN /\ Min(all) \in Nat /\ Max(all) \in Nat
            /\ \A c \in Dongle : Min(all) <= amp[c] /\ amp[c] <= Max(all)
            /\ \E c \in Dongle : amp[c] = Max(all)
<1>. DEFINE all == {amp[d] : d \in Dongle}
            Least(n) == \E m \in 1 .. n : \A c \in 1 .. n : amp[m] <= amp[c]
            Greatest(n) == \E m \in 1 .. n : \A c \in 1 .. n : amp[c] <= amp[m]
            S == {k \in Nat : k + 1 <= Dongles => Least(k + 1) /\ Greatest(k + 1)}
<1>0. Dongles \in Nat /\ Dongles # 0 /\ Dongle = 1 .. Dongles
  BY ReceiverAssumption DEF Dongle
<1>1. \A c \in 1 .. Dongles : amp[c] \in Nat
  BY <1>0
<1>2. 0 \in S
  BY <1>0, <1>1
<1>3. ASSUME NEW k \in Nat, k \in S PROVE k + 1 \in S
  <2>. SUFFICES ASSUME (k + 1) + 1 <= Dongles PROVE Least((k + 1) + 1) /\ Greatest((k + 1) + 1)
    OBVIOUS
  <2>. DEFINE n == k + 1
  <2>. HIDE DEF Least, Greatest
  <2>0. n \in Nat /\ n + 1 <= Dongles /\ n <= Dongles
    BY <1>0
  <2>1. Least(n) /\ Greatest(n)
    BY <1>3, <2>0
  <2>. HIDE DEF n
  <2>. USE <2>0 DEF Least, Greatest
  <2>2. \A c \in 1 .. n + 1 : amp[c] \in Nat /\ (c = n + 1 \/ c \in 1 .. n)
    BY <1>0, <1>1, <2>1
  <2>3. 1 .. n \subseteq 1 .. n + 1 /\ n + 1 \in 1 .. n + 1
    BY <2>1
  <2>4. Least(n + 1)
    <3>1. PICK m \in 1 .. n : \A c \in 1 .. n : amp[m] <= amp[c]
      BY <2>1
    <3>2. CASE amp[m] <= amp[n + 1]
      BY <2>2, <2>3, <3>1, <3>2
    <3>3. CASE amp[n + 1] <= amp[m]
      <4>1. \A c \in 1 .. n + 1 : amp[n + 1] <= amp[c]
        BY <2>2, <2>3, <3>1, <3>3
      <4>. QED
        BY <2>3, <4>1
    <3>. QED
      BY <2>2, <2>3, <3>2, <3>3
  <2>5. Greatest(n + 1)
    <3>1. PICK m \in 1 .. n : \A c \in 1 .. n : amp[c] <= amp[m]
      BY <2>1
    <3>2. CASE amp[n + 1] <= amp[m]
      BY <2>2, <2>3, <3>1, <3>2
    <3>3. CASE amp[m] <= amp[n + 1]
      <4>1. \A c \in 1 .. n + 1 : amp[c] <= amp[n + 1]
        BY <2>2, <2>3, <3>1, <3>3
      <4>. QED
        BY <2>3, <4>1
    <3>. QED
      BY <2>2, <2>3, <3>2, <3>3
  <2>. QED
    BY <2>4, <2>5 DEF n
<1>4. Least(Dongles) /\ Greatest(Dongles)
  <2>. HIDE DEF S, Least, Greatest
  <2>1. Nat \subseteq S
    BY <1>2, <1>3, Sums!NatSetInduction, Zenon
  <2>2. Dongles - 1 \in S /\ (Dongles - 1) + 1 = Dongles /\ Dongles <= Dongles
    BY <1>0, <2>1
  <2>. QED
    BY <2>2 DEF S
<1>5. /\ \E m \in all : \A n \in all : n <= m
      /\ \E m \in all : \A n \in all : m <= n
  <2>1. PICK m \in Dongle : \A c \in Dongle : amp[c] <= amp[m]
    BY <1>0, <1>4
  <2>2. PICK l \in Dongle : \A c \in Dongle : amp[l] <= amp[c]
    BY <1>0, <1>4
  <2>3. amp[m] \in all /\ \A n \in all : n <= amp[m]
    BY <2>1
  <2>4. amp[l] \in all /\ \A n \in all : amp[l] <= n
    BY <2>2
  <2>. QED
    BY <2>3, <2>4, Zenon
<1>6. /\ \A m \in all : m \in Nat /\ \E c \in Dongle : amp[c] = m
      /\ \A c \in Dongle : amp[c] \in all
  BY <1>0, <1>1
<1>. HIDE DEF all
<1>7. Max(all) \in all /\ \A n \in all : n <= Max(all)
  <2>1. \E m \in all : \A n \in all : m >= n
    BY <1>5, <1>6
  <2>2. Max(all) \in all /\ \A n \in all : Max(all) >= n
    BY <2>1 DEF Max
  <2>. QED
    BY <1>6, <2>2
<1>8. Min(all) \in all /\ \A n \in all : Min(all) <= n
  BY <1>5 DEF Min
<1>. QED
  BY <1>6, <1>7, <1>8 DEF all

\* The channel that is selected is one of the strongest.
LEMMA BestIsStrongest ==
  ASSUME NEW amp \in [Dongle -> Nat], NEW turn \in [Dongle -> Quarters]
  PROVE  LET best == Combiner!Best(Clips(amp, turn))
         IN best \in Dongle /\ amp[best] = Max({amp[d] : d \in Dongle})
<1>. DEFINE clips == Clips(amp, turn)
            top == Max({amp[d] : d \in Dongle})
            P(c) == Combiner!Power(clips[c])
            Is(b) == \A c \in 1 .. Len(clips) : P(c) <= P(b) /\ (c < b => P(c) < P(b))
<1>0. Dongles \in Nat /\ Dongle = 1 .. Dongles /\ 1 .. Len(clips) = Dongle
  <2>1. Len(clips) = Dongles /\ Dongles \in Nat
    BY CombinedClips
  <2>. QED
    BY <2>1, Zenon DEF Dongle
<1>1. top \in Nat /\ (\A c \in Dongle : amp[c] <= top) /\ \E c \in Dongle : amp[c] = top
  BY Extremes
<1>. HIDE DEF top
<1>2. ASSUME NEW c \in Dongle PROVE P(c) = Count * (amp[c] * amp[c])
  <2>1. clips[c] = Clip(amp[c], turn[c])
    BY Zenon DEF Clips
  <2>2. Combiner!Power(Clip(amp[c], turn[c])) = Count * (amp[c] * amp[c])
    BY PowerIs
  <2>. QED
    BY <2>1, <2>2, Zenon
<1>3. Combiner!Best(clips) = CHOOSE b \in 1 .. Len(clips) : Is(b)
  BY Zenon DEF Combiner!Best
<1>. HIDE DEF clips, P
<1>4. ASSUME NEW c \in Dongle, NEW e \in Dongle
      PROVE  (P(c) < P(e) <=> amp[c] < amp[e]) /\ (P(c) <= P(e) <=> amp[c] <= amp[e])
  <2>. DEFINE n == Count
              a == amp[c]
              b == amp[e]
  <2>1. n \in Nat \ {0} /\ a \in Nat /\ b \in Nat
    BY WaveIs
  <2>2. P(c) = n * (a * a) /\ P(e) = n * (b * b)
    BY <1>2, Zenon
  <2>. HIDE DEF n, a, b
  <2>3. /\ n * (a * a) < n * (b * b) <=> a < b
        /\ n * (a * a) <= n * (b * b) <=> a <= b
    BY <2>1, SquaresInOrder
  <2>. QED
    BY <2>2, <2>3, Zenon DEF a, b
<1>5. \E b \in Dongle : Is(b)
  <2>. DEFINE A == {n \in Nat : \A m \in Dongle : m <= n => amp[m] # top}
  <2>1. 0 \in A
    BY <1>0
  <2>2. ~(Nat \subseteq A)
    <3>1. PICK c \in Dongle : amp[c] = top
      BY <1>1
    <3>2. c \in Nat /\ c <= c
      BY <1>0
    <3>. QED
      BY <3>1, <3>2
  <2>3. ~(\A n \in Nat : n \in A => n + 1 \in A)
    <3>. HIDE DEF A
    <3>. QED
      BY <2>1, <2>2, Sums!NatSetInduction, Zenon
  <2>4. PICK n \in Nat : n \in A /\ n + 1 \notin A
    BY <2>3
  <2>5. PICK b \in Dongle : b <= n + 1 /\ amp[b] = top
    BY <2>4
  <2>6. b = n + 1 /\ \A m \in Dongle : m < b => amp[m] # top
    BY <1>0, <2>4, <2>5
  <2>7. ASSUME NEW c \in Dongle PROVE amp[c] <= amp[b] /\ (c < b => amp[c] < amp[b])
    <3>1. amp[c] \in Nat
      OBVIOUS
    <3>. QED
      BY <1>1, <2>5, <2>6, <3>1
  <2>8. \A c \in Dongle : P(c) <= P(b) /\ (c < b => P(c) < P(b))
    BY <1>4, <2>7
  <2>. QED
    BY <1>0, <2>8
<1>. HIDE DEF Is
<1>. DEFINE best == Combiner!Best(clips)
<1>6. best \in Dongle /\ Is(best)
  BY <1>0, <1>3, <1>5, Zenon
<1>7. PICK c \in Dongle : amp[c] = top
  BY <1>1
<1>8. P(c) <= P(best)
  BY <1>0, <1>6, <1>7 DEF Is
<1>9. amp[c] <= amp[best] /\ amp[best] <= top
  BY <1>1, <1>4, <1>6, <1>7, <1>8
<1>10. amp[best] = top
  <2>1. amp[best] \in Nat
    BY <1>6
  <2>. QED
    BY <1>1, <1>7, <1>9, <2>1
<1>. QED
  BY <1>6, <1>10 DEF clips, top

\* What the combiner makes of a signal that every channel hears in its own way.
LEMMA AlwaysAligns == AlignsAll
<1>. SUFFICES ASSUME NEW amp \in [Dongle -> Amplitudes], NEW turn \in [Dongle -> 0 .. 3],
                     NEW mode \in Combiner!Modes
     PROVE  LET sum == Combined(mode, amp, turn)
                all == {amp[d] : d \in Dongle}
            IN IF mode = "SelectionCombining"
                 THEN \E d \in Dongle : amp[d] = Max(all) /\ Along(sum, amp[d], turn[d])
                 ELSE \A d \in Dongle : Leads(amp, d) =>
                        \E gain \in Min(all) * sum.scale .. Max(all) * sum.scale :
                          gain > 0 /\ Along(sum, gain, turn[d])
  BY Zenon DEF AlignsAll
<1>. DEFINE sum == Combined(mode, amp, turn)
            all == {amp[d] : d \in Dongle}
            clips == Clips(amp, turn)
            best == Combiner!Best(clips)
            scale == Weights!Fold(0, 0, Weight(mode, amp, turn))
            total(i) == Sums!Fold(0, <<0, 0>>, Parts(mode, amp, turn, i))
<1>0. turn \in [Dongle -> Quarters] /\ amp \in [Dongle -> Nat]
  BY SignalAssumption DEF Quarters
<1>1. /\ sum = IF mode = "SelectionCombining"
                 THEN [scale |-> 1, samples |-> clips[best]]
                 ELSE Combiner!Aligned(mode, clips)
      /\ Combiner!Aligned(mode, clips) = [scale |-> scale, samples |-> [i \in 1 .. Count |-> total(i)]]
  BY <1>0, CombinedClips
<1>. HIDE DEF sum, scale, total
<1>2. CASE mode = "SelectionCombining"
  <2>1. best \in Dongle /\ amp[best] = Max(all)
    BY <1>0, BestIsStrongest
  <2>. HIDE DEF best, all
  <2>2. clips[best] = Clip(amp[best], turn[best])
    BY <2>1, Zenon DEF Clips
  <2>. HIDE DEF clips
  <2>3. sum.samples = Clip(amp[best], turn[best])
    BY <1>1, <1>2, <2>2
  <2>4. Along(sum, amp[best], turn[best])
    BY <2>3, Zenon DEF Along, Clip
  <2>. QED
    BY <1>2, <2>1, <2>4, Zenon DEF sum, all
<1>3. CASE mode # "SelectionCombining"
  <2>. SUFFICES ASSUME NEW r \in Dongle, Leads(amp, r)
       PROVE  \E gain \in Min(all) * sum.scale .. Max(all) * sum.scale :
                gain > 0 /\ Along(sum, gain, turn[r])
    BY <1>3, Zenon DEF sum
  <2>1. /\ Min(all) \in Nat /\ Max(all) \in Nat
        /\ \A c \in Dongle : Min(all) <= amp[c] /\ amp[c] <= Max(all)
    BY <1>0, Extremes
  <2>. DEFINE lo == Min(all)
              hi == Max(all)
  <2>. HIDE DEF lo, hi
  <2>2. PICK gain \in Nat : IsSum(mode, amp, turn, r, lo, hi, gain)
    <3>1. lo \in Nat /\ hi \in Nat /\ \A c \in Dongle : lo <= amp[c] /\ amp[c] <= hi
      BY <2>1, Zenon DEF lo, hi
    <3>. QED
      BY <1>0, <3>1, SumIs
  <2>3. /\ lo * scale <= gain /\ gain <= hi * scale /\ gain > 0 /\ scale \in Nat
        /\ \A i \in 1 .. Count : total(i) = Combiner!Scaled(gain, Combiner!Turned(Wave[i], turn[r]))
    BY <2>2, Zenon DEF IsSum, scale, total
  <2>4. sum.scale = scale /\ sum.samples = [i \in 1 .. Count |-> total(i)]
    BY <1>1, <1>3
  <2>5. Along(sum, gain, turn[r])
    BY <2>3, <2>4, Zenon DEF Along
  <2>6. gain \in lo * scale .. hi * scale
    <3>1. lo * scale \in Int /\ hi * scale \in Int
      BY <2>1, <2>3 DEF lo, hi
    <3>. QED
      BY <2>3, <3>1
  <2>. QED
    BY <2>3, <2>4, <2>5, <2>6, Zenon DEF lo, hi
<1>. QED
  BY <1>2, <1>3

\* For any number of dongles, any wave of constant amplitude that goes by quarter
\* turns, any amplitudes in whole thousandths and quarter turns at which the
\* dongles hear it and any capacity, combineBlocks makes of it one of the strongest
\* channels or a sum in phase with the leading one, no stronger than the strongest
\* and no weaker than the weakest.  The leading channel is the first, if it hears
\* the signal, or the only one that does; of a signal that several hear and the
\* first one does not, only what SelectionCombining makes is said.
THEOREM ReceiverAlignsChannels == Spec => []AlignedSum
<1>1. AlignedSum
  BY AlwaysAligns DEF AlignedSum
<1>. QED
  BY <1>1, PTL
=============================================================================
