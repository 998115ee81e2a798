------------------------- MODULE WebDashboardProofs -------------------------
(***************************************************************************)
(* Proofs about WebDashboard, for any clients and any number of frames.    *)
(*                                                                         *)
(* Three parts strengthen the type invariant.  Owners says what m_wsMutex  *)
(* is for, Serving who owns the descriptor the server thread is at, and    *)
(* Owed which clients may still lack the newest frame: none that a         *)
(* broadcast of it has passed and, when the decoder waits for samples,     *)
(* only the one that is being greeted, which is the last of the pool.      *)
(***************************************************************************)
EXTENDS WebDashboard, SequenceTheorems, TLAPS

\* A thread owns m_wsMutex exactly while it broadcasts.
Owners ==
  /\ \A t \in Broadcasters : wsMutex = t <=> At(t, "send")
  /\ MutexFree => pos = 1

\* The descriptor the server thread is serving is open and its own.
Serving ==
  IF pc["server"] \in {"recv", "respond", "handshake", "push"}
    THEN clientSock \in Clients /\ sock[clientSock] = "open" /\ clientSock \notin Pooled
    ELSE clientSock = "none"

\* No frame is newer than m_latestFrame, and the decoder broadcasts that one.
Newest ==
  /\ \A c \in Clients : seen[c] <= latest
  /\ \A t \in Broadcasters : payload[t] <= latest
  /\ pc["dsp"] \in {"wait", "send"} => payload["dsp"] = latest

Fresh(i) == peer[wsClients[i]] = "here" => seen[wsClients[i]] = latest

Quiet == pc["dsp"] \in {"idle", "done"}

Owed ==
  /\ At("dsp", "send") \/ (Quiet /\ At("server", "send")) =>
       \A i \in 1 .. Len(wsClients) : i < pos => Fresh(i)
  /\ Quiet => \A i \in 1 .. Len(wsClients) : Fresh(i) \/ (Greeting /\ i = Len(wsClients))
  /\ Quiet /\ pc["server"] \in {"wait", "send"} =>
       payload["server"] = latest \/ \A i \in 1 .. Len(wsClients) : Fresh(i)

PoolInv ==
  /\ \A c \in Pooled : sock[c] = "open"
  /\ IsInjective(wsClients)

WebInv == TypeOK /\ Owners /\ Serving /\ PoolInv /\ Newest /\ Owed

-----------------------------------------------------------------------------
(* Sequences without repetition. *)

LEMMA RemoveOne ==
  ASSUME NEW S, NEW s \in Seq(S), NEW p \in 1 .. Len(s)
  PROVE  /\ RemoveAt(s, p) \in Seq(S)
         /\ Len(RemoveAt(s, p)) = Len(s) - 1
         /\ \A i \in 1 .. Len(s) - 1 : RemoveAt(s, p)[i] = IF i < p THEN s[i] ELSE s[i + 1]
<1>. DEFINE before == SubSeq(s, 1, p - 1)
            after == SubSeq(s, p + 1, Len(s))
<1>1. Len(s) \in Nat /\ p \in Nat /\ 1 <= p /\ p <= Len(s)
  OBVIOUS
<1>2. /\ before \in Seq(S) /\ Len(before) = p - 1
      /\ \A i \in 1 .. p - 1 : before[i] = s[i]
  OBVIOUS
<1>3. /\ after \in Seq(S) /\ Len(after) = Len(s) - p
      /\ \A i \in 1 .. Len(s) - p : after[i] = s[i + p]
  OBVIOUS
<1>4. RemoveAt(s, p) = before \o after
  BY DEF RemoveAt
<1>. HIDE DEF before, after
<1>5. /\ before \o after \in Seq(S)
      /\ Len(before \o after) = Len(s) - 1
  <2>1. /\ before \o after \in Seq(S)
        /\ Len(before \o after) = Len(before) + Len(after)
    BY <1>2, <1>3, ConcatProperties
  <2>2. QED
    BY <1>1, <1>2, <1>3, <2>1
<1>6. ASSUME NEW i \in 1 .. Len(s) - 1
      PROVE  (before \o after)[i] = IF i < p THEN s[i] ELSE s[i + 1]
  <2>1. (before \o after)[i] = IF i <= Len(before) THEN before[i] ELSE after[i - Len(before)]
    BY <1>1, <1>2, <1>3
  <2>2. CASE i < p
    BY <1>1, <1>2, <2>1, <2>2
  <2>3. CASE ~(i < p)
    <3>1. i - (p - 1) \in 1 .. Len(s) - p /\ (i - (p - 1)) + p = i + 1 /\ ~(i <= p - 1)
      BY <1>1, <2>3
    <3>2. after[i - (p - 1)] = s[i + 1]
      BY <1>3, <3>1
    <3>3. QED
      BY <1>2, <2>1, <2>3, <3>1, <3>2
  <2>4. QED
    BY <2>2, <2>3
<1>7. QED
  BY <1>4, <1>5, <1>6

LEMMA RemoveInjective ==
  ASSUME NEW S, NEW s \in Seq(S), IsInjective(s), NEW p \in 1 .. Len(s)
  PROVE  /\ IsInjective(RemoveAt(s, p))
         /\ ToSet(RemoveAt(s, p)) = ToSet(s) \ {s[p]}
<1>. DEFINE r == RemoveAt(s, p)
<1>1. /\ Len(s) \in Nat /\ DOMAIN s = 1 .. Len(s) /\ DOMAIN r = 1 .. Len(s) - 1
      /\ \A i \in 1 .. Len(s) - 1 : r[i] = IF i < p THEN s[i] ELSE s[i + 1]
  <2>1. Len(s) \in Nat /\ DOMAIN s = 1 .. Len(s)
    OBVIOUS
  <2>2. r \in Seq(S) /\ Len(r) = Len(s) - 1
    BY RemoveOne
  <2>3. DOMAIN r = 1 .. Len(s) - 1
    BY <2>2
  <2>4. QED
    BY <2>1, <2>3, RemoveOne
<1>. HIDE DEF r
<1>. DEFINE was(i) == IF i < p THEN i ELSE i + 1
<1>2. IsInjective(r)
  <2>. SUFFICES ASSUME NEW a \in 1 .. Len(s) - 1, NEW b \in 1 .. Len(s) - 1, r[a] = r[b]
                PROVE  a = b
    BY <1>1 DEF IsInjective
  <2>1. was(a) \in 1 .. Len(s) /\ was(b) \in 1 .. Len(s)
    BY <1>1
  <2>2. s[was(a)] = s[was(b)]
    BY <1>1
  <2>3. was(a) = was(b)
    BY <1>1, <2>1, <2>2 DEF IsInjective
  <2>4. QED
    BY <2>3
<1>3. ASSUME NEW x \in ToSet(r) PROVE x \in ToSet(s) \ {s[p]}
  <2>1. PICK i \in 1 .. Len(s) - 1 : x = r[i]
    BY <1>1 DEF ToSet
  <2>2. x = s[was(i)] /\ was(i) \in 1 .. Len(s) /\ was(i) # p
    BY <1>1, <2>1
  <2>3. QED
    BY <1>1, <2>2 DEF IsInjective, ToSet
<1>4. ASSUME NEW x \in ToSet(s) \ {s[p]} PROVE x \in ToSet(r)
  <2>1. PICK i \in 1 .. Len(s) : x = s[i] /\ i # p
    BY <1>1 DEF ToSet
  <2>2. CASE i < p
    BY <1>1, <2>1, <2>2 DEF ToSet
  <2>3. CASE i > p
    <3>1. i - 1 \in 1 .. Len(s) - 1 /\ r[i - 1] = x
      BY <1>1, <2>1, <2>3
    <3>2. QED
      BY <1>1, <3>1 DEF ToSet
  <2>4. QED
    BY <2>1, <2>2, <2>3
<1>5. QED
  BY <1>2, <1>3, <1>4 DEF r

LEMMA AppendNew ==
  ASSUME NEW S, NEW s \in Seq(S), NEW x \in S
  PROVE  /\ Append(s, x) \in Seq(S) /\ Len(Append(s, x)) = Len(s) + 1
         /\ \A i \in 1 .. Len(s) : Append(s, x)[i] = s[i]
         /\ Append(s, x)[Len(s) + 1] = x
         /\ ToSet(Append(s, x)) = ToSet(s) \cup {x}
         /\ IsInjective(s) /\ x \notin ToSet(s) => IsInjective(Append(s, x))
<1>. DEFINE a == Append(s, x)
<1>1. /\ Len(s) \in Nat /\ DOMAIN s = 1 .. Len(s)
      /\ a \in Seq(S) /\ Len(a) = Len(s) + 1 /\ DOMAIN a = 1 .. Len(s) + 1
      /\ \A i \in 1 .. Len(s) : a[i] = s[i]
      /\ a[Len(s) + 1] = x
  OBVIOUS
<1>. HIDE DEF a
<1>2. ToSet(a) = ToSet(s) \cup {x}
  BY <1>1 DEF ToSet
<1>3. ASSUME IsInjective(s), x \notin ToSet(s) PROVE IsInjective(a)
  BY <1>1, <1>3 DEF IsInjective, ToSet
<1>4. QED
  BY <1>1, <1>2, <1>3 DEF a

LEMMA PooledAt ==
  ASSUME NEW S, NEW s \in Seq(S), NEW i \in 1 .. Len(s)
  PROVE  s[i] \in S /\ s[i] \in ToSet(s)
BY DEF ToSet
-----------------------------------------------------------------------------
\* The members of the pool are clients.
LEMMA PooledClients ==
  ASSUME WebInv
  PROVE  Pooled \subseteq Clients
BY DEF WebInv, TypeOK, Pooled, ToSet

\* Where a step takes one thread, and that it leaves the other where it is.
LEMMA GotoTyped ==
  ASSUME TypeOK, NEW t \in Broadcasters, NEW label, Goto(t, label)
  PROVE  /\ DOMAIN pc' = Broadcasters
         /\ pc'[t] = label
         /\ \A u \in Broadcasters \ {t} : pc'[u] = pc[u]
BY DEF TypeOK, Goto

LEMMA DieKeeps ==
  ASSUME WebInv, Die
  PROVE  WebInv'
<1>1. /\ DOMAIN pc' = Broadcasters
      /\ \A t \in Broadcasters : pc'[t] = "done"
      /\ main' = "killed" /\ running' = FALSE /\ listener' = "invalid"
      /\ wsMutex' = "none" /\ wsClients' = <<>> /\ pos' = 1 /\ clientSock' = "none"
      /\ sock' = [c \in Clients |-> "closed"]
      /\ UNCHANGED <<latest, payload, peer, request, unread, seen>>
  BY DEF Die, frameVars, clientVars
<1>2. wsClients' \in Seq(Clients) /\ Len(wsClients') = 0 /\ DOMAIN wsClients' = {}
  BY <1>1
<1>3. TypeOK'
  <2>1. pos' \in 1 .. Len(wsClients') + 1
    BY <1>1, <1>2
  <2>2. QED
    BY <1>1, <1>2, <2>1 DEF WebInv, TypeOK, Broadcasters, ServerLabels
<1>4. PoolInv'
  BY <1>2 DEF PoolInv, Pooled, ToSet, IsInjective
<1>5. Owners' /\ Serving' /\ Newest' /\ Owed'
  BY <1>1, <1>2 DEF WebInv, Owners, Serving, Newest, Owed, Greeting, At, Broadcasters
<1>6. QED
  BY <1>3, <1>4, <1>5 DEF WebInv

-----------------------------------------------------------------------------
(* The clients.                                                            *)

LEMMA ClientKeeps ==
  ASSUME WebInv, NEW c \in Clients, Connect(c) \/ Send(c) \/ Read(c) \/ Leave(c)
  PROVE  WebInv'
<1>. USE DEF poolVars, frameVars, clientVars
<1>1. UNCHANGED <<main, pc, running, listener, wsMutex, wsClients, pos, latest, payload, clientSock, seen>>
  BY DEF Connect, Send, Read, Leave
<1>2. TypeOK'
  <2>1. sock' \in [Clients -> {"none", "backlog", "open", "closed"}]
        /\ peer' \in [Clients -> {"here", "gone"}]
        /\ request' \in [Clients -> {"none", "page", "websocket"}]
    <3>1. /\ sock \in [Clients -> {"none", "backlog", "open", "closed"}]
          /\ peer \in [Clients -> {"here", "gone"}]
          /\ request \in [Clients -> {"none", "page", "websocket"}]
      BY DEF WebInv, TypeOK
    <3>2. QED
      BY <3>1 DEF Connect, Send, Read, Leave
  <2>2. unread' \in [Clients -> 0 .. Room]
    <3>1. unread[c] \in 0 .. Room /\ Room \in Nat
      BY WebAssumption DEF WebInv, TypeOK
    <3>2. CASE Read(c)
      <4>1. unread' = [unread EXCEPT ![c] = @ - 1] /\ unread[c] - 1 \in 0 .. Room
        BY <3>1, <3>2 DEF Read
      <4>2. QED
        BY <4>1 DEF WebInv, TypeOK
    <3>3. CASE Leave(c)
      BY <3>1, <3>3 DEF Leave, WebInv, TypeOK
    <3>4. QED
      BY <3>2, <3>3 DEF Connect, Send, WebInv, TypeOK
  <2>3. QED
    BY <1>1, <2>1, <2>2 DEF WebInv, TypeOK
<1>3. \A d \in Clients : /\ sock[d] = "open" => sock'[d] = "open"
                         /\ peer'[d] = "here" => peer[d] = "here"
  BY DEF WebInv, TypeOK, Connect, Send, Read, Leave
<1>4. Owners' /\ Newest'
  BY <1>1 DEF WebInv, Owners, Newest, At, MutexFree
<1>5. Serving'
  BY <1>1, <1>3 DEF WebInv, Serving, Pooled
<1>6. PoolInv'
  BY <1>1, <1>3, PooledClients DEF WebInv, PoolInv, Pooled
<1>7. \A i \in 1 .. Len(wsClients) : Fresh(i) => Fresh(i)'
  BY <1>1, <1>3, PooledAt DEF WebInv, TypeOK, Fresh
<1>8. Owed'
  BY <1>1, <1>7 DEF WebInv, Owed, Quiet, Greeting, At
<1>9. QED
  BY <1>2, <1>4, <1>5, <1>6, <1>8 DEF WebInv

-----------------------------------------------------------------------------
(* A broadcast.                                                            *)

LEMMA UpdateKeeps ==
  ASSUME WebInv, UpdateTelemetry
  PROVE  WebInv'
<1>1. /\ latest' = latest + 1 /\ latest \in Nat /\ latest < MaxFrame
      /\ payload' = [payload EXCEPT !["dsp"] = latest']
      /\ UNCHANGED <<main, running, listener, wsMutex, wsClients, pos, clientSock, sock,
                     peer, request, unread, seen>>
      /\ pc'["dsp"] = "wait" /\ pc["dsp"] = "idle" /\ pc'["server"] = pc["server"]
      /\ DOMAIN pc' = Broadcasters
  BY GotoTyped, WebAssumption
  DEF WebInv, TypeOK, UpdateTelemetry, At, Broadcasters, poolVars, clientVars
<1>2. TypeOK'
  BY <1>1, WebAssumption DEF WebInv, TypeOK, Broadcasters
<1>3. Owners' /\ Serving' /\ PoolInv'
  BY <1>1 DEF WebInv, Owners, Serving, PoolInv, Pooled, At, Broadcasters, MutexFree
<1>4. Newest'
  BY <1>1 DEF WebInv, TypeOK, Newest, Broadcasters
<1>5. Owed'
  BY <1>1 DEF Owed, Quiet, At
<1>6. QED
  BY <1>2, <1>3, <1>4, <1>5 DEF WebInv

LEMMA LockKeeps ==
  ASSUME WebInv, NEW t \in Broadcasters, LockPool(t)
  PROVE  WebInv'
<1>1. /\ wsMutex = "none" /\ wsMutex' = t /\ pos' = 1
      /\ UNCHANGED <<main, running, listener, wsClients, latest, payload, clientSock, sock,
                     peer, request, unread, seen>>
      /\ pc[t] = "wait" /\ pc'[t] = "send" /\ DOMAIN pc' = Broadcasters
      /\ \A u \in Broadcasters \ {t} : pc'[u] = pc[u] /\ pc[u] # "send"
  BY GotoTyped
  DEF WebInv, Owners, LockPool, At, MutexFree, Broadcasters, frameVars, clientVars
<1>2. TypeOK'
  BY <1>1 DEF WebInv, TypeOK, Broadcasters, ServerLabels
<1>3. Owners' /\ Serving' /\ PoolInv' /\ Newest'
  BY <1>1 DEF WebInv, Owners, Serving, PoolInv, Pooled, Newest, At, Broadcasters, MutexFree
<1>4. Owed'
  BY <1>1 DEF WebInv, Owed, Fresh, Quiet, Greeting, At, Broadcasters
<1>5. QED
  BY <1>2, <1>3, <1>4 DEF WebInv

\* The owner of m_wsMutex, while the decoder is not waiting for it, either has
\* the newest frame in hand or nothing to add.
LEMMA Worthwhile ==
  ASSUME WebInv, NEW t \in Broadcasters, At(t, "send")
  PROVE  /\ t = "dsp" => payload[t] = latest
         /\ t = "server" => ~At("dsp", "send")
         /\ t = "server" /\ Quiet =>
              payload[t] = latest \/ \A i \in 1 .. Len(wsClients) : Fresh(i)
         /\ \A u \in Broadcasters : At(u, "send") => u = t
BY DEF WebInv, Owners, Newest, Owed, At, Broadcasters

LEMMA DeliverKeeps ==
  ASSUME WebInv, NEW t \in Broadcasters, Deliver(t)
  PROVE  WebInv'
<1>. DEFINE c == wsClients[pos]
<1>1. /\ At(t, "send") /\ pos \in 1 .. Len(wsClients)
      /\ c \in Clients /\ unread[c] < Room
      /\ unread' = [unread EXCEPT ![c] = @ + 1]
      /\ seen' = [seen EXCEPT ![c] = IF @ < payload[t] THEN payload[t] ELSE @]
      /\ pos' = pos + 1
      /\ UNCHANGED <<main, pc, running, listener, wsMutex, wsClients, latest, payload, clientSock,
                     sock, peer, request>>
  BY PooledAt DEF WebInv, TypeOK, Deliver, NextAfter, frameVars
<1>. HIDE DEF c
<1>2. TypeOK'
  <2>1. unread' \in [Clients -> 0 .. Room]
    <3>1. unread \in [Clients -> 0 .. Room] /\ Room \in Nat
      BY WebAssumption DEF WebInv, TypeOK
    <3>2. unread[c] + 1 \in 0 .. Room
      BY <1>1, <3>1
    <3>3. QED
      BY <1>1, <3>1, <3>2
  <2>2. seen' \in [Clients -> 0 .. MaxFrame]
    BY <1>1 DEF WebInv, TypeOK
  <2>3. pos' \in 1 .. Len(wsClients) + 1
    BY <1>1 DEF WebInv, TypeOK
  <2>4. QED
    BY <1>1, <2>1, <2>2, <2>3 DEF WebInv, TypeOK
<1>3. Owners'
  BY <1>1 DEF WebInv, Owners, At, MutexFree, Broadcasters
<1>4. Serving' /\ PoolInv'
  BY <1>1 DEF WebInv, Serving, PoolInv, Pooled
<1>5. \A d \in Clients : /\ seen'[d] <= latest
                         /\ seen[d] = latest => seen'[d] = latest
                         /\ d = c /\ payload[t] = latest => seen'[d] = latest
  <2>1. /\ payload[t] <= latest /\ payload[t] \in Nat /\ latest \in Nat
        /\ \A d \in Clients : seen[d] <= latest /\ seen[d] \in Nat
        /\ seen \in [Clients -> 0 .. MaxFrame]
    BY DEF WebInv, TypeOK, Newest
  <2>2. QED
    BY <1>1, <2>1
<1>6. Newest'
  BY <1>1, <1>5 DEF WebInv, Newest
<1>7. ASSUME NEW i \in 1 .. Len(wsClients), Fresh(i) \/ (i = pos /\ payload[t] = latest)
      PROVE  Fresh(i)'
  BY <1>1, <1>5, <1>7, PooledAt DEF WebInv, TypeOK, Fresh, c
<1>8. ASSUME At("dsp", "send") \/ (Quiet /\ At("server", "send")),
             NEW i \in 1 .. Len(wsClients), i < pos + 1
      PROVE  Fresh(i)'
  <2>1. i < pos \/ i = pos
    BY <1>1, <1>8
  <2>2. Fresh(i) \/ (i = pos /\ payload[t] = latest)
    BY <1>1, <1>8, <2>1, Worthwhile DEF WebInv, Owed, Broadcasters
  <2>3. QED
    BY <1>7, <2>2
<1>9. Owed'
  BY <1>1, <1>7, <1>8 DEF WebInv, Owed, Quiet, Greeting, At
<1>10. QED
  BY <1>2, <1>3, <1>4, <1>6, <1>9 DEF WebInv

LEMMA SkipGoneKeeps ==
  ASSUME WebInv, NEW t \in Broadcasters, SendToGone(t), pos' = pos + 1, UNCHANGED <<wsClients, sock>>
  PROVE  WebInv'
<1>1. /\ At(t, "send") /\ pos \in 1 .. Len(wsClients) /\ pos + 1 \in 1 .. Len(wsClients) + 1
      /\ peer[wsClients[pos]] = "gone"
      /\ UNCHANGED <<main, pc, running, listener, wsMutex, latest, payload, clientSock,
                     peer, request, unread, seen>>
  BY DEF WebInv, TypeOK, SendToGone, frameVars, clientVars
<1>2. TypeOK'
  BY <1>1 DEF WebInv, TypeOK
<1>3. Owners' /\ Serving' /\ PoolInv' /\ Newest'
  BY <1>1 DEF WebInv, Owners, Serving, PoolInv, Pooled, Newest, At, MutexFree, Broadcasters
<1>4. ASSUME NEW i \in 1 .. Len(wsClients), Fresh(i) \/ i = pos
      PROVE  Fresh(i)'
  BY <1>1, <1>4 DEF Fresh
<1>5. \A i \in 1 .. Len(wsClients) : i < pos + 1 => i < pos \/ i = pos
  BY <1>1
<1>6. Owed'
  BY <1>1, <1>4, <1>5 DEF WebInv, Owed, Quiet, Greeting, At
<1>7. QED
  BY <1>2, <1>3, <1>6 DEF WebInv

\* A client that is removed leaves the others in the order they are in.
LEMMA DropGoneKeeps ==
  ASSUME WebInv, NEW t \in Broadcasters, SendToGone(t),
         wsClients' = RemoveAt(wsClients, pos),
         sock' = [sock EXCEPT ![wsClients[pos]] = "closed"],
         UNCHANGED pos
  PROVE  WebInv'
<1>. DEFINE c == wsClients[pos]
<1>1. /\ At(t, "send") /\ pos \in 1 .. Len(wsClients)
      /\ UNCHANGED <<main, pc, running, listener, wsMutex, latest, payload, clientSock,
                     peer, request, unread, seen>>
      /\ Len(wsClients) \in Nat /\ c \in Clients /\ c \in Pooled
  BY PooledAt DEF WebInv, TypeOK, SendToGone, Pooled, frameVars, clientVars
<1>2. /\ wsClients' \in Seq(Clients) /\ Len(wsClients') = Len(wsClients) - 1
      /\ \A i \in 1 .. Len(wsClients) - 1 :
           wsClients'[i] = IF i < pos THEN wsClients[i] ELSE wsClients[i + 1]
  BY <1>1, RemoveOne DEF WebInv, TypeOK
<1>3. IsInjective(wsClients') /\ Pooled' = Pooled \ {c}
  BY <1>1, RemoveInjective DEF WebInv, TypeOK, PoolInv, Pooled
<1>4. TypeOK'
  <2>1. pos \in 1 .. Len(wsClients') + 1
    BY <1>1, <1>2
  <2>2. QED
    BY <1>1, <1>2, <2>1 DEF WebInv, TypeOK
<1>5. \A d \in Clients \ {c} : sock'[d] = sock[d]
  BY DEF WebInv, TypeOK
<1>6. Serving'
  BY <1>1, <1>3, <1>5 DEF WebInv, Serving
<1>7. PoolInv'
  BY <1>3, <1>5, PooledClients DEF WebInv, PoolInv
<1>8. Owners' /\ Newest'
  BY <1>1 DEF WebInv, Owners, Newest, At, MutexFree
<1>9. ASSUME NEW i \in 1 .. Len(wsClients')
      PROVE  /\ i \in 1 .. Len(wsClients) /\ i + 1 \in 1 .. Len(wsClients)
             /\ i < pos /\ Fresh(i) => Fresh(i)'
             /\ ~(i < pos) /\ Fresh(i + 1) => Fresh(i)'
             /\ i < pos /\ i = Len(wsClients) => FALSE
             /\ i + 1 = Len(wsClients) => i = Len(wsClients')
  BY <1>1, <1>2 DEF Fresh
<1>10. ASSUME At("dsp", "send") \/ (Quiet /\ At("server", "send")),
              NEW i \in 1 .. Len(wsClients'), i < pos
       PROVE  Fresh(i)'
  BY <1>9, <1>10 DEF WebInv, Owed
<1>11. ASSUME Quiet, NEW i \in 1 .. Len(wsClients')
       PROVE  Fresh(i)' \/ (Greeting /\ i = Len(wsClients'))
  BY <1>9, <1>11 DEF WebInv, Owed
<1>12. ASSUME \A i \in 1 .. Len(wsClients) : Fresh(i), NEW i \in 1 .. Len(wsClients')
       PROVE  Fresh(i)'
  BY <1>9, <1>12
<1>13. Owed'
  BY <1>1, <1>10, <1>11, <1>12 DEF WebInv, Owed, Quiet, Greeting, At
<1>14. QED
  BY <1>4, <1>6, <1>7, <1>8, <1>13 DEF WebInv

LEMMA UnlockKeeps ==
  ASSUME WebInv, NEW t \in Broadcasters, UnlockPool(t)
  PROVE  WebInv'
<1>1. /\ wsMutex' = "none" /\ pos' = 1
      /\ payload' = [payload EXCEPT ![t] = 0]
      /\ UNCHANGED <<main, running, listener, wsClients, latest, clientSock, sock,
                     peer, request, unread, seen>>
      /\ pc[t] = "send" /\ pc'[t] = (IF t = "dsp" THEN "idle" ELSE "loop")
      /\ DOMAIN pc' = Broadcasters
      /\ \A u \in Broadcasters \ {t} : pc'[u] = pc[u] /\ pc[u] # "send"
      /\ \A i \in 1 .. Len(wsClients) : i < pos
  <2>1. /\ wsMutex' = "none" /\ pos' = 1
        /\ payload' = [payload EXCEPT ![t] = 0]
        /\ UNCHANGED <<main, running, listener, wsClients, latest, clientSock, sock,
                       peer, request, unread, seen>>
        /\ pc[t] = "send" /\ Goto(t, IF t = "dsp" THEN "idle" ELSE "loop")
        /\ pos > Len(wsClients)
    BY DEF UnlockPool, At, clientVars
  <2>2. \A u \in Broadcasters \ {t} : pc[u] # "send"
    BY <2>1 DEF WebInv, Owners, At
  <2>3. \A i \in 1 .. Len(wsClients) : i < pos
    BY <2>1 DEF WebInv, TypeOK
  <2>4. QED
    BY <2>1, <2>2, <2>3, GotoTyped DEF WebInv
<1>2. TypeOK'
  BY <1>1, WebAssumption DEF WebInv, TypeOK, Broadcasters, ServerLabels
<1>3. Owners' /\ Serving' /\ PoolInv'
  BY <1>1 DEF WebInv, Owners, Serving, PoolInv, Pooled, At, Broadcasters, MutexFree
<1>4. Newest'
  BY <1>1 DEF WebInv, TypeOK, Newest, Broadcasters
<1>5. \A i \in 1 .. Len(wsClients) : Fresh(i)' = Fresh(i)
  BY <1>1 DEF Fresh
<1>6. t = "dsp" \/ Quiet => \A i \in 1 .. Len(wsClients) : Fresh(i)
  BY <1>1 DEF WebInv, Owed, At, Broadcasters
<1>7. Owed'
  BY <1>1, <1>5, <1>6 DEF Owed, Quiet, At, Broadcasters
<1>8. QED
  BY <1>2, <1>3, <1>4, <1>7 DEF WebInv

-----------------------------------------------------------------------------
(* The server thread and the main thread.                                  *)

\* Steps that leave the pool, the frames and the greeting alone.
LEMMA OffPool ==
  ASSUME WebInv,
         UNCHANGED <<wsMutex, wsClients, pos, latest, payload, peer, seen>>,
         DOMAIN pc' = Broadcasters,
         pc'["server"] = pc["server"] \/ (~Greeting /\ ~Greeting'),
         pc'["dsp"] = pc["dsp"] \/ (Quiet /\ Quiet')
  PROVE  Owners' /\ Newest' /\ Owed'
<1>1. \A t \in Broadcasters : At(t, "send")' <=> At(t, "send")
  BY DEF Broadcasters, Greeting, Quiet, At
<1>2. Owners'
  BY <1>1 DEF WebInv, Owners, MutexFree
<1>3. Newest'
  BY DEF WebInv, Newest, Quiet
<1>4. \A i \in 1 .. Len(wsClients) : Fresh(i)' = Fresh(i)
  BY DEF Fresh
<1>5. (Quiet' <=> Quiet) /\ (Greeting' <=> Greeting)
      /\ (pc'["server"] \in {"wait", "send"} <=> pc["server"] \in {"wait", "send"})
  BY DEF Quiet, Greeting
<1>6. Owed'
  BY <1>1, <1>4, <1>5 DEF WebInv, Owed, Broadcasters
<1>7. QED
  BY <1>2, <1>3, <1>6

LEMMA ServerKeeps ==
  ASSUME WebInv, Server
  PROVE  WebInv'
<1>. USE DEF poolVars, frameVars, clientVars
<1>1. /\ UNCHANGED <<main, running, listener, wsMutex, wsClients, pos, latest,
                     peer, request, unread, seen>>
      /\ DOMAIN pc' = Broadcasters /\ pc'["dsp"] = pc["dsp"]
      /\ pc'["server"] \in ServerLabels
      /\ payload' \in [Broadcasters -> 0 .. MaxFrame]
  <2>1. PICK label \in ServerLabels : Goto("server", label)
    BY DEF Server, CheckRunning, CheckListener, Select, Accept, Receive, ReceiveNothing, Respond,
           Handshake, TakeSnapshot, HangUp, Then, ServerLabels
  <2>2. DOMAIN pc' = Broadcasters /\ pc'["dsp"] = pc["dsp"] /\ pc'["server"] \in ServerLabels
    BY <2>1, GotoTyped DEF WebInv, Broadcasters
  <2>3. UNCHANGED <<main, running, listener, wsMutex, wsClients, pos, latest,
                    peer, request, unread, seen>>
    BY DEF Server, CheckRunning, CheckListener, Select, Accept, Receive, ReceiveNothing, Respond,
           Handshake, TakeSnapshot
  <2>4. payload' = payload \/ payload' = [payload EXCEPT !["server"] = latest]
    BY DEF Server, CheckRunning, CheckListener, Select, Accept, Receive, ReceiveNothing, Respond,
           Handshake, TakeSnapshot
  <2>5. QED
    BY <2>2, <2>3, <2>4 DEF WebInv, TypeOK
<1>. DEFINE label == pc["server"]
<1>2. CASE CheckRunning \/ CheckListener \/ Select
  <2>1. /\ UNCHANGED <<clientSock, sock, payload>>
        /\ label \in {"loop", "listening?", "select"}
        /\ pc'["server"] \in {"loop", "listening?", "select", "accept", "done"}
    BY <1>2 DEF CheckRunning, CheckListener, Select, At, Goto, WebInv, TypeOK, Broadcasters
  <2>2. Owners' /\ Newest' /\ Owed'
    BY <1>1, <2>1, OffPool DEF Greeting
  <2>3. TypeOK'
    BY <1>1, <2>1 DEF WebInv, TypeOK
  <2>4. Serving' /\ PoolInv'
    BY <1>1, <2>1 DEF WebInv, Serving, PoolInv, Pooled
  <2>5. QED
    BY <2>2, <2>3, <2>4 DEF WebInv
<1>3. CASE Accept
  <2>1. /\ UNCHANGED payload
        /\ label = "accept"
        /\ pc'["server"] \in {"recv", "loop", "done"}
    BY <1>3 DEF Accept, At, Goto, WebInv, TypeOK, Broadcasters
  <2>2. Owners' /\ Newest' /\ Owed'
    BY <1>1, <2>1, OffPool DEF Greeting
  <2>3. CASE listener = "open"
    <3>1. PICK c \in Clients : /\ sock[c] = "backlog" /\ clientSock' = c
                              /\ sock' = [sock EXCEPT ![c] = "open"]
                              /\ pc'["server"] = "recv"
      BY <1>3, <2>3 DEF Accept, Backlog, Goto, WebInv, TypeOK, Broadcasters
    <3>2. sock' \in [Clients -> {"none", "backlog", "open", "closed"}]
          /\ sock'[c] = "open" /\ \A d \in Clients : sock[d] = "open" => sock'[d] = "open"
      BY <3>1 DEF WebInv, TypeOK
    <3>3. TypeOK'
      BY <1>1, <2>1, <3>1, <3>2 DEF WebInv, TypeOK
    <3>4. Serving'
      BY <1>1, <3>1, <3>2 DEF WebInv, Serving, PoolInv, Pooled
    <3>5. PoolInv'
      BY <1>1, <3>2, PooledClients DEF WebInv, PoolInv, Pooled
    <3>6. QED
      BY <2>2, <3>3, <3>4, <3>5 DEF WebInv
  <2>4. CASE listener # "open"
    <3>1. UNCHANGED <<clientSock, sock>> /\ pc'["server"] \in {"loop", "done"}
      BY <1>3, <2>4 DEF Accept, Goto, WebInv, TypeOK, Broadcasters
    <3>2. TypeOK'
      BY <1>1, <2>1, <3>1 DEF WebInv, TypeOK
    <3>3. Serving' /\ PoolInv'
      BY <1>1, <2>1, <3>1 DEF WebInv, Serving, PoolInv, Pooled
    <3>4. QED
      BY <2>2, <3>2, <3>3 DEF WebInv
  <2>5. QED
    BY <2>3, <2>4
<1>4. CASE Receive \/ Handshake
  <2>1. /\ UNCHANGED <<clientSock, sock, payload>>
        /\ label \in {"recv", "handshake"}
        /\ pc'["server"] \in {"respond", "handshake", "push"}
    BY <1>4 DEF Receive, Handshake, Then, At, Goto, WebInv, TypeOK, Broadcasters
  <2>2. Owners' /\ Newest' /\ Owed'
    BY <1>1, <2>1, OffPool DEF Greeting
  <2>3. TypeOK'
    BY <1>1, <2>1 DEF WebInv, TypeOK
  <2>4. Serving' /\ PoolInv'
    BY <1>1, <2>1 DEF WebInv, Serving, PoolInv, Pooled
  <2>5. QED
    BY <2>2, <2>3, <2>4 DEF WebInv
<1>5. CASE ReceiveNothing \/ Respond
  <2>1. /\ UNCHANGED payload
        /\ label \in {"recv", "respond"}
        /\ pc'["server"] = "loop" /\ clientSock' = "none"
        /\ sock' = [sock EXCEPT ![clientSock] = "closed"]
    BY <1>5 DEF ReceiveNothing, Respond, HangUp, At, Goto, WebInv, TypeOK, Broadcasters
  <2>2. Owners' /\ Newest' /\ Owed'
    BY <1>1, <2>1, OffPool DEF Greeting
  <2>3. clientSock \in Clients /\ clientSock \notin Pooled
    BY <2>1 DEF WebInv, Serving
  <2>4. /\ sock' \in [Clients -> {"none", "backlog", "open", "closed"}]
        /\ \A d \in Clients \ {clientSock} : sock'[d] = sock[d]
    BY <2>1, <2>3 DEF WebInv, TypeOK
  <2>5. TypeOK'
    BY <1>1, <2>1, <2>4 DEF WebInv, TypeOK
  <2>6. Serving'
    BY <2>1 DEF Serving
  <2>7. PoolInv'
    BY <1>1, <2>3, <2>4, PooledClients DEF WebInv, PoolInv, Pooled
  <2>8. QED
    BY <2>2, <2>5, <2>6, <2>7 DEF WebInv
<1>6. CASE TakeSnapshot
  <2>1. /\ UNCHANGED <<clientSock, sock>>
        /\ payload' = [payload EXCEPT !["server"] = latest]
        /\ label = "snapshot" /\ pc'["server"] = "wait"
    BY <1>6 DEF TakeSnapshot, Then, At, Goto, WebInv, TypeOK, Broadcasters
  <2>2. /\ payload'["server"] = latest
        /\ payload'["dsp"] = payload["dsp"] /\ latest <= latest
    BY <2>1 DEF WebInv, TypeOK, Broadcasters
  <2>3. TypeOK'
    BY <1>1, <2>1 DEF WebInv, TypeOK
  <2>4. Owners' /\ Serving' /\ PoolInv' /\ Newest'
    BY <1>1, <2>1, <2>2
    DEF WebInv, Owners, Serving, PoolInv, Newest, Pooled, At, MutexFree, Broadcasters
  <2>5. Owed'
    BY <1>1, <2>1, <2>2 DEF WebInv, Owed, Fresh, Quiet, Greeting, At
  <2>6. QED
    BY <2>3, <2>4, <2>5 DEF WebInv
<1>7. QED
  BY <1>2, <1>3, <1>4, <1>5, <1>6 DEF Server

\* The client that is greeted joins the pool as its last member.
LEMMA PushKeeps ==
  ASSUME WebInv, Push
  PROVE  WebInv'
<1>1. /\ wsMutex = "none" /\ pos = 1
      /\ wsClients' = Append(wsClients, clientSock)
      /\ clientSock' = "none"
      /\ UNCHANGED <<main, running, listener, wsMutex, pos, latest, payload, sock,
                     peer, request, unread, seen>>
      /\ pc["server"] = "push" /\ pc'["server"] = "snapshot" /\ pc'["dsp"] = pc["dsp"]
      /\ DOMAIN pc' = Broadcasters
  BY GotoTyped
  DEF WebInv, TypeOK, Owners, Push, Then, KeepSocketOpen, MutexFree, At, Broadcasters, frameVars,
      clientVars
<1>2. clientSock \in Clients /\ sock[clientSock] = "open" /\ clientSock \notin Pooled
  BY <1>1 DEF WebInv, Serving
<1>3. /\ wsClients' \in Seq(Clients) /\ Len(wsClients') = Len(wsClients) + 1
      /\ Len(wsClients) \in Nat
      /\ \A i \in 1 .. Len(wsClients) : wsClients'[i] = wsClients[i]
      /\ Pooled' = Pooled \cup {clientSock}
      /\ IsInjective(wsClients')
  BY <1>1, <1>2, AppendNew DEF WebInv, TypeOK, PoolInv, Pooled
<1>4. TypeOK'
  <2>1. pos \in 1 .. Len(wsClients') + 1
    BY <1>1, <1>3
  <2>2. QED
    BY <1>1, <1>3, <2>1 DEF WebInv, TypeOK, ServerLabels
<1>5. Owners' /\ Serving' /\ Newest'
  BY <1>1 DEF WebInv, Owners, Serving, Newest, At, MutexFree, Broadcasters
<1>6. PoolInv'
  BY <1>1, <1>2, <1>3 DEF WebInv, PoolInv
<1>7. ~At("dsp", "send") /\ ~Greeting
  BY <1>1 DEF WebInv, Owners, At, Greeting, Broadcasters
<1>8. ASSUME NEW i \in 1 .. Len(wsClients')
      PROVE  i = Len(wsClients') \/ (i \in 1 .. Len(wsClients) /\ (Fresh(i) => Fresh(i)'))
  BY <1>1, <1>3 DEF Fresh
<1>9. Owed'
  BY <1>1, <1>7, <1>8 DEF WebInv, Owed, Quiet, Greeting, At
<1>10. QED
  BY <1>4, <1>5, <1>6, <1>9 DEF WebInv

LEMMA MainKeeps ==
  ASSUME WebInv, Signal \/ Shutdown
  PROVE  WebInv'
<1>. USE DEF poolVars, frameVars, clientVars
<1>1. /\ UNCHANGED <<wsMutex, wsClients, pos, latest, payload, clientSock, peer, request, unread, seen>>
      /\ main' \in {"exited"} \cup ShutdownSteps
      /\ running' \in BOOLEAN /\ listener' \in {"open", "closed", "invalid"}
  BY DEF WebInv, TypeOK, Signal, Shutdown, StopReceiver, StopServer, CloseListener, ForgetListener,
         JoinServer, ShutdownSteps
<1>2. /\ DOMAIN pc' = Broadcasters /\ pc'["server"] = pc["server"]
      /\ pc'["dsp"] \in {"idle", "wait", "send", "done"}
      /\ pc'["dsp"] = pc["dsp"] \/ (Quiet /\ Quiet')
  <2>1. CASE StopReceiver
    BY <2>1, GotoTyped DEF StopReceiver, WebInv, At, Quiet, Broadcasters
  <2>2. CASE UNCHANGED pc
    BY <2>2 DEF WebInv, TypeOK
  <2>3. QED
    BY <2>1, <2>2 DEF Signal, Shutdown, StopServer, CloseListener, ForgetListener, JoinServer
<1>3. /\ sock' \in [Clients -> {"none", "backlog", "open", "closed"}]
      /\ \A c \in Clients : sock[c] = "open" => sock'[c] = "open"
  BY DEF WebInv, TypeOK, Signal, Shutdown, StopReceiver, StopServer, CloseListener, ForgetListener,
         JoinServer
<1>4. TypeOK'
  BY <1>1, <1>2, <1>3 DEF WebInv, TypeOK
<1>5. Owners' /\ Newest' /\ Owed'
  BY <1>1, <1>2, OffPool
<1>6. Serving'
  BY <1>1, <1>2, <1>3 DEF WebInv, Serving, Pooled
<1>7. PoolInv'
  BY <1>1, <1>3, PooledClients DEF WebInv, PoolInv, Pooled
<1>8. QED
  BY <1>4, <1>5, <1>6, <1>7 DEF WebInv

LEMMA ClosePoolKeeps ==
  ASSUME WebInv, ClosePool
  PROVE  WebInv'
<1>1. /\ main' = "joinServer" /\ wsMutex = "none" /\ wsMutex' = "none" /\ pos = 1
      /\ sock' = [c \in Clients |-> IF c \in Pooled THEN "closed" ELSE sock[c]]
      /\ wsClients' = <<>>
      /\ UNCHANGED <<pc, running, listener, pos, latest, payload, clientSock,
                     peer, request, unread, seen>>
  BY DEF WebInv, Owners, ClosePool, LeavePool, MutexFree, frameVars, clientVars
<1>2. wsClients' \in Seq(Clients) /\ Len(wsClients') = 0 /\ DOMAIN wsClients' = {}
  BY <1>1
<1>3. sock' \in [Clients -> {"none", "backlog", "open", "closed"}]
  BY <1>1 DEF WebInv, TypeOK
<1>4. TypeOK'
  <2>1. pos \in 1 .. Len(wsClients') + 1
    BY <1>1, <1>2
  <2>2. QED
    BY <1>1, <1>2, <1>3, <2>1 DEF WebInv, TypeOK, ShutdownSteps
<1>5. Owners' /\ Newest' /\ Owed'
  BY <1>1, <1>2 DEF WebInv, Owners, Newest, Owed, Quiet, At, MutexFree
<1>6. Pooled' = {}
  BY <1>2 DEF Pooled, ToSet
<1>7. Serving'
  BY <1>1, <1>6 DEF WebInv, Serving
<1>8. PoolInv'
  BY <1>2, <1>6 DEF PoolInv, IsInjective
<1>9. QED
  BY <1>4, <1>5, <1>7, <1>8 DEF WebInv

-----------------------------------------------------------------------------
LEMMA WebInit == Init => WebInv
<1>. SUFFICES ASSUME Init PROVE WebInv
  OBVIOUS
<1>1. wsClients \in Seq(Clients) /\ Len(wsClients) = 0 /\ DOMAIN wsClients = {} /\ Pooled = {}
  BY DEF Init, Pooled, ToSet
<1>2. TypeOK
  <2>1. pos \in 1 .. Len(wsClients) + 1
    BY <1>1 DEF Init
  <2>2. QED
    BY <1>1, <2>1, WebAssumption DEF Init, TypeOK, Broadcasters, ServerLabels
<1>3. Owners /\ Serving /\ Newest
  BY <1>1 DEF Init, Owners, Serving, Newest, At, MutexFree, Broadcasters
<1>4. PoolInv /\ Owed
  BY <1>1 DEF PoolInv, IsInjective, Owed
<1>5. QED
  BY <1>2, <1>3, <1>4 DEF WebInv

LEMMA WebNext == WebInv /\ [Next]_vars => WebInv'
<1>. SUFFICES ASSUME WebInv, [Next]_vars PROVE WebInv'
  OBVIOUS
<1>1. CASE \E c \in Clients : Connect(c) \/ Send(c) \/ Read(c) \/ Leave(c)
  BY <1>1, ClientKeeps
<1>2. CASE UpdateTelemetry
  BY <1>2, UpdateKeeps
<1>3. ASSUME NEW t \in Broadcasters, Broadcast(t) PROVE WebInv'
  <2>1. CASE SendToGone(t)
    <3>1. \/ pos' = pos + 1 /\ UNCHANGED <<wsClients, sock>>
          \/ /\ wsClients' = RemoveAt(wsClients, pos)
             /\ sock' = [sock EXCEPT ![wsClients[pos]] = "closed"]
             /\ UNCHANGED pos
      BY <2>1 DEF SendToGone
    <3>2. QED
      BY <2>1, <3>1, SkipGoneKeeps, DropGoneKeeps
  <2>2. QED
    BY <1>3, <2>1, LockKeeps, DeliverKeeps, UnlockKeeps DEF Broadcast
<1>4. CASE (\E t \in Broadcasters : SigPipe(t)) \/ FdSetAborts
  BY <1>4, DieKeeps DEF SigPipe, FdSetAborts
<1>5. CASE Server \/ Push
  BY <1>5, ServerKeeps, PushKeeps
<1>6. CASE Signal \/ Shutdown \/ ClosePool
  BY <1>6, MainKeeps, ClosePoolKeeps
<1>7. CASE UNCHANGED vars
  BY <1>7
  DEF vars, poolVars, frameVars, clientVars, WebInv, TypeOK, Owners, Serving, PoolInv, Newest,
      Owed, Fresh, Quiet, Greeting, Pooled, At, MutexFree
<1>8. QED
  BY <1>1, <1>2, <1>3, <1>4, <1>5, <1>6, <1>7 DEF Next

LEMMA WebSafe == Spec => []WebInv
BY WebInit, WebNext, PTL DEF Spec

-----------------------------------------------------------------------------
(* The properties. *)

\* Every variable keeps its type; a broadcast never leaves m_wsClients
\* (handleWebSocketUpgrade, broadcastToWebSockets, stop).
THEOREM WebTypeCorrect == Spec => []TypeOK
<1>1. WebInv => TypeOK
  BY DEF WebInv
<1>2. QED
  BY <1>1, WebSafe, PTL

\* Nothing is sent to a descriptor that was closed, and none is closed twice,
\* by whichever thread and however the connections end.
THEOREM WebPoolIsSound == Spec => []PoolIsSound
<1>1. WebInv => PoolIsSound
  BY DEF WebInv, PoolInv, Serving, PoolIsSound
<1>2. QED
  BY <1>1, WebSafe, PTL

\* With no broadcast under way every client in the pool has been sent the
\* newest frame, for any number of clients and frames.
THEOREM WebFreshWhenQuiet == Spec => []FreshWhenQuiet
<1>1. ASSUME WebInv PROVE FreshWhenQuiet
  <2>. SUFFICES ASSUME Quiet, ~Greeting, NEW c \in Pooled, peer[c] = "here"
                PROVE  seen[c] = latest
    BY DEF FreshWhenQuiet, Quiet
  <2>1. PICK i \in 1 .. Len(wsClients) : c = wsClients[i]
    BY <1>1 DEF WebInv, TypeOK, Pooled, ToSet
  <2>2. QED
    BY <1>1, <2>1 DEF WebInv, Owed, Fresh
<1>2. QED
  BY <1>1, WebSafe, PTL

\* While a thread iterates over m_wsClients, every other thread that would
\* change it waits for m_wsMutex.
THEOREM WebPoolIsStable == Spec => PoolIsStable
<1>. DEFINE Stable == \A t \in Broadcasters :
              At(t, "send") /\ wsClients' # wsClients => SendToGone(t) \/ main' = "killed"
<1>1. ASSUME WebInv, [Next]_vars PROVE [Stable]_vars
  <2>. SUFFICES ASSUME NEW t \in Broadcasters, At(t, "send"), wsClients' # wsClients
                PROVE  SendToGone(t) \/ main' = "killed"
    OBVIOUS
  <2>1. ~MutexFree /\ \A u \in Broadcasters : At(u, "send") => u = t
    BY <1>1, Worthwhile DEF WebInv, Owners, MutexFree, Broadcasters
  <2>2. ~Push /\ ~ClosePool
    BY <2>1 DEF Push, ClosePool
  <2>3. CASE \E c \in Clients : Connect(c) \/ Send(c) \/ Read(c) \/ Leave(c)
    BY <2>3 DEF Connect, Send, Read, Leave, poolVars
  <2>4. CASE \E u \in Broadcasters : Broadcast(u)
    BY <2>1, <2>4 DEF Broadcast, LockPool, Deliver, SendToGone, UnlockPool
  <2>5. CASE (\E u \in Broadcasters : SigPipe(u)) \/ FdSetAborts
    BY <2>5 DEF SigPipe, FdSetAborts, Die
  <2>6. CASE UpdateTelemetry \/ Server
    BY <2>6
    DEF UpdateTelemetry, Server, CheckRunning, CheckListener, Select, Accept, Receive,
        ReceiveNothing, Respond, Handshake, TakeSnapshot, poolVars
  <2>7. CASE Signal \/ Shutdown
    BY <2>7
    DEF Signal, Shutdown, StopReceiver, StopServer, CloseListener, ForgetListener, JoinServer,
        poolVars
  <2>8. CASE UNCHANGED vars
    BY <2>8 DEF vars, poolVars
  <2>9. QED
    BY <1>1, <2>2, <2>3, <2>4, <2>5, <2>6, <2>7, <2>8 DEF Next
<1>2. QED
  BY <1>1, WebSafe, PTL DEF Spec, PoolIsStable
=============================================================================
