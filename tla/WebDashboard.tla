---------------------------- MODULE WebDashboard ----------------------------
(***************************************************************************)
(* The embedded web server (WebDashboard.hpp) and how the program stops.   *)
(*                                                                         *)
(* One server thread accepts a connection, reads its request, answers it   *)
(* and only then accepts the next.  A connection that asks for a websocket *)
(* stays open in m_wsClients; each telemetry frame is broadcast to that    *)
(* pool by the DSP thread that decoded it, and the server thread itself    *)
(* broadcasts the snapshot that greets a new client.  Every socket call    *)
(* blocks; m_wsMutex is held for a whole broadcast.  The main thread stops *)
(* the receiver first and the dashboard after it.                          *)
(*                                                                         *)
(* A browser that reconnects is another client here.  /api/tune is in      *)
(* Tuning; here it is one more page.                                       *)
(***************************************************************************)
EXTENDS Integers, Sequences, SequencesExt

CONSTANTS
  Clients,     \* connections made while the program runs
  Silent,      \* those that may connect and never send a request or leave
  Deaf,        \* those that may stop reading and never leave
  MaxFrame,    \* bound: the telemetry frames decoded while the program runs
  Room         \* frames that fit in the socket buffers of a connection

ASSUME WebAssumption ==
  /\ Silent \subseteq Clients /\ Deaf \subseteq Clients
  /\ MaxFrame \in Nat
  /\ Room \in Nat \ {0}

VARIABLES
  main,        \* the main thread: up, the steps of the shutdown, exited or killed
  pc,          \* where the DSP thread and the server thread are
  running,     \* m_running
  listener,    \* m_serverSock: open, closed but not yet overwritten, or invalid
  wsMutex,     \* the owner of m_wsMutex, or "none"
  wsClients,   \* m_wsClients
  pos,         \* the iterator of the broadcast in progress
  latest,      \* m_latestFrame, frames being numbered as they are decoded
  payload,     \* the frame each thread is about to broadcast
  clientSock,  \* the connection the server thread is serving, or "none"
  sock,        \* the server's end of each connection
  peer,        \* the other end
  request,     \* what it asked for
  unread,      \* frames in its socket buffers
  seen         \* the newest frame sent to it

poolVars == <<wsMutex, wsClients, pos>>
frameVars == <<latest, payload>>
clientVars == <<peer, request, unread, seen>>
vars == <<main, pc, running, listener, poolVars, frameVars, clientSock, sock, clientVars>>

Broadcasters == {"dsp", "server"}
Pooled == ToSet(wsClients)

\* start() binds the port and starts the thread, or fails and leaves neither.
Init ==
  /\ running \in BOOLEAN
  /\ listener = IF running THEN "open" ELSE "invalid"
  /\ main = "up"
  /\ pc = [dsp |-> "idle", server |-> IF running THEN "loop" ELSE "done"]
  /\ wsMutex = "none" /\ wsClients = <<>> /\ pos = 1
  /\ latest = 0 /\ payload = [t \in Broadcasters |-> 0]
  /\ clientSock = "none"
  /\ sock = [c \in Clients |-> "none"]
  /\ peer = [c \in Clients |-> "here"]
  /\ request = [c \in Clients |-> "none"]
  /\ unread = [c \in Clients |-> 0]
  /\ seen = [c \in Clients |-> 0]

At(t, label) == pc[t] = label
Goto(t, label) == pc' = [pc EXCEPT ![t] = label]

\* The process dies: no thread is left and the kernel closes every descriptor.
Die ==
  /\ main' = "killed"
  /\ pc' = [t \in Broadcasters |-> "done"]
  /\ running' = FALSE /\ listener' = "invalid"
  /\ wsMutex' = "none" /\ wsClients' = <<>> /\ pos' = 1
  /\ clientSock' = "none"
  /\ sock' = [c \in Clients |-> "closed"]
  /\ UNCHANGED <<frameVars, clientVars>>

-----------------------------------------------------------------------------
(* The clients.                                                            *)

Connect(c) ==
  /\ sock[c] = "none" /\ listener = "open"
  /\ sock' = [sock EXCEPT ![c] = "backlog"]
  /\ UNCHANGED <<main, pc, running, listener, poolVars, frameVars, clientSock, clientVars>>

Present(c) == sock[c] \in {"backlog", "open"} /\ peer[c] = "here"

Send(c) ==
  /\ Present(c) /\ request[c] = "none"
  /\ \E r \in {"page", "websocket"} : request' = [request EXCEPT ![c] = r]
  /\ UNCHANGED <<main, pc, running, listener, poolVars, frameVars, clientSock, sock,
                 peer, unread, seen>>

Read(c) ==
  /\ Present(c) /\ unread[c] > 0
  /\ unread' = [unread EXCEPT ![c] = @ - 1]
  /\ UNCHANGED <<main, pc, running, listener, poolVars, frameVars, clientSock, sock,
                 peer, request, seen>>

Leave(c) ==
  /\ Present(c)
  /\ peer' = [peer EXCEPT ![c] = "gone"]
  /\ unread' = [unread EXCEPT ![c] = 0]
  /\ UNCHANGED <<main, pc, running, listener, poolVars, frameVars, clientSock, sock,
                 request, seen>>

-----------------------------------------------------------------------------
(* A broadcast, by either thread.                                          *)

\* The DSP thread stores the frame under m_mutex and formats it there.
UpdateTelemetry ==
  /\ At("dsp", "idle") /\ latest < MaxFrame
  /\ latest' = latest + 1
  /\ payload' = [payload EXCEPT !["dsp"] = latest']
  /\ Goto("dsp", "wait")
  /\ UNCHANGED <<main, running, listener, poolVars, clientSock, sock, clientVars>>

\* Slip: the guard object is a temporary, so nothing is locked.
AlwaysFree == TRUE

MutexFree == wsMutex = "none"

LockPool(t) ==
  /\ At(t, "wait") /\ MutexFree
  /\ wsMutex' = t /\ pos' = 1
  /\ Goto(t, "send")
  /\ UNCHANGED <<main, running, listener, wsClients, frameVars, clientSock, sock, clientVars>>

\* Slip: the iterator stays on the client just served.
StayAt(i) == i

\* Slip: the iterator is advanced twice.
SkipOne(i) == i + 2

NextAfter(i) == i + 1

\* send() blocks while the buffers of a client that is there are full.
Deliver(t) ==
  /\ At(t, "send") /\ pos <= Len(wsClients)
  /\ LET c == wsClients[pos] IN
       /\ peer[c] = "here" /\ unread[c] < Room
       /\ unread' = [unread EXCEPT ![c] = @ + 1]
       /\ seen' = [seen EXCEPT ![c] = IF @ < payload[t] THEN payload[t] ELSE @]
  /\ pos' = NextAfter(pos)
  /\ UNCHANGED <<main, pc, running, listener, wsMutex, wsClients, frameVars, clientSock, sock,
                 peer, request>>

\* The kernel takes the first bytes for a client that left, and refuses the next.
SendToGone(t) ==
  /\ At(t, "send") /\ pos <= Len(wsClients)
  /\ peer[wsClients[pos]] = "gone"
  /\ \/ pos' = pos + 1 /\ UNCHANGED <<wsClients, sock>>
     \/ /\ wsClients' = RemoveAt(wsClients, pos)
        /\ sock' = [sock EXCEPT ![wsClients[pos]] = "closed"]
        /\ UNCHANGED pos
  /\ UNCHANGED <<main, pc, running, listener, wsMutex, frameVars, clientSock, clientVars>>

\* ... or raises SIGPIPE: no send passes MSG_NOSIGNAL and the signal has its
\* default action, which ends the process.
SigPipe(t) ==
  /\ \/ At(t, "send") /\ pos <= Len(wsClients) /\ peer[wsClients[pos]] = "gone"
     \/ pc[t] \in {"respond", "handshake"} /\ peer[clientSock] = "gone"
  /\ Die

UnlockPool(t) ==
  /\ At(t, "send") /\ pos > Len(wsClients)
  /\ wsMutex' = "none" /\ pos' = 1
  /\ payload' = [payload EXCEPT ![t] = 0]
  /\ Goto(t, IF t = "dsp" THEN "idle" ELSE "loop")
  /\ UNCHANGED <<main, running, listener, wsClients, latest, clientSock, sock, clientVars>>

-----------------------------------------------------------------------------
(* The server thread.                                                      *)

KeepServing == running

CheckRunning ==
  /\ At("server", "loop")
  /\ Goto("server", IF KeepServing THEN "listening?" ELSE "done")
  /\ UNCHANGED <<main, running, listener, poolVars, frameVars, clientSock, sock, clientVars>>

CheckListener ==
  /\ At("server", "listening?")
  /\ Goto("server", IF listener = "invalid" THEN "done" ELSE "select")
  /\ UNCHANGED <<main, running, listener, poolVars, frameVars, clientSock, sock, clientVars>>

\* m_serverSock is read again without a lock: FD_SET(-1) is caught by a
\* fortified C library, which aborts, or sets a bit nobody looks at.
FdSetAborts ==
  /\ At("server", "select") /\ listener = "invalid"
  /\ Die

Backlog == {c \in Clients : sock[c] = "backlog"}

\* select returns for a connection, after 250 ms, or at once on a dead
\* descriptor; m_running is looked at again before accept.
Select ==
  /\ At("server", "select")
  /\ Goto("server", IF ~KeepServing THEN "done"
                    ELSE IF Backlog = {} \/ listener # "open" THEN "loop" ELSE "accept")
  /\ UNCHANGED <<main, running, listener, poolVars, frameVars, clientSock, sock, clientVars>>

Accept ==
  /\ At("server", "accept")
  /\ \/ /\ listener = "open"
        /\ \E c \in Backlog :
             /\ clientSock' = c
             /\ sock' = [sock EXCEPT ![c] = "open"]
        /\ Goto("server", "recv")
     \/ /\ listener # "open"
        /\ Goto("server", IF KeepServing THEN "loop" ELSE "done")
        /\ UNCHANGED <<clientSock, sock>>
  /\ UNCHANGED <<main, running, listener, poolVars, frameVars, clientVars>>

\* recv has no timeout.
Receive ==
  /\ At("server", "recv") /\ request[clientSock] # "none"
  /\ Goto("server", IF request[clientSock] = "page" THEN "respond" ELSE "handshake")
  /\ UNCHANGED <<main, running, listener, poolVars, frameVars, clientSock, sock, clientVars>>

HangUp(label) ==
  /\ sock' = [sock EXCEPT ![clientSock] = "closed"]
  /\ clientSock' = "none"
  /\ Goto("server", label)

ReceiveNothing ==
  /\ At("server", "recv") /\ peer[clientSock] = "gone"
  /\ HangUp("loop")
  /\ UNCHANGED <<main, running, listener, poolVars, frameVars, clientVars>>

\* A page is answered, whether or not anybody gets the answer, and closed.
Respond ==
  /\ At("server", "respond")
  /\ HangUp("loop")
  /\ UNCHANGED <<main, running, listener, poolVars, frameVars, clientVars>>

\* Slip: the snapshot is taken before the client is in the pool.
SnapshotFirst == [handshake |-> "snapshot", snapshot |-> "push", push |-> "wait"]

\* The order of the three steps that greet a websocket client.
Then == [handshake |-> "push", push |-> "snapshot", snapshot |-> "wait"]

Handshake ==
  /\ At("server", "handshake")
  /\ Goto("server", Then["handshake"])
  /\ UNCHANGED <<main, running, listener, poolVars, frameVars, clientSock, sock, clientVars>>

\* Slip: serverLoop closes the socket of a websocket client as of any other.
CloseAfterUpgrade(s) == [s EXCEPT ![clientSock] = "closed"]

KeepSocketOpen(s) == s

Push ==
  /\ At("server", "push") /\ MutexFree
  /\ wsClients' = Append(wsClients, clientSock)
  /\ clientSock' = "none"
  /\ sock' = KeepSocketOpen(sock)
  /\ Goto("server", Then["push"])
  /\ UNCHANGED <<main, running, listener, wsMutex, pos, frameVars, clientVars>>

TakeSnapshot ==
  /\ At("server", "snapshot")
  /\ payload' = [payload EXCEPT !["server"] = latest]
  /\ Goto("server", Then["snapshot"])
  /\ UNCHANGED <<main, running, listener, poolVars, latest, clientSock, sock, clientVars>>

-----------------------------------------------------------------------------
(* The main thread.                                                        *)

Signal ==
  /\ main = "up"
  /\ main' = "joinDsp"
  /\ UNCHANGED <<pc, running, listener, poolVars, frameVars, clientSock, sock, clientVars>>

\* sdrReceiver.stop() waits for the callback in progress, and for the frames
\* that are left in its block.
StopReceiver ==
  /\ main = "joinDsp" /\ At("dsp", "idle")
  /\ Goto("dsp", "done")
  /\ main' = "stopServer"
  /\ UNCHANGED <<running, listener, poolVars, frameVars, clientSock, sock, clientVars>>

StopServer ==
  /\ main = "stopServer"
  /\ running' = FALSE
  /\ main' = IF running THEN "closeListener" ELSE "exited"
  /\ UNCHANGED <<pc, listener, poolVars, frameVars, clientSock, sock, clientVars>>

\* The kernel resets the connections that were not accepted.
CloseListener ==
  /\ main = "closeListener"
  /\ listener' = "closed"
  /\ sock' = [c \in Clients |-> IF sock[c] = "backlog" THEN "closed" ELSE sock[c]]
  /\ main' = "forgetListener"
  /\ UNCHANGED <<pc, running, poolVars, frameVars, clientSock, clientVars>>

ForgetListener ==
  /\ main = "forgetListener"
  /\ listener' = "invalid"
  /\ main' = "lockPool"
  /\ UNCHANGED <<pc, running, poolVars, frameVars, clientSock, sock, clientVars>>

\* Slip: the lock_guard lives until the end of stop().
HoldPool == "main"

LeavePool == "none"

ClosePool ==
  /\ main = "lockPool" /\ MutexFree
  /\ sock' = [c \in Clients |-> IF c \in Pooled THEN "closed" ELSE sock[c]]
  /\ wsClients' = <<>>
  /\ wsMutex' = LeavePool
  /\ main' = "joinServer"
  /\ UNCHANGED <<pc, running, listener, pos, frameVars, clientSock, clientVars>>

\* After the join the flight log is written and the process ends.
JoinServer ==
  /\ main = "joinServer" /\ At("server", "done")
  /\ main' = "exited"
  /\ UNCHANGED <<pc, running, listener, poolVars, frameVars, clientSock, sock, clientVars>>

-----------------------------------------------------------------------------
Broadcast(t) == LockPool(t) \/ Deliver(t) \/ SendToGone(t) \/ UnlockPool(t)

Server ==
  \/ CheckRunning \/ CheckListener \/ Select \/ Accept
  \/ Receive \/ ReceiveNothing \/ Respond \/ Handshake \/ TakeSnapshot

Shutdown == StopReceiver \/ StopServer \/ CloseListener \/ ForgetListener \/ JoinServer

Over == main \in {"exited", "killed"}

Next ==
  \/ \E c \in Clients : Connect(c) \/ Send(c) \/ Read(c) \/ Leave(c)
  \/ UpdateTelemetry
  \/ \E t \in Broadcasters : Broadcast(t) \/ SigPipe(t)
  \/ Server \/ Push \/ FdSetAborts
  \/ Signal \/ Shutdown \/ ClosePool

Spec == Init /\ [][Next]_vars

\* A thread keeps running and gets a mutex that keeps being released.  Of the
\* clients only those that are neither silent nor deaf owe the server anything.
\* Nothing makes a client connect, a frame arrive or the signal come.
Fairness ==
  /\ WF_vars(Server)
  /\ WF_vars(Shutdown)
  /\ \A t \in Broadcasters :
       /\ SF_vars(LockPool(t))
       /\ WF_vars(Deliver(t) \/ SendToGone(t) \/ UnlockPool(t))
  /\ SF_vars(Push)
  /\ SF_vars(ClosePool)
  /\ \A c \in Clients \ Silent : WF_vars(request[c] = "none" /\ (Send(c) \/ Leave(c)))
  /\ \A c \in Clients \ Deaf : WF_vars(Read(c))

FairSpec == Spec /\ Fairness

-----------------------------------------------------------------------------
ServerLabels == {"loop", "listening?", "select", "accept", "recv", "respond", "handshake",
                 "push", "snapshot", "wait", "send", "done"}
ShutdownSteps == {"joinDsp", "stopServer", "closeListener", "forgetListener", "lockPool", "joinServer"}

\* Every variable keeps its type: in particular the iterator of a broadcast
\* never passes the end of the pool.
TypeOK ==
  /\ main \in {"up", "exited", "killed"} \cup ShutdownSteps
  /\ pc["dsp"] \in {"idle", "wait", "send", "done"} /\ pc["server"] \in ServerLabels
  /\ DOMAIN pc = Broadcasters
  /\ running \in BOOLEAN
  /\ listener \in {"open", "closed", "invalid"}
  /\ wsMutex \in Broadcasters \cup {"none"}
  /\ wsClients \in Seq(Clients)
  /\ pos \in 1 .. Len(wsClients) + 1
  /\ latest \in 0 .. MaxFrame
  /\ payload \in [Broadcasters -> 0 .. MaxFrame]
  /\ clientSock \in Clients \cup {"none"}
  /\ sock \in [Clients -> {"none", "backlog", "open", "closed"}]
  /\ peer \in [Clients -> {"here", "gone"}]
  /\ request \in [Clients -> {"none", "page", "websocket"}]
  /\ unread \in [Clients -> 0 .. Room]
  /\ seen \in [Clients -> 0 .. MaxFrame]

\* A descriptor in the pool is an open socket, is there once, and is not the
\* one being served: nothing is ever sent to a descriptor that was closed, and
\* perhaps reused, or closed twice.
PoolIsSound ==
  /\ \A c \in Pooled : sock[c] = "open"
  /\ IsInjective(wsClients)
  /\ clientSock # "none" => sock[clientSock] = "open" /\ clientSock \notin Pooled

\* While a thread iterates over the pool, nobody else changes it.
PoolIsStable ==
  [][\A t \in Broadcasters :
       At(t, "send") /\ wsClients' # wsClients => SendToGone(t) \/ main' = "killed"]_vars

Greeting == pc["server"] \in {"snapshot", "wait", "send"}

\* No client misses a frame, however its connection interleaves with the
\* decoder: with no broadcast under way, every client in the pool has been sent
\* the newest frame.
FreshWhenQuiet ==
  pc["dsp"] \in {"idle", "done"} /\ ~Greeting =>
    \A c \in Pooled : peer[c] = "here" => seen[c] = latest

\* A broadcast ends, so the decoder gets back to its samples.
BroadcastEnds == At("dsp", "wait") ~> (pc["dsp"] \in {"idle", "done"} \/ Over)

\* Once asked to stop, the program stops.
ShutdownEnds == main = "joinDsp" ~> Over
=============================================================================
