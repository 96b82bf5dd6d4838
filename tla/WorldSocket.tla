------------------------------ MODULE WorldSocket ------------------------------
(***************************************************************************)
(* The life of one WorldSocket: created by the acceptor thread, registered *)
(* with a ReactorRunnable whose thread runs its read and write handlers,   *)
(* used by the sessions the world thread updates, and closed by any of     *)
(* them, by a kick or by the shutdown of the server.  It deletes itself    *)
(* when its last reference is removed.                                     *)
(***************************************************************************)
EXTENDS Integers, FiniteSets

CONSTANTS
    NoSession,
    MaxSessions,    \* bound: sessions authenticated on the socket
    MaxWrites,      \* bound: a packet is sent while fewer writes are queued
    MaxPackets      \* bound: packets one read delivers

ASSUME WorldSocketAssumption ==
    /\ MaxSessions \in Nat
    /\ MaxWrites \in Nat
    /\ MaxPackets \in Nat \ {0}
    /\ NoSession \notin 1..MaxSessions

Ids == 1..MaxSessions
Acceptor == "acceptor"
Net == "net"
World == "world"
Threads == {Acceptor, Net, World}
NoThread == "none"

VARIABLES
    refs,           \* m_ReferenceCount
    freed,          \* the destructor has run
    closed,         \* m_Closed
    open,           \* m_Socket->is_open()
    notified,       \* m_CloseNotified
    handler,        \* m_CloseHandler is set
    started,        \* m_Started
    pending,        \* size of m_PendingOutput
    sendLock,       \* holder of m_SendLock
    session,        \* WorldSocketSessionState::_session
    owned,          \* the socket is in ReactorRunnable::m_Sockets
    reading,        \* an async_read_some is outstanding
    writes,         \* entries of the write queue
    packets,        \* packets of the current read not yet processed
    state,          \* of each session: "unborn", "new", "queued", "listed", "dead"
    sock,           \* of each session: m_Socket is not NULL
    current, after, \* the session the world thread acts on, where it returns to
    phase,          \* how far WorldRunnable::Run is with the shutdown
    unvisited,      \* sessions the last UpdateSessions has not reached
    stopped,        \* ReactorRunnable::m_Stopped
    pc              \* what each thread is executing

socketVars == <<closed, open, notified, handler, started, pending, sendLock>>
refVars == <<refs, freed>>
netVars == <<owned, reading, writes, packets>>
sessionVars == <<session, state, sock>>
worldVars == <<current, after, phase, unvisited, stopped>>
vars == <<socketVars, refVars, netVars, sessionVars, worldVars, pc>>

\* The constructor and Initialize, which queues the greeting.
Init ==
    /\ refs = 0 /\ freed = FALSE
    /\ closed = FALSE /\ open = TRUE
    /\ notified = FALSE /\ handler = FALSE /\ started = FALSE
    /\ pending = 1
    /\ sendLock = NoThread
    /\ session = NoSession
    /\ owned = FALSE /\ reading = FALSE
    /\ writes = 0 /\ packets = 0
    /\ state = [s \in Ids |-> "unborn"]
    /\ sock = [s \in Ids |-> FALSE]
    /\ current = NoSession /\ after = "idle"
    /\ phase = "running" /\ unvisited = {} /\ stopped = FALSE
    /\ pc = [t \in Threads |-> IF t = Acceptor THEN "add" ELSE "idle"]

-----------------------------------------------------------------------------
Goto(t, l) == pc' = [pc EXCEPT ![t] = l]

AddReference(n) == refs' = refs + n /\ UNCHANGED freed

RemoveReference ==
    /\ refs' = refs - 1
    /\ freed' = (refs' = 0)

\* CloseSocket: whoever sets m_Closed discards the output and closes the
\* descriptor; everybody else returns at once.
AfterClose(t) == IF t = Net THEN "notify" ELSE after

CloseSocket(t) ==
    /\ pc[t] = "close"
    /\ closed' = TRUE
    /\ Goto(t, IF closed THEN AfterClose(t) ELSE "clear")
    /\ UNCHANGED <<open, notified, handler, started, pending, sendLock,
                   refVars, netVars, sessionVars, worldVars>>

\* Faulty variant: m_PendingOutput is cleared without m_SendLock.
ClearPendingOutput_NoLock(t) ==
    /\ pc[t] = "clear"
    /\ pending' = 0
    /\ Goto(t, "tcp")
    /\ UNCHANGED <<closed, open, notified, handler, started, sendLock,
                   refVars, netVars, sessionVars, worldVars>>

ClearPendingOutput(t) ==
    /\ pc[t] = "clear"
    /\ sendLock = NoThread
    /\ pending' = 0
    /\ Goto(t, "tcp")
    /\ UNCHANGED <<closed, open, notified, handler, started, sendLock,
                   refVars, netVars, sessionVars, worldVars>>

CloseTcpSocket(t) ==
    /\ pc[t] = "tcp"
    /\ open' = FALSE
    /\ Goto(t, AfterClose(t))
    /\ UNCHANGED <<closed, notified, handler, started, pending, sendLock,
                   refVars, netVars, sessionVars, worldVars>>

\* Where a thread goes when its packet is sent: the response to an account that
\* was refused (packets = 0) ends the connection.  When it cannot be sent,
\* WorldSession::SendPacket closes the socket and ProcessIncoming returns -1.
NextPacket == IF packets > 1 THEN "input" ELSE "rearm"
AfterSend(t) == CASE t # Net -> "idle"
                  [] t = Net /\ packets > 0 -> NextPacket
                  [] t = Net /\ packets <= 0 -> "close"

\* SendPacket takes m_SendLock and then looks at m_Closed.
SendPacket(t) ==
    /\ pc[t] = "send"
    /\ sendLock = NoThread
    /\ IF closed
       THEN Goto(t, "close") /\ UNCHANGED sendLock
       ELSE Goto(t, "queue") /\ sendLock' = t
    /\ UNCHANGED <<closed, open, notified, handler, started, pending,
                   refVars, netVars, sessionVars, worldVars>>

\* The rest of SendPacket; every queued write holds a reference.  The case of
\* an invalid socket in QueueSerializedPacket does not arise (QueueOnOpenSocket).
QueueSerializedPacket(t) ==
    /\ pc[t] = "queue"
    /\ IF started
       THEN /\ open
            /\ writes' = writes + 1
            /\ AddReference(1)
            /\ UNCHANGED pending
       ELSE /\ pending' = pending + 1
            /\ UNCHANGED <<writes, refVars>>
    /\ sendLock' = NoThread
    /\ packets' = IF t = Net /\ packets > 0 THEN packets - 1 ELSE packets
    /\ Goto(t, AfterSend(t))
    /\ UNCHANGED <<closed, open, notified, handler, started, owned, reading,
                   sessionVars, worldVars>>

\* NotifyClosed runs the close handler once.
NotifyClosed(t) ==
    /\ pc[t] = "notify"
    /\ notified' = TRUE
    /\ Goto(t, IF ~notified /\ handler THEN "socketClosed" ELSE "release")
    /\ UNCHANGED <<closed, open, handler, started, pending, sendLock, refVars,
                   netVars, sessionVars, worldVars>>

\* ReactorRunnable::SocketClosed: erase under m_SocketsLock, ...
SocketClosed(t) ==
    /\ pc[t] = "socketClosed"
    /\ owned' = FALSE
    /\ Goto(t, IF owned THEN "dropOwner" ELSE "release")
    /\ UNCHANGED <<socketVars, refVars, reading, writes, packets, sessionVars,
                   worldVars>>

\* ... then remove the reference m_Sockets stood for.
DropOwner(t) ==
    /\ pc[t] = "dropOwner"
    /\ RemoveReference
    /\ Goto(t, "release")
    /\ UNCHANGED <<socketVars, netVars, sessionVars, worldVars>>

\* StartAsyncRead; the outstanding read holds a reference.
StartAsyncRead(t) ==
    IF closed \/ ~open
    THEN /\ Goto(t, "notify")
         /\ UNCHANGED <<refVars, reading>>
    ELSE /\ Goto(t, "release")
         /\ AddReference(1)
         /\ reading' = TRUE

-----------------------------------------------------------------------------
(* The acceptor thread: ReactorRunnable::AddSocket and WorldSocket::Start. *)

\* Faulty variant: m_Sockets does not hold a reference.
AddSocket_NoReference ==
    /\ pc[Acceptor] = "add"
    /\ Goto(Acceptor, "guard")
    /\ owned' = TRUE
    /\ UNCHANGED <<socketVars, refVars, reading, writes, packets, sessionVars,
                   worldVars>>

\* A stopped reactor takes no socket: HandleAccept closes and deletes it.
AddSocket ==
    /\ pc[Acceptor] = "add"
    /\ IF stopped
       THEN /\ Goto(Acceptor, "done")
            /\ closed' = TRUE /\ open' = FALSE /\ pending' = 0
            /\ freed' = TRUE
            /\ UNCHANGED <<owned, refs>>
       ELSE /\ Goto(Acceptor, "guard")
            /\ owned' = TRUE
            /\ AddReference(1)
            /\ UNCHANGED <<closed, open, pending>>
    /\ UNCHANGED <<notified, handler, started, sendLock, reading, writes,
                   packets, sessionVars, worldVars>>

\* Faulty variant: Start runs without a reference of its own.
GuardStart_None ==
    /\ pc[Acceptor] = "guard"
    /\ Goto(Acceptor, "start")
    /\ UNCHANGED <<refVars, socketVars, netVars, sessionVars, worldVars>>

GuardStart ==
    /\ pc[Acceptor] = "guard"
    /\ AddReference(1)
    /\ Goto(Acceptor, "start")
    /\ UNCHANGED <<socketVars, netVars, sessionVars, worldVars>>

Start ==
    /\ pc[Acceptor] = "start"
    /\ handler' = TRUE
    /\ Goto(Acceptor, IF closed THEN "notify" ELSE "flush")
    /\ UNCHANGED <<closed, open, notified, started, pending, sendLock, refVars,
                   netVars, sessionVars, worldVars>>

\* Under m_SendLock the pending output becomes queued writes.
FlushPendingOutput ==
    /\ pc[Acceptor] = "flush"
    /\ sendLock = NoThread
    /\ pending > 0 => open
    /\ started' = TRUE
    /\ writes' = writes + pending
    /\ AddReference(pending)
    /\ pending' = 0
    /\ Goto(Acceptor, "read")
    /\ UNCHANGED <<closed, open, notified, handler, sendLock, owned, reading,
                   packets, sessionVars, worldVars>>

StartReading ==
    /\ pc[Acceptor] = "read"
    /\ StartAsyncRead(Acceptor)
    /\ UNCHANGED <<socketVars, owned, writes, packets, sessionVars, worldVars>>

\* AddSocket gives up the reference it held during Start.
EndAddSocket ==
    /\ pc[Acceptor] = "release"
    /\ RemoveReference
    /\ Goto(Acceptor, "done")
    /\ UNCHANGED <<socketVars, netVars, sessionVars, worldVars>>

AcceptorStep ==
    \/ AddSocket \/ GuardStart \/ Start \/ FlushPendingOutput \/ StartReading
    \/ NotifyClosed(Acceptor) \/ SocketClosed(Acceptor) \/ DropOwner(Acceptor)
    \/ EndAddSocket

-----------------------------------------------------------------------------
(* The reactor thread: completed operations, one handler at a time.  The   *)
(* reference of the operation becomes that of the handler.                 *)

\* HandleAsyncRead with an error, or no data: the peer has gone or the
\* descriptor was closed.
ReadFails ==
    /\ pc[Net] = "idle"
    /\ reading
    /\ reading' = FALSE
    /\ Goto(Net, "close")
    /\ UNCHANGED <<socketVars, refVars, owned, writes, packets, sessionVars,
                   worldVars>>

\* Data that arrived before a close may still be delivered after it.
ReadCompletes ==
    /\ pc[Net] = "idle"
    /\ reading
    /\ reading' = FALSE
    /\ packets' \in 1..MaxPackets
    /\ Goto(Net, "input")
    /\ UNCHANGED <<socketVars, refVars, owned, writes, sessionVars, worldVars>>

WriteCompletes ==
    /\ pc[Net] = "idle"
    /\ writes > 0
    /\ writes' = writes - 1
    /\ Goto(Net, "release")
    /\ UNCHANGED <<socketVars, refVars, owned, reading, packets, sessionVars,
                   worldVars>>

\* Faulty variant: the entry that failed is also found in the failed queue.
WriteFails_Twice ==
    /\ pc[Net] = "idle"
    /\ writes > 0
    /\ writes' = writes - 2
    /\ Goto(Net, "close")
    /\ UNCHANGED <<socketVars, refVars, owned, reading, packets, sessionVars,
                   worldVars>>

WriteFails ==
    /\ pc[Net] = "idle"
    /\ writes > 0
    /\ writes' = writes - 1
    /\ Goto(Net, "close")
    /\ UNCHANGED <<socketVars, refVars, owned, reading, packets, sessionVars,
                   worldVars>>

\* ProcessIncoming of one packet first looks at m_Closed.
ProcessIncoming ==
    /\ pc[Net] = "input"
    /\ Goto(Net, IF closed THEN "close" ELSE "dispatch")
    /\ UNCHANGED <<socketVars, refVars, netVars, sessionVars, worldVars>>

\* Its handler then finishes the packet, goes on at l, or ends the connection.
Process(l) ==
    /\ pc[Net] = "dispatch"
    /\ Goto(Net, l)
    /\ packets' = IF l = NextPacket THEN packets - 1 ELSE packets
    /\ UNCHANGED <<socketVars, refVars, owned, reading, writes, sessionVars,
                   worldVars>>

\* The packet is malformed, or not allowed in this state.
InputRejected == Process("close")

\* CMSG_KEEP_ALIVE, CMSG_LOG_DISCONNECT, CMSG_ENABLE_NAGLE.
InputPlain == Process(NextPacket)

\* MSG_VERIFY_CONNECTIVITY is answered with the challenge.
InputChallenge == writes < MaxWrites /\ Process("send")

\* CMSG_PING of a session is answered, without a session it is an error.
InputPing ==
    /\ session # NoSession
    /\ writes < MaxWrites
    /\ Process("send")

\* Packets of a session go to its queue, under the lock of the session state.
InputGame == session # NoSession /\ Process(NextPacket)

\* Faulty variant: a second CMSG_AUTH_SESSION is not refused.
InputAuth_Duplicate == Process("auth")

InputAuth == session = NoSession /\ Process("auth")

\* HandleAuthSession refuses the account: SendAuthResponseError, and -1, which
\* drops the rest of the read, ...
AuthFails ==
    /\ pc[Net] = "auth"
    /\ packets' = 0
    /\ Goto(Net, "send")
    /\ UNCHANGED <<socketVars, refVars, owned, reading, writes, sessionVars,
                   worldVars>>

\* ... or creates the session, whose constructor takes a reference, ...
NewSession(s) ==
    /\ pc[Net] = "auth"
    /\ state[s] = "unborn"
    /\ \A r \in 1..(s - 1) : state[r] # "unborn"
    /\ state' = [state EXCEPT ![s] = "new"]
    /\ sock' = [sock EXCEPT ![s] = TRUE]
    /\ AddReference(1)
    /\ Goto(Net, "attach")
    /\ UNCHANGED <<socketVars, netVars, session, worldVars>>

\* ... attaches it (which never fails: AttachSucceeds) ...
Attach(s) ==
    /\ pc[Net] = "attach"
    /\ state[s] = "new"
    /\ session = NoSession
    /\ session' = s
    /\ Goto(Net, "handover")
    /\ UNCHANGED <<socketVars, refVars, netVars, state, sock, worldVars>>

\* ... and hands it to the world.
AddSession(s) ==
    /\ pc[Net] = "handover"
    /\ state[s] = "new"
    /\ state' = [state EXCEPT ![s] = "queued"]
    /\ packets' = packets - 1
    /\ Goto(Net, NextPacket)
    /\ UNCHANGED <<socketVars, refVars, owned, reading, writes, session, sock,
                   worldVars>>

\* Faulty variant: a socket closed meanwhile is not reported.
EndInput_NoNotify ==
    /\ pc[Net] = "rearm"
    /\ packets' = 0
    /\ IF closed \/ ~open
       THEN Goto(Net, "release") /\ UNCHANGED <<refVars, reading>>
       ELSE StartAsyncRead(Net)
    /\ UNCHANGED <<socketVars, owned, writes, sessionVars, worldVars>>

\* The end of HandleAsyncRead.
EndInput ==
    /\ pc[Net] = "rearm"
    /\ packets' = 0
    /\ StartAsyncRead(Net)
    /\ UNCHANGED <<socketVars, owned, writes, sessionVars, worldVars>>

\* The handler returns and the reference of its operation is removed.
EndHandler ==
    /\ pc[Net] = "release"
    /\ RemoveReference
    /\ packets' = 0
    /\ Goto(Net, "idle")
    /\ UNCHANGED <<socketVars, owned, reading, writes, sessionVars, worldVars>>

Completion == ReadFails \/ ReadCompletes \/ WriteCompletes \/ WriteFails

HandlerStep ==
    \/ ProcessIncoming \/ InputRejected \/ InputPlain \/ InputChallenge
    \/ InputPing \/ InputGame \/ InputAuth \/ AuthFails
    \/ \E s \in Ids : NewSession(s) \/ Attach(s) \/ AddSession(s)
    \/ SendPacket(Net) \/ QueueSerializedPacket(Net)
    \/ EndInput
    \/ CloseSocket(Net) \/ ClearPendingOutput(Net) \/ CloseTcpSocket(Net)
    \/ NotifyClosed(Net) \/ SocketClosed(Net) \/ DropOwner(Net)
    \/ EndHandler

-----------------------------------------------------------------------------
(* The world thread: AddSession_, the update of the sessions, kicks, sends. *)

\* The world thread begins at l with session s, and goes on at r after CloseSocket.
Begin(s, l, r) ==
    /\ pc[World] = "idle"
    /\ current' = s
    /\ after' = r
    /\ Goto(World, l)
    /\ UNCHANGED <<socketVars, refVars, netVars, session, sock, stopped>>

AcceptSession(s) ==
    /\ phase \in {"running", "kicked"}
    /\ state[s] = "queued"
    /\ state' = [state EXCEPT ![s] = "listed"]
    /\ Begin(s, "idle", "idle")
    /\ UNCHANGED <<phase, unvisited>>

\* AddSession_ kicks and deletes a newcomer whose account is still loading, ...
RejectSession(s) ==
    /\ phase \in {"running", "kicked"}
    /\ state[s] = "queued"
    /\ Begin(s, "close", "detach")
    /\ UNCHANGED <<state, phase, unvisited>>

\* ... or the listed session, when its account logs in on another socket.
ReplaceSession(s) ==
    /\ phase \in {"running", "kicked"}
    /\ state[s] = "listed"
    /\ Begin(s, "close", "detach")
    /\ UNCHANGED <<state, phase, unvisited>>

KickPlayer(s) ==
    /\ phase \in {"running", "lastUpdate"}
    /\ state[s] = "listed"
    /\ Begin(s, "close", "idle")
    /\ UNCHANGED <<state, phase, unvisited>>

\* WorldSession::SendPacket.
Send(s) ==
    /\ phase \in {"running", "lastUpdate"}
    /\ state[s] = "listed"
    /\ sock[s]
    /\ writes < MaxWrites
    /\ Begin(s, "send", "idle")
    /\ UNCHANGED <<state, phase, unvisited>>

\* WorldSession::Update of a session whose socket is closed ends in its deletion.
RemoveClosedSession(s) ==
    /\ \/ phase = "running"
       \/ phase = "lastUpdate" /\ s \in unvisited
    /\ state[s] = "listed"
    /\ sock[s] /\ closed
    /\ Begin(s, "detach", "free")
    /\ unvisited' = unvisited \ {s}
    /\ UNCHANGED <<state, phase>>

\* Faulty variant: the session is deleted while the socket points at it.
DetachSession_Skip ==
    /\ pc[World] = "detach"
    /\ Goto(World, IF after = "free" THEN "free" ELSE "close")
    /\ after' = "free"
    /\ UNCHANGED <<socketVars, refVars, netVars, sessionVars, current, phase,
                   unvisited, stopped>>

\* DetachSession; the destructor then closes the socket, Update does not.
DetachSession ==
    /\ pc[World] = "detach"
    /\ session' = IF session = current THEN NoSession ELSE session
    /\ Goto(World, IF after = "free" THEN "free" ELSE "close")
    /\ after' = "free"
    /\ UNCHANGED <<socketVars, refVars, netVars, state, sock, current, phase,
                   unvisited, stopped>>

\* The session gives up its reference and is deleted.
FreeSession ==
    /\ pc[World] = "free"
    /\ RemoveReference
    /\ sock' = [sock EXCEPT ![current] = FALSE]
    /\ state' = [state EXCEPT ![current] = "dead"]
    /\ Goto(World, "idle")
    /\ UNCHANGED <<socketVars, netVars, session, worldVars>>

-----------------------------------------------------------------------------
(* The shutdown of WorldRunnable::Run. *)

Listed == {s \in Ids : state[s] = "listed"}
Queued == {s \in Ids : state[s] = "queued"}

KickAll ==
    /\ phase = "running"
    /\ phase' = "kicked"
    /\ Begin(NoSession, IF Listed # {} THEN "close" ELSE "idle", "idle")
    /\ UNCHANGED <<state, unvisited>>

\* UpdateSessions(1) has added the new sessions and goes through all of them.
StartLastUpdate ==
    /\ phase = "kicked"
    /\ Queued = {}
    /\ phase' = "lastUpdate"
    /\ unvisited' = Listed
    /\ Begin(NoSession, "idle", "idle")
    /\ UNCHANGED state

SkipOpenSession(s) ==
    /\ phase = "lastUpdate"
    /\ s \in unvisited
    /\ ~closed
    /\ unvisited' = unvisited \ {s}
    /\ Begin(s, "idle", "idle")
    /\ UNCHANGED <<state, phase>>

EndLastUpdate ==
    /\ phase = "lastUpdate"
    /\ unvisited = {}
    /\ phase' = "stopNetwork"
    /\ Begin(NoSession, "idle", "idle")
    /\ UNCHANGED <<state, unvisited>>

\* Faulty variant: the sockets of the reactor are left open.
StopReactor_KeepOpen ==
    /\ phase = "stopNetwork"
    /\ pc[World] = "idle"
    /\ pc[Acceptor] = "done"
    /\ phase' = "join"
    /\ stopped' = TRUE
    /\ UNCHANGED <<socketVars, refVars, netVars, sessionVars, current, after,
                   unvisited, pc>>

\* The acceptor is joined; ReactorRunnable::Stop closes the sockets it found in
\* m_Sockets, through plain pointers that hold no reference (phase "join").
StopReactor ==
    /\ phase = "stopNetwork"
    /\ pc[World] = "idle"
    /\ pc[Acceptor] = "done"
    /\ phase' = "join"
    /\ stopped' = TRUE
    /\ after' = "idle"
    /\ Goto(World, IF owned THEN "close" ELSE "idle")
    /\ UNCHANGED <<socketVars, refVars, netVars, sessionVars, current, unvisited>>

\* A socket deleted since Stop copied its pointer is used all the same.  Its
\* memory may still hold what the destructor left, and CloseSocket goes on as
\* ever; or the program does anything else, and the model ends.
UseDeletedSocket ==
    /\ phase = "join"
    /\ pc[World] \in {"close", "clear", "tcp"}
    /\ freed
    /\ phase' = "undefined"
    /\ Goto(World, "idle")
    /\ UNCHANGED <<socketVars, refVars, netVars, sessionVars, current, after,
                   unvisited, stopped>>

\* After Drain the reactor thread ends when no operation is outstanding.
JoinReactor ==
    /\ phase = "join"
    /\ pc[World] = "idle" /\ pc[Net] = "idle"
    /\ ~reading /\ writes = 0
    /\ phase' = "stopped"
    /\ UNCHANGED <<socketVars, refVars, netVars, sessionVars, current, after,
                   unvisited, stopped, pc>>

WorldStep ==
    \/ CloseSocket(World) \/ ClearPendingOutput(World) \/ CloseTcpSocket(World)
    \/ SendPacket(World) \/ QueueSerializedPacket(World)
    \/ DetachSession \/ FreeSession

AddSessions ==
    \E s \in Ids : AcceptSession(s) \/ RejectSession(s)

Shutdown ==
    \/ StartLastUpdate \/ EndLastUpdate \/ StopReactor \/ JoinReactor
    \/ \E s \in Ids : SkipOpenSession(s)

Stopped == phase \in {"stopped", "undefined"} /\ UNCHANGED vars

Next ==
    \/ AcceptorStep
    \/ Completion
    \/ HandlerStep
    \/ WorldStep
    \/ AddSessions
    \/ \E s \in Ids : ReplaceSession(s) \/ KickPlayer(s) \/ Send(s)
                      \/ RemoveClosedSession(s)
    \/ KickAll
    \/ Shutdown
    \/ UseDeletedSocket
    \/ Stopped

\* Threads do not stop inside a handler or a call, operations on a closed
\* descriptor complete, and the world loop reaches every session in every tick,
\* however many packets it sends in between.
Fairness ==
    /\ WF_vars(AcceptorStep)
    /\ WF_vars(HandlerStep)
    /\ WF_vars(~open /\ Completion)
    /\ WF_vars(WorldStep)
    /\ SF_vars(AddSessions)
    /\ SF_vars(\E s \in Ids : RemoveClosedSession(s))
    /\ SF_vars(Shutdown)

Spec == Init /\ [][Next]_vars /\ Fairness

-----------------------------------------------------------------------------
\* Every variable has its type; the numbers stay within their bounds.
TypeOK ==
    /\ refs \in Int /\ freed \in BOOLEAN
    /\ closed \in BOOLEAN /\ open \in BOOLEAN /\ notified \in BOOLEAN
    /\ handler \in BOOLEAN /\ started \in BOOLEAN
    /\ pending \in Nat /\ writes \in Nat /\ packets \in Int
    /\ sendLock \in Threads \cup {NoThread}
    /\ session \in Ids \cup {NoSession}
    /\ owned \in BOOLEAN /\ reading \in BOOLEAN
    /\ state \in [Ids -> {"unborn", "new", "queued", "listed", "dead"}]
    /\ sock \in [Ids -> BOOLEAN]
    /\ current \in Ids \cup {NoSession}
    /\ after \in {"idle", "detach", "free"}
    /\ phase \in {"running", "kicked", "lastUpdate", "stopNetwork", "join", "stopped",
                "undefined"}
    /\ unvisited \subseteq Ids
    /\ stopped \in BOOLEAN
    /\ pc \in [Threads -> {"add", "guard", "start", "flush", "read", "done",
                           "idle", "input", "dispatch", "auth", "attach", "handover",
                           "rearm", "send", "queue", "close", "clear", "tcp",
                           "notify", "socketClosed", "dropOwner", "release",
                           "detach", "free"}]

Ref(b) == IF b THEN 1 ELSE 0
SessionRefs == {s \in Ids : sock[s]}

\* Who is entitled to a reference: m_Sockets until SocketClosed has removed it,
\* AddSocket during Start, the outstanding read and writes, the handler that
\* runs, and every session with a socket.
Holders ==
    Ref(owned) + Ref(pc[Acceptor] = "dropOwner") + Ref(pc[Net] = "dropOwner")
    + Ref(pc[Acceptor] \notin {"add", "guard", "done"})
    + Ref(pc[Net] # "idle") + Ref(reading) + writes
    + Cardinality(SessionRefs)

\* The reference count is exact in every state, so no reference leaks and none
\* is removed twice.
RefsExact == refs = Holders

\* Nobody uses a deleted socket but ReactorRunnable::Stop: no handler runs on it
\* or will run on it, no session points at it, it is not in m_Sockets, and the
\* world thread is in no call of it, be it a send, a kick, KickAll or the end of
\* a session.  Stop (phase "join") is excepted: it closes the sockets through
\* pointers it copied, without a reference, and does use deleted ones
\* (UseDeletedSocket).
NoUseAfterFree ==
    freed =>
        /\ pc[Acceptor] = "done" /\ pc[Net] = "idle"
        /\ ~reading /\ writes = 0
        /\ ~owned
        /\ \A s \in Ids : ~sock[s]
        /\ pc[World] \notin {"send", "queue", "detach", "free"}
        /\ pc[World] \in {"close", "clear", "tcp"} => phase = "join"

AttachedSessionAlive ==
    session # NoSession => state[session] # "dead" /\ sock[session]

AttachSucceeds == pc[Net] = "attach" => session = NoSession

\* The session the network thread finds attached has not been deleted, and
\* HandleAuthSession never finds another session attached, whatever the world
\* thread detached since HasSession was asked.
AttachSafe == AttachedSessionAlive /\ AttachSucceeds

\* A packet is handed to the write queue only while the descriptor is open, so
\* NotifyClosed, which may delete the socket, is never called under m_SendLock.
QueueOnOpenSocket ==
    /\ (\E t \in Threads : pc[t] = "queue") /\ started => open
    /\ pc[Acceptor] = "flush" /\ pending > 0 => open

\* While the world runs, a closed socket is deleted in the end.
ClosedSocketFreed == closed ~> freed \/ phase # "running"

\* StopNetwork returns, unless what Stop does with a deleted socket prevents it.
StopEnds == phase = "stopNetwork" ~> phase \in {"stopped", "undefined"}
=============================================================================
