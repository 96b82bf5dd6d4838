-------------------------- MODULE WorldSocketProofs --------------------------
(***************************************************************************)
(* For any number of sessions, writes and packets: the reference count of  *)
(* a WorldSocket is exact, so that nobody but ReactorRunnable::Stop uses a *)
(* deleted socket; the attached session is never a deleted one; and a      *)
(* packet is queued only on an open descriptor.                            *)
(***************************************************************************)
EXTENDS WorldSocket, FiniteSetTheorems, TLAPS

\* Until Start reads, nothing but the acceptor thread knows the socket.
Quiet ==
    /\ pc[Acceptor] \in {"add", "guard", "start", "flush"} =>
         /\ pc[Net] = "idle" /\ ~reading /\ writes = 0
         /\ \A s \in Ids : state[s] = "unborn"
    /\ pc[Acceptor] = "add" => ~owned

\* The reactor thread processes input only while no read is outstanding, and the
\* acceptor thread starts the first one.
InputLabels ==
    {"input", "dispatch", "auth", "attach", "handover", "send", "queue", "rearm"}

ReadOnce ==
    /\ reading => pc[Net] \notin InputLabels
    /\ pc[Acceptor] \in {"add", "guard", "start", "flush", "read"} =>
         ~reading /\ pc[Net] \notin InputLabels

\* A deleted socket has no reference and is done with the acceptor thread.
Lifetime ==
    /\ freed => refs = 0 /\ pc[Acceptor] = "done"
    /\ stopped => pc[Acceptor] = "done"

\* A session has its socket from its construction to its deletion.
SessionSockets ==
    \A s \in Ids : sock[s] <=> state[s] \in {"new", "queued", "listed"}

\* The world thread acts on a session it has received and not yet deleted, and
\* deletes it detached.
ActsOnSession ==
    \/ pc[World] \in {"send", "queue", "detach", "free"}
    \/ pc[World] \in {"close", "clear", "tcp"} /\ after # "idle"

\* The world thread in CloseSocket called for a session or by KickAll.
ClosesForSession == pc[World] \in {"close", "clear", "tcp"} /\ phase # "join"

WorldControl ==
    /\ ClosesForSession => \E s \in Ids : state[s] \in {"queued", "listed"}
    /\ ActsOnSession => current \in Ids /\ state[current] \in {"queued", "listed"}
    /\ pc[World] \in {"send", "queue"} => after = "idle"
    /\ pc[World] = "detach" => after # "idle"
    /\ pc[World] = "free" => after = "free"
    /\ pc[World] \in {"close", "clear", "tcp", "free"} /\ after = "free"
         => session # current

AttachControl == pc[Net] \in {"auth", "attach"} => session = NoSession

\* Once the output is discarded nothing is added to it: the closer took
\* m_SendLock after setting m_Closed, the sender looks at m_Closed holding it.
Discarded == ~open \/ \E t \in Threads : pc[t] = "tcp"

SendControl ==
    /\ \A t \in Threads : pc[t] = "queue" => sendLock = t
    /\ \A t \in Threads : pc[t] \in {"clear", "tcp"} => closed
    /\ Discarded => closed /\ pending = 0 /\ \A t \in Threads : pc[t] # "queue"

IInv ==
    /\ TypeOK /\ RefsExact /\ Quiet /\ ReadOnce /\ Lifetime /\ SessionSockets
    /\ WorldControl /\ AttachedSessionAlive /\ AttachControl /\ SendControl

-----------------------------------------------------------------------------
ThreadSteps(t) ==
    CloseSocket(t) \/ ClearPendingOutput(t) \/ CloseTcpSocket(t)
    \/ SendPacket(t) \/ QueueSerializedPacket(t)
    \/ NotifyClosed(t) \/ SocketClosed(t) \/ DropOwner(t)

SessionStep ==
    \E s \in Ids :
        \/ AcceptSession(s) \/ RejectSession(s) \/ ReplaceSession(s)
        \/ KickPlayer(s) \/ Send(s) \/ RemoveClosedSession(s)
        \/ SkipOpenSession(s)

ShutdownStep ==
    KickAll \/ StartLastUpdate \/ EndLastUpdate \/ StopReactor \/ JoinReactor
    \/ UseDeletedSocket

\* Type correctness is inductive on its own.
LEMMA TypeThread ==
    ASSUME TypeOK, NEW t \in Threads, ThreadSteps(t)
    PROVE  TypeOK'
<1> USE DEF TypeOK, Goto, AddReference, RemoveReference, socketVars, refVars,
            netVars, sessionVars, worldVars
<1>1. CASE CloseSocket(t)
  BY <1>1 DEF CloseSocket, AfterClose
<1>2. CASE ClearPendingOutput(t)
  BY <1>2 DEF ClearPendingOutput
<1>3. CASE CloseTcpSocket(t)
  <2>1. open' \in BOOLEAN
    BY <1>3, Zenon DEF CloseTcpSocket
  <2> QED
    BY <1>3, <2>1 DEF CloseTcpSocket, AfterClose
<1>4. CASE SendPacket(t)
  BY <1>4 DEF SendPacket
<1>5. CASE QueueSerializedPacket(t)
  BY <1>5 DEF QueueSerializedPacket, AfterSend, NextPacket
<1>6. CASE NotifyClosed(t)
  BY <1>6 DEF NotifyClosed
<1>7. CASE SocketClosed(t)
  <2>1. owned' \in BOOLEAN
    BY <1>7, Zenon DEF SocketClosed
  <2> QED
    BY <1>7, <2>1 DEF SocketClosed
<1>8. CASE DropOwner(t)
  BY <1>8 DEF DropOwner
<1> QED
  BY <1>1, <1>2, <1>3, <1>4, <1>5, <1>6, <1>7, <1>8 DEF ThreadSteps

LEMMA TypeAcceptor ==
    ASSUME TypeOK, AcceptorStep
    PROVE  TypeOK'
<1> USE DEF TypeOK, Goto, AddReference, RemoveReference, socketVars, refVars,
            netVars, sessionVars, worldVars
<1>1. Acceptor \in Threads
  BY DEF Threads
<1>2. CASE AddSocket
  <2>1. /\ freed' \in BOOLEAN /\ closed' \in BOOLEAN /\ open' \in BOOLEAN
        /\ owned' \in BOOLEAN
    BY <1>2, Zenon DEF AddSocket
  <2> QED
    BY <1>1, <1>2, <2>1 DEF AddSocket
<1>3. CASE GuardStart
  BY <1>1, <1>3 DEF GuardStart
<1>4. CASE Start
  BY <1>1, <1>4 DEF Start
<1>5. CASE FlushPendingOutput
  BY <1>1, <1>5 DEF FlushPendingOutput
<1>6. CASE StartReading
  <2>1. freed' \in BOOLEAN /\ reading' \in BOOLEAN
    BY <1>6, Zenon DEF StartReading, StartAsyncRead
  <2> QED
    BY <1>1, <1>6, <2>1 DEF StartReading, StartAsyncRead
<1>7. CASE EndAddSocket
  BY <1>1, <1>7 DEF EndAddSocket
<1> QED
  BY <1>1, <1>2, <1>3, <1>4, <1>5, <1>6, <1>7, TypeThread
     DEF AcceptorStep, ThreadSteps

LEMMA TypeNet ==
    ASSUME TypeOK, Completion \/ HandlerStep
    PROVE  TypeOK'
<1> USE DEF TypeOK, Goto, AddReference, RemoveReference, socketVars, refVars,
            netVars, sessionVars, worldVars
<1>1. Net \in Threads
  BY DEF Threads
<1>2. CASE ReadFails \/ ReadCompletes
  <2>1. reading' \in BOOLEAN
    BY <1>2, Zenon DEF ReadFails, ReadCompletes
  <2> QED
    BY <1>1, <1>2, <2>1, WorldSocketAssumption DEF ReadFails, ReadCompletes
<1>3. CASE WriteCompletes \/ WriteFails
  BY <1>1, <1>3 DEF WriteCompletes, WriteFails
<1>4. ASSUME NEW l \in {"close", "input", "rearm", "send", "auth"}, Process(l)
      PROVE  TypeOK'
  BY <1>1, <1>4 DEF Process
<1>5. CASE \/ InputRejected \/ InputPlain \/ InputChallenge \/ InputPing
           \/ InputGame \/ InputAuth
  BY <1>4, <1>5 DEF InputRejected, InputPlain, InputChallenge, InputPing,
                    InputGame, InputAuth, NextPacket
<1>6. CASE ProcessIncoming \/ AuthFails
  BY <1>1, <1>6 DEF ProcessIncoming, AuthFails
<1>7. CASE EndInput
  <2>1. freed' \in BOOLEAN /\ reading' \in BOOLEAN
    BY <1>7, Zenon DEF EndInput, StartAsyncRead
  <2> QED
    BY <1>1, <1>7, <2>1 DEF EndInput, StartAsyncRead
<1>8. CASE EndHandler
  BY <1>1, <1>8 DEF EndHandler
<1>9. ASSUME NEW s \in Ids, NewSession(s) \/ Attach(s) \/ AddSession(s)
      PROVE  TypeOK'
  <2>1. CASE NewSession(s)
    <3>1. sock' \in [Ids -> BOOLEAN]
      BY <2>1, Zenon DEF NewSession
    <3> QED
      BY <1>1, <2>1, <3>1 DEF NewSession
  <2>2. CASE Attach(s)
    BY <1>1, <2>2 DEF Attach
  <2>3. CASE AddSession(s)
    BY <1>1, <2>3 DEF AddSession, NextPacket
  <2> QED
    BY <1>9, <2>1, <2>2, <2>3
<1> QED
  BY <1>1, <1>2, <1>3, <1>5, <1>6, <1>7, <1>8, <1>9, TypeThread
     DEF Completion, HandlerStep, ThreadSteps

LEMMA TypeWorld ==
    ASSUME TypeOK, WorldStep \/ SessionStep \/ ShutdownStep
    PROVE  TypeOK'
<1> USE DEF TypeOK, Goto, AddReference, RemoveReference, socketVars, refVars,
            netVars, sessionVars, worldVars
<1>1. World \in Threads
  BY DEF Threads
<1>2. CASE DetachSession
  BY <1>1, <1>2 DEF DetachSession
<1>3. CASE FreeSession
  <2>1. sock' \in [Ids -> BOOLEAN]
    BY <1>3, Zenon DEF FreeSession
  <2> QED
    BY <1>1, <1>3, <2>1 DEF FreeSession
<1>4. CASE SessionStep
  BY <1>1, <1>4 DEF SessionStep, AcceptSession, RejectSession, ReplaceSession,
                    KickPlayer, Send, RemoveClosedSession, SkipOpenSession, Begin
<1>5. CASE KickAll \/ StartLastUpdate \/ EndLastUpdate
  BY <1>1, <1>5 DEF KickAll, StartLastUpdate, EndLastUpdate, Begin, Listed
<1>6. CASE StopReactor \/ JoinReactor \/ UseDeletedSocket
  <2>1. stopped' \in BOOLEAN
    BY <1>6, Zenon DEF StopReactor, JoinReactor, UseDeletedSocket
  <2> QED
    BY <1>1, <1>6, <2>1 DEF StopReactor, JoinReactor, UseDeletedSocket
<1> QED
  BY <1>1, <1>2, <1>3, <1>4, <1>5, <1>6, TypeThread
     DEF WorldStep, ShutdownStep, ThreadSteps

\* Every step is a step of one of the threads.
LEMMA NextCases ==
    ASSUME Next
    PROVE  \/ AcceptorStep \/ Completion \/ HandlerStep
           \/ WorldStep \/ SessionStep \/ ShutdownStep
           \/ UNCHANGED vars
  BY DEF Next, AddSessions, Shutdown, Stopped, SessionStep, ShutdownStep

LEMMA TypeStep == TypeOK /\ [Next]_vars => TypeOK'
<1>1. ASSUME TypeOK, UNCHANGED vars PROVE TypeOK'
  BY <1>1 DEF TypeOK, vars, socketVars, refVars, netVars, sessionVars, worldVars
<1> QED
  BY <1>1, NextCases, TypeAcceptor, TypeNet, TypeWorld

LEMMA InitType == Init => TypeOK
<1>1. ASSUME Init PROVE TypeOK
  <2>1. /\ freed \in BOOLEAN /\ closed \in BOOLEAN /\ open \in BOOLEAN
        /\ notified \in BOOLEAN /\ handler \in BOOLEAN /\ started \in BOOLEAN
        /\ owned \in BOOLEAN /\ reading \in BOOLEAN /\ stopped \in BOOLEAN
        /\ sock \in [Ids -> BOOLEAN]
    BY <1>1, Zenon DEF Init
  <2> QED
    BY <1>1, <2>1 DEF Init, TypeOK, Threads
<1> QED
  BY <1>1

\* The types hold in every reachable state.
THEOREM TypeCorrect == Spec => []TypeOK
  BY InitType, TypeStep, PTL DEF Spec

-----------------------------------------------------------------------------
LEMMA ThreadFacts ==
    /\ Acceptor \in Threads /\ Net \in Threads /\ World \in Threads
    /\ Acceptor # Net /\ Acceptor # World /\ Net # World
    /\ NoThread \notin Threads
  BY DEF Threads, Acceptor, Net, World, NoThread

\* What the steps other than those on the socket itself leave alone.
LEMMA SocketUnchanged ==
    ASSUME TypeOK, Completion \/ SessionStep \/ ShutdownStep \/ DetachSession
                   \/ FreeSession \/ EndAddSocket \/ GuardStart \/ StartReading
    PROVE  /\ UNCHANGED <<closed, open, pending, sendLock>>
           /\ \A t \in Threads :
                  pc'[t] \in {"queue", "clear", "tcp"} => pc'[t] = pc[t]
<1> USE DEF TypeOK, Goto, socketVars, refVars, netVars, sessionVars, worldVars, Threads
<1>1. CASE Completion
  BY <1>1 DEF Completion, ReadFails, ReadCompletes, WriteCompletes, WriteFails
<1>2. CASE SessionStep
  BY <1>2 DEF SessionStep, AcceptSession, RejectSession, ReplaceSession,
              KickPlayer, Send, RemoveClosedSession, SkipOpenSession, Begin
<1>3. CASE ShutdownStep
  BY <1>3 DEF ShutdownStep, KickAll, StartLastUpdate, EndLastUpdate, StopReactor,
              JoinReactor, UseDeletedSocket, Begin
<1>4. CASE DetachSession \/ FreeSession
  BY <1>4 DEF DetachSession, FreeSession
<1>5. CASE EndAddSocket \/ GuardStart
  BY <1>5 DEF EndAddSocket, GuardStart
<1>6. CASE StartReading
  BY <1>6 DEF StartReading, StartAsyncRead
<1> QED
  BY <1>1, <1>2, <1>3, <1>4, <1>5, <1>6

LEMMA SendControlThread ==
    ASSUME TypeOK, SendControl, NEW t \in Threads, ThreadSteps(t)
    PROVE  SendControl'
<1> USE DEF TypeOK, Goto, SendControl, Discarded
<1>1. CASE CloseSocket(t)
  BY <1>1 DEF CloseSocket, AfterClose
<1>2. CASE ClearPendingOutput(t)
  BY <1>2, ThreadFacts DEF ClearPendingOutput
<1>3. CASE CloseTcpSocket(t)
  BY <1>3 DEF CloseTcpSocket, AfterClose
<1>4. CASE SendPacket(t)
  BY <1>4, ThreadFacts DEF SendPacket
<1>5. CASE QueueSerializedPacket(t)
  BY <1>5 DEF QueueSerializedPacket, AfterSend, NextPacket
<1>6. CASE NotifyClosed(t) \/ SocketClosed(t) \/ DropOwner(t)
  BY <1>6 DEF NotifyClosed, SocketClosed, DropOwner, socketVars
<1> QED
  BY <1>1, <1>2, <1>3, <1>4, <1>5, <1>6 DEF ThreadSteps

\* AddSocket never finds the reactor stopped, and Start only empties the output.
LEMMA SendControlStep == IInv /\ [Next]_vars => SendControl'
<1> SUFFICES ASSUME IInv, [Next]_vars PROVE SendControl'
  OBVIOUS
<1>1. TypeOK /\ SendControl
  BY DEF IInv
<1>2. ASSUME Completion \/ SessionStep \/ ShutdownStep \/ DetachSession
             \/ FreeSession \/ EndAddSocket \/ GuardStart \/ StartReading
      PROVE SendControl'
  BY <1>1, <1>2, SocketUnchanged DEF SendControl, Discarded
<1>3. ASSUME NEW t \in Threads, ThreadSteps(t) PROVE SendControl'
  BY <1>1, <1>3, SendControlThread
<1>4. CASE AcceptorStep
  <2>1. CASE AddSocket
    BY <1>1, <2>1, ThreadFacts
       DEF IInv, Lifetime, AddSocket, Goto, TypeOK, SendControl, Discarded
  <2>2. CASE Start
    BY <1>1, <2>2, ThreadFacts DEF Start, Goto, TypeOK, SendControl, Discarded
  <2>3. CASE FlushPendingOutput
    BY <1>1, <2>3, ThreadFacts
       DEF FlushPendingOutput, Goto, TypeOK, SendControl, Discarded
  <2> QED
    BY <1>2, <1>3, <1>4, <2>1, <2>2, <2>3, ThreadFacts DEF AcceptorStep, ThreadSteps
<1>5. CASE HandlerStep
  <2>1. ASSUME NEW l \in {"close", "input", "rearm", "send", "auth"}, Process(l)
        PROVE SendControl'
    BY <1>1, <2>1, ThreadFacts
       DEF Process, Goto, TypeOK, SendControl, Discarded, socketVars
  <2>2. CASE \/ InputRejected \/ InputPlain \/ InputChallenge \/ InputPing
             \/ InputGame \/ InputAuth
    BY <2>1, <2>2 DEF InputRejected, InputPlain, InputChallenge, InputPing,
                      InputGame, InputAuth, NextPacket
  <2>3. CASE ProcessIncoming \/ AuthFails \/ EndInput \/ EndHandler
    BY <1>1, <2>3, ThreadFacts
       DEF ProcessIncoming, AuthFails, EndInput, EndHandler, StartAsyncRead, Goto,
           TypeOK, SendControl, Discarded, socketVars
  <2>4. ASSUME NEW s \in Ids, NewSession(s) \/ Attach(s) \/ AddSession(s)
        PROVE SendControl'
    BY <1>1, <2>4, ThreadFacts
       DEF NewSession, Attach, AddSession, NextPacket, Goto, TypeOK, SendControl,
           Discarded, socketVars
  <2> QED
    BY <1>3, <1>5, <2>2, <2>3, <2>4, ThreadFacts DEF HandlerStep, ThreadSteps
<1>6. CASE WorldStep
  BY <1>2, <1>3, <1>6, ThreadFacts DEF WorldStep, ThreadSteps
<1>7. CASE UNCHANGED vars
  BY <1>1, <1>7 DEF vars, socketVars, SendControl, Discarded
<1> QED
  BY <1>2, <1>4, <1>5, <1>6, <1>7, NextCases

-----------------------------------------------------------------------------
\* The threads leave each other's program counters alone, and the acceptor and
\* the reactor thread leave the world thread's variables alone.
LEMMA AcceptorFrame ==
    ASSUME TypeOK, AcceptorStep
    PROVE  /\ UNCHANGED <<sessionVars, worldVars, packets>>
           /\ pc'[Net] = pc[Net] /\ pc'[World] = pc[World]
<1> USE ThreadFacts DEF TypeOK, Goto, socketVars, refVars, netVars
<1>1. CASE AddSocket \/ GuardStart \/ Start \/ FlushPendingOutput \/ EndAddSocket
  BY <1>1 DEF AddSocket, GuardStart, Start, FlushPendingOutput, EndAddSocket
<1>2. CASE StartReading
  BY <1>2 DEF StartReading, StartAsyncRead
<1>3. CASE NotifyClosed(Acceptor) \/ SocketClosed(Acceptor) \/ DropOwner(Acceptor)
  BY <1>3 DEF NotifyClosed, SocketClosed, DropOwner
<1> QED
  BY <1>1, <1>2, <1>3 DEF AcceptorStep

NewSessionStep == \E s \in Ids : NewSession(s) \/ Attach(s) \/ AddSession(s)

LEMMA NetFrame ==
    ASSUME TypeOK, Completion \/ HandlerStep
    PROVE  /\ UNCHANGED worldVars
           /\ pc'[Acceptor] = pc[Acceptor] /\ pc'[World] = pc[World]
           /\ \/ NewSessionStep
              \/ UNCHANGED sessionVars
           /\ pc'[Net] \in {"auth", "attach"} =>
                \/ pc'[Net] = pc[Net]
                \/ pc'[Net] = "auth" /\ session = NoSession /\ UNCHANGED sessionVars
                \/ NewSessionStep
<1> USE ThreadFacts DEF TypeOK, Goto, socketVars, refVars, netVars
<1>1. CASE Completion
  BY <1>1 DEF Completion, ReadFails, ReadCompletes, WriteCompletes, WriteFails
<1>2. CASE InputRejected \/ InputPlain \/ InputChallenge
  BY <1>2 DEF InputRejected, InputPlain, InputChallenge, Process, NextPacket
<1>3. CASE InputPing \/ InputGame \/ InputAuth
  BY <1>3 DEF InputPing, InputGame, InputAuth, Process, NextPacket
<1>4. CASE ProcessIncoming \/ AuthFails \/ EndInput \/ EndHandler
  BY <1>4 DEF ProcessIncoming, AuthFails, EndInput, EndHandler, StartAsyncRead
<1>5. CASE SendPacket(Net) \/ QueueSerializedPacket(Net)
  BY <1>5 DEF SendPacket, QueueSerializedPacket, AfterSend, NextPacket
<1>6. CASE CloseSocket(Net) \/ ClearPendingOutput(Net) \/ CloseTcpSocket(Net)
  BY <1>6 DEF CloseSocket, ClearPendingOutput, CloseTcpSocket, AfterClose
<1>7. CASE NotifyClosed(Net) \/ SocketClosed(Net) \/ DropOwner(Net)
  BY <1>7 DEF NotifyClosed, SocketClosed, DropOwner
<1>8. CASE NewSessionStep
  BY <1>8 DEF NewSessionStep, NewSession, Attach, AddSession, NextPacket
<1> QED
  BY <1>1, <1>2, <1>3, <1>4, <1>5, <1>6, <1>7, <1>8 DEF HandlerStep, NewSessionStep

LEMMA WorldFrame ==
    ASSUME TypeOK, WorldStep \/ SessionStep \/ ShutdownStep
    PROVE  /\ UNCHANGED <<owned, reading, packets>>
           /\ pc'[Acceptor] = pc[Acceptor] /\ pc'[Net] = pc[Net]
<1> USE ThreadFacts DEF TypeOK, Goto, socketVars, refVars, netVars
<1>1. CASE DetachSession \/ FreeSession
  BY <1>1 DEF DetachSession, FreeSession
<1>2. CASE SendPacket(World) \/ QueueSerializedPacket(World)
  BY <1>2 DEF SendPacket, QueueSerializedPacket, AfterSend
<1>3. CASE CloseSocket(World) \/ ClearPendingOutput(World) \/ CloseTcpSocket(World)
  BY <1>3 DEF CloseSocket, ClearPendingOutput, CloseTcpSocket, AfterClose
<1>4. CASE SessionStep
  BY <1>4 DEF SessionStep, AcceptSession, RejectSession, ReplaceSession, KickPlayer,
              Send, RemoveClosedSession, SkipOpenSession, Begin
<1>5. CASE ShutdownStep
  BY <1>5 DEF ShutdownStep, KickAll, StartLastUpdate, EndLastUpdate, StopReactor,
              JoinReactor, UseDeletedSocket, Begin
<1> QED
  BY <1>1, <1>2, <1>3, <1>4, <1>5 DEF WorldStep

-----------------------------------------------------------------------------
Sessions ==
    SessionSockets /\ WorldControl /\ AttachedSessionAlive /\ AttachControl

LEMMA SessionsNet ==
    ASSUME TypeOK, Sessions, Completion \/ HandlerStep
    PROVE  Sessions'
<1> USE DEF Sessions, SessionSockets, WorldControl, ClosesForSession, ActsOnSession,
            AttachedSessionAlive, AttachControl, sessionVars, worldVars
<1>1. CASE ~NewSessionStep
  BY <1>1, NetFrame
<1>2. ASSUME NEW s \in Ids, NewSession(s) PROVE Sessions'
  <2>1. /\ state[s] = "unborn" /\ state' = [state EXCEPT ![s] = "new"]
        /\ sock' = [sock EXCEPT ![s] = TRUE] /\ session' = session
        /\ session = NoSession
    BY <1>2 DEF NewSession
  <2> QED
    BY <1>2, <2>1, NetFrame DEF TypeOK
<1>3. ASSUME NEW s \in Ids, Attach(s) PROVE Sessions'
  <2>1. /\ state[s] = "new" /\ session' = s /\ UNCHANGED <<state, sock>>
        /\ pc'[Net] = "handover"
    BY <1>3, ThreadFacts DEF Attach, Goto, TypeOK
  <2> QED
    BY <2>1, NetFrame, WorldSocketAssumption DEF TypeOK
<1>4. ASSUME NEW s \in Ids, AddSession(s) PROVE Sessions'
  <2>1. /\ state[s] = "new" /\ state' = [state EXCEPT ![s] = "queued"]
        /\ UNCHANGED <<session, sock>> /\ pc'[Net] \in {"input", "rearm"}
    BY <1>4, ThreadFacts DEF AddSession, Goto, NextPacket, TypeOK
  <2> QED
    BY <2>1, NetFrame DEF TypeOK
<1> QED
  BY <1>1, <1>2, <1>3, <1>4, NetFrame DEF NewSessionStep

LEMMA SessionsWorld ==
    ASSUME TypeOK, Sessions, WorldStep \/ SessionStep \/ ShutdownStep
    PROVE  Sessions'
<1> USE DEF Sessions, SessionSockets, WorldControl, ClosesForSession, ActsOnSession,
            AttachedSessionAlive, AttachControl, sessionVars, worldVars
<1>1. World \in Threads
  BY ThreadFacts
<1>2. CASE DetachSession
  BY <1>1, <1>2, WorldFrame, WorldSocketAssumption DEF DetachSession, Goto, TypeOK, Ids
<1>3. CASE FreeSession
  BY <1>1, <1>3, WorldFrame DEF FreeSession, Goto, TypeOK
<1>4. CASE SendPacket(World) \/ QueueSerializedPacket(World)
  BY <1>1, <1>4, WorldFrame, ThreadFacts
     DEF SendPacket, QueueSerializedPacket, AfterSend, Goto, TypeOK
<1>5. CASE CloseSocket(World) \/ ClearPendingOutput(World) \/ CloseTcpSocket(World)
  BY <1>1, <1>5, WorldFrame, ThreadFacts
     DEF CloseSocket, ClearPendingOutput, CloseTcpSocket, AfterClose, Goto, TypeOK
<1>6. ASSUME NEW s \in Ids, AcceptSession(s) PROVE Sessions'
  BY <1>1, <1>6, WorldFrame DEF AcceptSession, Begin, Goto, TypeOK
<1>7. CASE \E s \in Ids : \/ RejectSession(s) \/ ReplaceSession(s) \/ KickPlayer(s)
                          \/ Send(s) \/ RemoveClosedSession(s) \/ SkipOpenSession(s)
  BY <1>1, <1>7, WorldFrame
     DEF RejectSession, ReplaceSession, KickPlayer, Send, RemoveClosedSession,
         SkipOpenSession, Begin, Goto, TypeOK
<1>8. CASE KickAll \/ StartLastUpdate \/ EndLastUpdate
  BY <1>1, <1>8, WorldFrame
     DEF KickAll, StartLastUpdate, EndLastUpdate, Begin, Goto, Listed, TypeOK
<1>9. CASE StopReactor \/ JoinReactor \/ UseDeletedSocket
  BY <1>1, <1>9, WorldFrame DEF StopReactor, JoinReactor, UseDeletedSocket, Goto, TypeOK
<1> QED
  BY <1>2, <1>3, <1>4, <1>5, <1>6, <1>7, <1>8, <1>9 DEF WorldStep, SessionStep, ShutdownStep

LEMMA SessionsStep == TypeOK /\ Sessions /\ [Next]_vars => Sessions'
<1>1. ASSUME TypeOK, Sessions, AcceptorStep PROVE Sessions'
  BY <1>1, AcceptorFrame
     DEF Sessions, SessionSockets, WorldControl, ClosesForSession, ActsOnSession,
         AttachedSessionAlive, AttachControl, sessionVars, worldVars
<1>2. ASSUME Sessions, UNCHANGED vars PROVE Sessions'
  BY <1>2
     DEF Sessions, SessionSockets, WorldControl, ClosesForSession, ActsOnSession,
         AttachedSessionAlive, AttachControl, vars, sessionVars, worldVars
<1> QED
  BY <1>1, <1>2, SessionsNet, SessionsWorld, NextCases

-----------------------------------------------------------------------------
\* Before the socket is read the reactor and the world thread have no part in it.
LEMMA QuietNet ==
    ASSUME TypeOK, Quiet, Completion \/ HandlerStep
    PROVE  pc[Acceptor] \notin {"add", "guard", "start", "flush"}
<1>1. CASE Completion
  BY <1>1 DEF Quiet, Completion, ReadFails, ReadCompletes, WriteCompletes, WriteFails
<1>2. CASE HandlerStep
  <2>1. pc[Net] # "idle"
    BY <1>2 DEF HandlerStep, ProcessIncoming, InputRejected, InputPlain,
                InputChallenge, InputPing, InputGame, InputAuth, Process,
                AuthFails, NewSession, Attach, AddSession, SendPacket,
                QueueSerializedPacket, EndInput, CloseSocket, ClearPendingOutput,
                CloseTcpSocket, NotifyClosed, SocketClosed, DropOwner, EndHandler
  <2> QED
    BY <2>1 DEF Quiet
<1> QED
  BY <1>1, <1>2

LEMMA QuietStep == TypeOK /\ Sessions /\ Quiet /\ [Next]_vars => Quiet'
<1> SUFFICES ASSUME TypeOK, Sessions, Quiet, [Next]_vars PROVE Quiet'
  OBVIOUS
<1>1. CASE AcceptorStep
  <2>1. CASE AddSocket \/ GuardStart \/ Start
    BY <1>1, <2>1, AcceptorFrame, ThreadFacts
       DEF AddSocket, GuardStart, Start, Goto, Quiet, TypeOK, sessionVars, netVars,
           socketVars
  <2>2. CASE \/ FlushPendingOutput \/ StartReading \/ EndAddSocket
             \/ NotifyClosed(Acceptor) \/ SocketClosed(Acceptor) \/ DropOwner(Acceptor)
    BY <2>2, ThreadFacts
       DEF FlushPendingOutput, StartReading, StartAsyncRead, EndAddSocket,
           NotifyClosed, SocketClosed, DropOwner, Goto, Quiet, TypeOK
  <2> QED
    BY <1>1, <2>1, <2>2 DEF AcceptorStep
<1>2. CASE Completion \/ HandlerStep
  BY <1>2, QuietNet, NetFrame DEF Quiet
<1>3. CASE WorldStep
  <2>1. CASE CloseSocket(World) \/ ClearPendingOutput(World) \/ CloseTcpSocket(World)
    BY <1>3, <2>1, WorldFrame
       DEF CloseSocket, ClearPendingOutput, CloseTcpSocket, Quiet, netVars, sessionVars
  <2>2. CASE \/ SendPacket(World) \/ QueueSerializedPacket(World)
             \/ DetachSession \/ FreeSession
    <3>1. ActsOnSession
      BY <2>2 DEF SendPacket, QueueSerializedPacket, DetachSession, FreeSession,
                  ActsOnSession
    <3> QED
      BY <1>3, <3>1, WorldFrame DEF Sessions, WorldControl, Quiet
  <2> QED
    BY <1>3, <2>1, <2>2 DEF WorldStep
<1>4. CASE SessionStep
  BY <1>4, WorldFrame
     DEF SessionStep, AcceptSession, RejectSession, ReplaceSession, KickPlayer, Send,
         RemoveClosedSession, SkipOpenSession, Begin, Quiet, netVars
<1>5. CASE ShutdownStep
  <2>1. UNCHANGED <<state, writes>>
    BY <1>5 DEF ShutdownStep, KickAll, StartLastUpdate, EndLastUpdate, StopReactor,
                JoinReactor, UseDeletedSocket, Begin, netVars, sessionVars
  <2> QED
    BY <1>5, <2>1, WorldFrame DEF Quiet
<1>6. CASE UNCHANGED vars
  BY <1>6 DEF vars, netVars, sessionVars, Quiet
<1> QED
  BY <1>1, <1>2, <1>3, <1>4, <1>5, <1>6, NextCases

LEMMA ReadOnceNet ==
    ASSUME TypeOK, ReadOnce, Quiet, Completion \/ HandlerStep
    PROVE  ReadOnce'
<1> USE ThreadFacts DEF TypeOK, Goto, ReadOnce, InputLabels
<1>1. CASE Completion
  BY <1>1, QuietNet, NetFrame
     DEF Completion, ReadFails, ReadCompletes, WriteCompletes, WriteFails, Quiet
<1>2. CASE InputRejected \/ InputPlain \/ InputChallenge
  BY <1>2, NetFrame DEF InputRejected, InputPlain, InputChallenge, Process, NextPacket
<1>3. CASE InputPing \/ InputGame \/ InputAuth
  BY <1>3, NetFrame DEF InputPing, InputGame, InputAuth, Process, NextPacket
<1>4. CASE ProcessIncoming \/ AuthFails
  BY <1>4, NetFrame DEF ProcessIncoming, AuthFails, netVars
<1>5. CASE EndInput \/ EndHandler
  BY <1>5, NetFrame DEF EndInput, EndHandler, StartAsyncRead
<1>6. CASE SendPacket(Net) \/ QueueSerializedPacket(Net)
  BY <1>6, NetFrame DEF SendPacket, QueueSerializedPacket, AfterSend, NextPacket, netVars
<1>7. CASE CloseSocket(Net) \/ ClearPendingOutput(Net) \/ CloseTcpSocket(Net)
  BY <1>7, NetFrame
     DEF CloseSocket, ClearPendingOutput, CloseTcpSocket, AfterClose, netVars
<1>8. CASE NotifyClosed(Net) \/ SocketClosed(Net) \/ DropOwner(Net)
  BY <1>8, NetFrame DEF NotifyClosed, SocketClosed, DropOwner, netVars
<1>9. CASE NewSessionStep
  BY <1>9, NetFrame DEF NewSessionStep, NewSession, Attach, AddSession, NextPacket, netVars
<1> QED
  BY <1>1, <1>2, <1>3, <1>4, <1>5, <1>6, <1>7, <1>8, <1>9 DEF HandlerStep, NewSessionStep

LEMMA ReadOnceStep == TypeOK /\ Quiet /\ ReadOnce /\ [Next]_vars => ReadOnce'
<1> SUFFICES ASSUME TypeOK, Quiet, ReadOnce, [Next]_vars PROVE ReadOnce'
  OBVIOUS
<1>1. CASE AcceptorStep
  BY <1>1, AcceptorFrame, ThreadFacts
     DEF AcceptorStep, AddSocket, GuardStart, Start, FlushPendingOutput, StartReading,
         StartAsyncRead, EndAddSocket, NotifyClosed, SocketClosed, DropOwner, Goto,
         netVars, TypeOK, ReadOnce
<1>2. CASE WorldStep \/ SessionStep \/ ShutdownStep
  BY <1>2, WorldFrame DEF ReadOnce
<1>3. CASE UNCHANGED vars
  BY <1>3 DEF vars, netVars, ReadOnce
<1> QED
  BY <1>1, <1>2, <1>3, ReadOnceNet, NextCases

-----------------------------------------------------------------------------
\* How the sessions that hold a reference are counted.
LEMMA SessionCount ==
    ASSUME TypeOK
    PROVE  /\ IsFiniteSet(SessionRefs) /\ Cardinality(SessionRefs) \in Nat
           /\ Cardinality(SessionRefs) = 0 <=> \A s \in Ids : ~sock[s]
<1>1. IsFiniteSet(Ids)
  BY WorldSocketAssumption, FS_Interval DEF Ids
<1>2. IsFiniteSet(SessionRefs)
  BY <1>1, FS_Subset DEF SessionRefs
<1> QED
  BY <1>2, FS_CardinalityType, FS_EmptySet DEF SessionRefs

LEMMA SessionGains ==
    ASSUME TypeOK, NEW s \in Ids, ~sock[s], sock' = [sock EXCEPT ![s] = TRUE]
    PROVE  Cardinality(SessionRefs') = Cardinality(SessionRefs) + 1
<1>1. SessionRefs' = SessionRefs \cup {s} /\ s \notin SessionRefs
  BY DEF SessionRefs, TypeOK
<1> QED
  BY <1>1, SessionCount, FS_AddElement

LEMMA SessionLoses ==
    ASSUME TypeOK, NEW s \in Ids, sock[s], sock' = [sock EXCEPT ![s] = FALSE]
    PROVE  Cardinality(SessionRefs') = Cardinality(SessionRefs) - 1
<1>1. SessionRefs' = SessionRefs \ {s} /\ s \in SessionRefs
  BY DEF SessionRefs, TypeOK
<1> QED
  BY <1>1, SessionCount, FS_RemoveElement

Counted == RefsExact /\ (freed => refs = 0 /\ pc[Acceptor] = "done")

\* A thread that holds a reference finds the socket alive.
LEMMA HolderFindsAlive ==
    ASSUME TypeOK, Counted, Sessions,
           \/ pc[Acceptor] # "done"
           \/ pc[Net] # "idle" \/ reading \/ writes > 0 \/ owned
           \/ ActsOnSession \/ ClosesForSession
    PROVE  ~freed
  BY SessionCount
     DEF Counted, RefsExact, Holders, Ref, Sessions, SessionSockets, WorldControl, TypeOK

\* The steps that touch nothing that is counted.
LEMMA CountedUnchanged ==
    ASSUME Counted, UNCHANGED <<refs, freed, owned, reading, writes, sock>>,
           \/ pc'[Acceptor] = pc[Acceptor]
           \/ {pc[Acceptor], pc'[Acceptor]}
                \cap {"add", "guard", "done", "dropOwner"} = {},
           \/ pc'[Net] = pc[Net]
           \/ {pc[Net], pc'[Net]} \cap {"idle", "dropOwner"} = {}
    PROVE  Counted'
  BY DEF Counted, RefsExact, Holders, Ref, SessionRefs

LEMMA CountedAcceptor ==
    ASSUME TypeOK, TypeOK', Counted, Sessions, Quiet, ReadOnce,
           stopped => pc[Acceptor] = "done", AcceptorStep
    PROVE  Counted'
<1> USE ThreadFacts DEF Goto, AddReference, RemoveReference, socketVars, refVars,
                        sessionVars, worldVars
<1>1. /\ pc'[Net] = pc[Net] /\ sock' = sock /\ SessionRefs' = SessionRefs
  BY AcceptorFrame DEF SessionRefs
<1>2. ~freed
  <2>1. pc[Acceptor] # "done"
    BY DEF AcceptorStep, AddSocket, GuardStart, Start, FlushPendingOutput,
           StartReading, EndAddSocket, NotifyClosed, SocketClosed, DropOwner
  <2> QED
    BY <2>1, HolderFindsAlive
<1>3. Cardinality(SessionRefs) \in Nat
  BY SessionCount
<1>4. CASE AddSocket
  <2>1. ~owned /\ ~stopped
    BY <1>4 DEF AddSocket, Quiet
  <2>2. /\ pc[Acceptor] = "add" /\ pc'[Acceptor] = "guard" /\ owned' = TRUE
        /\ refs' = refs + 1 /\ UNCHANGED <<freed, reading, writes>>
    BY <1>4, <2>1 DEF AddSocket, TypeOK
  <2> QED
    BY <1>1, <1>2, <1>3, <2>1, <2>2 DEF Counted, RefsExact, Holders, Ref, TypeOK
<1>5. CASE GuardStart
  BY <1>1, <1>2, <1>3, <1>5
     DEF GuardStart, Counted, RefsExact, Holders, Ref, TypeOK, netVars
<1>6. CASE Start
  BY <1>1, <1>2, <1>6, CountedUnchanged DEF Start, TypeOK, netVars
<1>7. CASE FlushPendingOutput
  BY <1>1, <1>2, <1>3, <1>7
     DEF FlushPendingOutput, Counted, RefsExact, Holders, Ref, TypeOK
<1>8. CASE StartReading
  <2>1. ~reading
    BY <1>8 DEF StartReading, ReadOnce
  <2> QED
    BY <1>1, <1>2, <1>3, <1>8, <2>1
       DEF StartReading, StartAsyncRead, Counted, RefsExact, Holders, Ref, TypeOK
<1>9. CASE NotifyClosed(Acceptor)
  BY <1>1, <1>2, <1>9, CountedUnchanged DEF NotifyClosed, TypeOK, netVars
<1>10. CASE SocketClosed(Acceptor)
  BY <1>1, <1>2, <1>3, <1>10
     DEF SocketClosed, Counted, RefsExact, Holders, Ref, TypeOK
<1>11. CASE DropOwner(Acceptor)
  BY <1>1, <1>2, <1>3, <1>11
     DEF DropOwner, Counted, RefsExact, Holders, Ref, TypeOK, netVars
<1>12. CASE EndAddSocket
  BY <1>1, <1>2, <1>3, <1>12
     DEF EndAddSocket, Counted, RefsExact, Holders, Ref, TypeOK, netVars
<1> QED
  BY <1>4, <1>5, <1>6, <1>7, <1>8, <1>9, <1>10, <1>11, <1>12 DEF AcceptorStep

LEMMA CountedNet ==
    ASSUME TypeOK, TypeOK', Counted, Sessions, Quiet, ReadOnce,
           Completion \/ HandlerStep
    PROVE  Counted'
<1> USE ThreadFacts DEF Goto, AddReference, RemoveReference, socketVars, refVars,
                        sessionVars, worldVars
<1>1. /\ pc'[Acceptor] = pc[Acceptor]
      /\ pc[Acceptor] \notin {"add", "guard", "start", "flush"}
  BY NetFrame, QuietNet
<1>2. CASE Completion
  <2>1. reading \/ writes > 0
    BY <1>2 DEF Completion, ReadFails, ReadCompletes, WriteCompletes, WriteFails
  <2>2. ~freed
    BY <2>1, HolderFindsAlive
  <2>3. CASE ReadFails \/ ReadCompletes
    <3>1. /\ reading /\ reading' = FALSE
          /\ pc[Net] = "idle" /\ pc'[Net] \in {"close", "input"}
          /\ UNCHANGED <<refs, freed, owned, writes, sock>>
      BY <2>3 DEF ReadFails, ReadCompletes, TypeOK
    <3> QED
      BY <1>1, <2>2, <3>1, SessionCount
         DEF Counted, RefsExact, Holders, Ref, TypeOK, SessionRefs
  <2>4. CASE WriteCompletes \/ WriteFails
    <3>1. /\ pc[Net] = "idle" /\ pc'[Net] \in {"close", "release"}
          /\ writes' = writes - 1
          /\ UNCHANGED <<refs, freed, owned, reading, sock>>
      BY <2>4 DEF WriteCompletes, WriteFails, TypeOK
    <3> QED
      BY <1>1, <2>2, <3>1, SessionCount
         DEF Counted, RefsExact, Holders, Ref, TypeOK, SessionRefs
  <2> QED
    BY <1>2, <2>3, <2>4 DEF Completion
<1>3. CASE HandlerStep
  <2>1. ~freed
    <3>1. pc[Net] # "idle"
      BY <1>3 DEF HandlerStep, ProcessIncoming, InputRejected, InputPlain,
                  InputChallenge, InputPing, InputGame, InputAuth, Process,
                  AuthFails, NewSession, Attach, AddSession, SendPacket,
                  QueueSerializedPacket, EndInput, CloseSocket, ClearPendingOutput,
                  CloseTcpSocket, NotifyClosed, SocketClosed, DropOwner, EndHandler
    <3> QED
      BY <3>1, HolderFindsAlive
  <2>2. CASE InputRejected \/ InputPlain \/ InputChallenge
    BY <1>1, <2>2, CountedUnchanged
       DEF InputRejected, InputPlain, InputChallenge, Process, NextPacket, TypeOK
  <2>3. CASE InputPing \/ InputGame \/ InputAuth
    BY <1>1, <2>3, CountedUnchanged
       DEF InputPing, InputGame, InputAuth, Process, NextPacket, TypeOK
  <2>4. CASE ProcessIncoming \/ AuthFails
    BY <1>1, <2>4, CountedUnchanged DEF ProcessIncoming, AuthFails, TypeOK, netVars
  <2>5. CASE CloseSocket(Net) \/ ClearPendingOutput(Net) \/ CloseTcpSocket(Net)
    BY <1>1, <2>5, CountedUnchanged
       DEF CloseSocket, ClearPendingOutput, CloseTcpSocket, AfterClose, TypeOK, netVars
  <2>6. CASE SendPacket(Net) \/ NotifyClosed(Net)
    BY <1>1, <2>6, CountedUnchanged DEF SendPacket, NotifyClosed, TypeOK, netVars
  <2>7. CASE QueueSerializedPacket(Net)
    BY <1>1, <2>1, <2>7, SessionCount
       DEF QueueSerializedPacket, AfterSend, NextPacket, Counted, RefsExact, Holders,
           Ref, TypeOK, SessionRefs
  <2>8. ASSUME NEW s \in Ids, NewSession(s) PROVE Counted'
    <3>1. ~sock[s] /\ sock' = [sock EXCEPT ![s] = TRUE]
      BY <2>8 DEF NewSession, Sessions, SessionSockets
    <3>2. /\ pc[Net] = "auth" /\ pc'[Net] = "attach" /\ refs' = refs + 1
          /\ UNCHANGED <<freed, owned, reading, writes>>
      BY <2>8 DEF NewSession, TypeOK, netVars
    <3>3. Cardinality(SessionRefs') = Cardinality(SessionRefs) + 1
      BY <3>1, SessionGains
    <3> QED
      BY <1>1, <2>1, <3>2, <3>3, SessionCount DEF Counted, RefsExact, Holders, Ref, TypeOK
  <2>9. ASSUME NEW s \in Ids, Attach(s) \/ AddSession(s) PROVE Counted'
    BY <1>1, <2>9, CountedUnchanged DEF Attach, AddSession, NextPacket, TypeOK, netVars
  <2>10. CASE EndInput
    <3>1. ~reading
      BY <2>10 DEF EndInput, ReadOnce, InputLabels
    <3> QED
      BY <1>1, <2>1, <2>10, <3>1, SessionCount
         DEF EndInput, StartAsyncRead, Counted, RefsExact, Holders, Ref, TypeOK, SessionRefs
  <2>11. CASE SocketClosed(Net)
    BY <1>1, <2>1, <2>11, SessionCount
       DEF SocketClosed, Counted, RefsExact, Holders, Ref, TypeOK, SessionRefs
  <2>12. CASE DropOwner(Net) \/ EndHandler
    <3>1. /\ \/ pc[Net] = "dropOwner" /\ pc'[Net] = "release"
             \/ pc[Net] = "release" /\ pc'[Net] = "idle"
          /\ refs' = refs - 1 /\ freed' = (refs' = 0)
          /\ UNCHANGED <<owned, reading, writes, sock>>
      BY <2>12 DEF DropOwner, EndHandler, TypeOK, netVars
    <3>2. RefsExact'
      BY <1>1, <3>1, SessionCount DEF Counted, RefsExact, Holders, Ref, TypeOK, SessionRefs
    <3>3. refs' = 0 => pc'[Acceptor] = "done"
      <4>1. Cardinality(SessionRefs') \in Nat
        BY SessionCount, <3>1 DEF SessionRefs
      <4> QED
        BY <1>1, <3>2, <4>1 DEF RefsExact, Holders, Ref, TypeOK
    <3> QED
      BY <3>1, <3>2, <3>3 DEF Counted
  <2> QED
    BY <1>3, <2>2, <2>3, <2>4, <2>5, <2>6, <2>7, <2>8, <2>9, <2>10, <2>11, <2>12
       DEF HandlerStep
<1> QED
  BY <1>2, <1>3

LEMMA CountedWorld ==
    ASSUME TypeOK, TypeOK', Counted, Sessions, Quiet,
           WorldStep \/ SessionStep \/ ShutdownStep
    PROVE  Counted'
<1> USE ThreadFacts DEF Goto, AddReference, RemoveReference, socketVars, refVars,
                        sessionVars, worldVars
<1>1. pc'[Acceptor] = pc[Acceptor] /\ pc'[Net] = pc[Net]
  BY WorldFrame
<1>2. CASE QueueSerializedPacket(World)
  <2>1. ~freed
    BY <1>2, HolderFindsAlive DEF QueueSerializedPacket, ActsOnSession
  <2> QED
    BY <1>1, <1>2, <2>1, SessionCount
       DEF QueueSerializedPacket, Counted, RefsExact, Holders, Ref, TypeOK, SessionRefs
<1>3. CASE FreeSession
  <2>1. /\ ActsOnSession /\ current \in Ids /\ sock[current]
        /\ state[current] \in {"queued", "listed"}
    BY <1>3 DEF FreeSession, ActsOnSession, Sessions, WorldControl, SessionSockets
  <2>2. ~freed
    BY <2>1, HolderFindsAlive
  <2>3. pc[Acceptor] \notin {"add", "guard", "start", "flush"}
    BY <2>1 DEF Quiet
  <2>4. /\ refs' = refs - 1 /\ freed' = (refs' = 0)
        /\ sock' = [sock EXCEPT ![current] = FALSE]
        /\ UNCHANGED <<owned, reading, writes>>
    BY <1>3 DEF FreeSession, netVars
  <2>5. Cardinality(SessionRefs') = Cardinality(SessionRefs) - 1
    BY <2>1, <2>4, SessionLoses
  <2>6. RefsExact'
    BY <1>1, <2>4, <2>5, SessionCount DEF Counted, RefsExact, Holders, Ref, TypeOK
  <2>7. Cardinality(SessionRefs') \in Nat
    BY <2>1, <2>5, SessionCount
  <2>8. refs' = 0 => pc'[Acceptor] = "done"
    BY <1>1, <2>3, <2>6, <2>7 DEF RefsExact, Holders, Ref, TypeOK
  <2> QED
    BY <2>4, <2>6, <2>8 DEF Counted
<1>4. CASE \/ CloseSocket(World) \/ ClearPendingOutput(World) \/ CloseTcpSocket(World)
           \/ SendPacket(World) \/ DetachSession
  BY <1>1, <1>4, CountedUnchanged
     DEF CloseSocket, ClearPendingOutput, CloseTcpSocket, SendPacket, DetachSession, netVars
<1>5. CASE SessionStep
  BY <1>1, <1>5, CountedUnchanged
     DEF SessionStep, AcceptSession, RejectSession, ReplaceSession, KickPlayer, Send,
         RemoveClosedSession, SkipOpenSession, Begin, netVars
<1>6. CASE ShutdownStep
  BY <1>1, <1>6, CountedUnchanged
     DEF ShutdownStep, KickAll, StartLastUpdate, EndLastUpdate, StopReactor,
         JoinReactor, UseDeletedSocket, Begin, netVars
<1> QED
  BY <1>2, <1>3, <1>4, <1>5, <1>6 DEF WorldStep

LEMMA StoppedStep ==
    TypeOK /\ (stopped => pc[Acceptor] = "done") /\ [Next]_vars
        => (stopped' => pc'[Acceptor] = "done")
<1> SUFFICES ASSUME TypeOK, stopped => pc[Acceptor] = "done", [Next]_vars, stopped'
             PROVE  pc'[Acceptor] = "done"
  OBVIOUS
<1>1. ASSUME AcceptorStep PROVE FALSE
  <2>1. pc[Acceptor] # "done"
    BY <1>1 DEF AcceptorStep, AddSocket, GuardStart, Start, FlushPendingOutput,
                StartReading, EndAddSocket, NotifyClosed, SocketClosed, DropOwner
  <2> QED
    BY <1>1, <2>1, AcceptorFrame DEF worldVars
<1>2. CASE Completion \/ HandlerStep
  BY <1>2, NetFrame DEF worldVars
<1>3. CASE WorldStep \/ SessionStep
  BY <1>3, WorldFrame
     DEF WorldStep, CloseSocket, ClearPendingOutput, CloseTcpSocket, SendPacket,
         QueueSerializedPacket, DetachSession, FreeSession, SessionStep, AcceptSession,
         RejectSession, ReplaceSession, KickPlayer, Send, RemoveClosedSession,
         SkipOpenSession, Begin, worldVars
<1>4. CASE ShutdownStep
  BY <1>4, WorldFrame
     DEF ShutdownStep, KickAll, StartLastUpdate, EndLastUpdate, StopReactor,
         JoinReactor, UseDeletedSocket, Begin
<1>5. CASE UNCHANGED vars
  BY <1>5 DEF vars, worldVars
<1> QED
  BY <1>1, <1>2, <1>3, <1>4, <1>5, NextCases

-----------------------------------------------------------------------------
LEMMA InitIInv == Init => IInv
<1> SUFFICES ASSUME Init PROVE IInv
  OBVIOUS
<1>1. TypeOK
  BY InitType
<1>2. SessionRefs = {}
  BY DEF Init, SessionRefs
<1>3. RefsExact
  BY <1>2, FS_EmptySet, ThreadFacts DEF Init, RefsExact, Holders, Ref
<1> QED
  BY <1>1, <1>3, ThreadFacts
     DEF Init, IInv, Quiet, ReadOnce, InputLabels, Lifetime, SessionSockets,
         WorldControl, ClosesForSession, ActsOnSession, AttachedSessionAlive, AttachControl, SendControl,
         Discarded

LEMMA IInvStep == IInv /\ [Next]_vars => IInv'
<1> SUFFICES ASSUME IInv, [Next]_vars PROVE IInv'
  OBVIOUS
<1>1. TypeOK /\ Sessions /\ Quiet /\ ReadOnce /\ Counted /\ SendControl
      /\ (stopped => pc[Acceptor] = "done")
  BY DEF IInv, Sessions, Counted, Lifetime
<1>2. TypeOK' /\ Sessions' /\ Quiet' /\ ReadOnce' /\ SendControl'
      /\ (stopped' => pc'[Acceptor] = "done")
  BY <1>1, TypeStep, SessionsStep, QuietStep, ReadOnceStep, SendControlStep, StoppedStep
<1>3. ASSUME UNCHANGED vars PROVE Counted'
  BY <1>1, <1>3, CountedUnchanged DEF vars, refVars, netVars, sessionVars
<1>4. Counted'
  BY <1>1, <1>2, <1>3, CountedAcceptor, CountedNet, CountedWorld, NextCases
<1> QED
  BY <1>2, <1>4 DEF IInv, Sessions, Counted, Lifetime

THEOREM Invariance == Spec => []IInv
  BY InitIInv, IInvStep, PTL DEF Spec

\* The reference count is the number of references held, in every state.
THEOREM RefsCorrect == Spec => []RefsExact
<1>1. IInv => RefsExact
  BY DEF IInv
<1> QED
  BY <1>1, Invariance, PTL

\* A deleted socket is used by nobody but ReactorRunnable::Stop, which closes it
\* through a pointer it copied without a reference.
THEOREM NeverUsedAfterFree == Spec => []NoUseAfterFree
<1>1. ASSUME IInv PROVE NoUseAfterFree
  <2>1. TypeOK /\ Sessions /\ Counted
    BY <1>1 DEF IInv, Sessions, Counted, Lifetime
  <2>2. ASSUME freed
        PROVE  /\ pc[Acceptor] = "done" /\ pc[Net] = "idle"
               /\ ~reading /\ ~(writes > 0) /\ ~owned
               /\ ~ActsOnSession /\ ~ClosesForSession
    BY <2>1, <2>2, HolderFindsAlive
  <2>3. ASSUME freed PROVE \A s \in Ids : ~sock[s]
    BY <2>1, <2>2, <2>3, SessionCount DEF Counted, RefsExact, Holders, Ref, TypeOK
  <2> QED
    BY <2>1, <2>2, <2>3 DEF NoUseAfterFree, ActsOnSession, ClosesForSession, TypeOK
<1> QED
  BY <1>1, Invariance, PTL

\* The session attached to the socket is alive, and the network thread never
\* finds one when it attaches the session it has created.
THEOREM AttachCorrect == Spec => []AttachSafe
<1>1. IInv => AttachSafe
  BY DEF IInv, AttachControl, AttachSucceeds, AttachSafe
<1> QED
  BY <1>1, Invariance, PTL

\* Packets are queued only on an open descriptor.
THEOREM QueuedOnOpen == Spec => []QueueOnOpenSocket
<1>1. IInv => QueueOnOpenSocket
  BY DEF IInv, SendControl, Discarded, QueueOnOpenSocket, TypeOK
<1> QED
  BY <1>1, Invariance, PTL
=============================================================================
