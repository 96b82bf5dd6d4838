----------------------------- MODULE SessionQueue -----------------------------
(***************************************************************************)
(* The sessions of World and its login queue: sessions handed over by the  *)
(* network threads, the player limit, the queue in front of it, kicks,     *)
(* reconnections of an account that is already logged in, disconnections,  *)
(* and the tolerance for accounts that disconnected recently.  A session   *)
(* is numbered in the order HandleAuthSession creates it.                  *)
(***************************************************************************)
EXTENDS Integers, Sequences, FiniteSets, SequencesExt

CONSTANTS
    Accounts,
    Privileged,     \* accounts with RBAC_PERM_SKIP_QUEUE
    NoSession,
    InitialLimit,   \* PlayerLimit at startup; 0 is no limit
    Limits,         \* values SetPlayerAmountLimit is given at run time
    Tolerance,      \* CONFIG_INTERVAL_DISCONNECT_TOLERANCE; 0 disables it
    MaxSessions,    \* bound: sessions a behaviour may create
    MaxTime         \* bound: last value of the clock

ASSUME SessionQueueAssumption ==
    /\ IsFiniteSet(Accounts)
    /\ Privileged \subseteq Accounts
    /\ InitialLimit \in Nat
    /\ Limits \subseteq Nat
    /\ Tolerance \in Nat
    /\ MaxSessions \in Nat
    /\ MaxTime \in Nat
    /\ NoSession \notin 1..MaxSessions

Never == -1

VARIABLES
    account,        \* the account of each session created, in order
    closed,         \* sessions whose socket is closed
    loading,        \* sessions with m_playerLoading set
    deleted,        \* sessions whose destructor has run
    addSessQueue,   \* World::addSessQueue
    sessions,       \* World::m_sessions
    queue,          \* World::m_QueuedPlayer
    inQueue,        \* sessions with m_inQueue set
    told,           \* last queue position each client was sent; 0 is "enter"
    limit,          \* World::m_playerLimit
    disconnects,    \* World::m_disconnects
    now,            \* the clock
    phase, todo,    \* where UpdateSessions is
    bypassed,       \* history: sessions admitted although the limit was reached
    relimited,      \* history: the limit was changed at run time
    seenOpen        \* history: sessions this update found open

vars == <<account, closed, loading, deleted, addSessQueue, sessions, queue,
          inQueue, told, limit, disconnects, now, phase, todo, bypassed,
          relimited, seenOpen>>

clientVars == <<account, closed, loading, deleted>>
worldVars == <<sessions, queue, inQueue, told, disconnects, bypassed>>
limitVars == <<limit, relimited, now>>
updateVars == <<phase, todo, seenOpen>>

Born == DOMAIN account
Listed(a) == sessions[a] # NoSession
Sessions == {sessions[a] : a \in {b \in Accounts : Listed(b)}}
GetActiveAndQueuedSessionCount == Cardinality(Sessions)

Init ==
    /\ account = << >>
    /\ closed = {} /\ loading = {} /\ deleted = {}
    /\ addSessQueue = << >>
    /\ sessions = [a \in Accounts |-> NoSession]
    /\ queue = << >>
    /\ inQueue = {}
    /\ told = [s \in 1..MaxSessions |-> 0]
    /\ limit = InitialLimit
    /\ disconnects = [a \in Accounts |-> Never]
    /\ now = 0
    /\ phase = "idle" /\ todo = {}
    /\ bypassed = {}
    /\ relimited = FALSE
    /\ seenOpen = {}

-----------------------------------------------------------------------------
(* Network threads and the clock. *)

\* HandleAuthSession ends with World::AddSession.
AddSession(a) ==
    /\ Len(account) < MaxSessions
    /\ account' = Append(account, a)
    /\ addSessQueue' = Append(addSessQueue, Len(account) + 1)
    /\ UNCHANGED <<closed, loading, deleted, worldVars, limitVars, updateVars>>

\* The client goes, the session idles out, or a game master kicks it.
CloseSocket(s) ==
    /\ s \in Born \ (closed \cup deleted)
    /\ closed' = closed \cup {s}
    /\ UNCHANGED <<account, loading, deleted, addSessQueue, worldVars,
                   limitVars, updateVars>>

Tick ==
    /\ now < MaxTime
    /\ now' = now + 1
    /\ UNCHANGED <<clientVars, addSessQueue, worldVars, limit, relimited,
                   updateVars>>

-----------------------------------------------------------------------------
(* World::RemoveQueuedPlayer and AddQueuedPlayer, on the login queue w =   *)
(* [line, flagged, told] while m_sessions has n entries.                   *)

Line == [line |-> queue, flagged |-> inQueue, told |-> told]

Position(q, s) == CHOOSE k \in 1..Len(q) : q[k] = s

\* The clients from position k on are sent where they stand.
SendPositions(w, q, k) ==
    [s \in DOMAIN w.told |->
        IF s \in ToSet(q) /\ Position(q, s) >= k THEN Position(q, s) ELSE w.told[s]]

\* Faulty variant: the slot of a session that leaves is not counted as free.
SlotsUsed_NoDecrease(w, n, s) == n - Len(w.line)

\* "if session not queued then we need decrease sessions count"
SlotsUsed(w, n, s) ==
    LET active == n - Len(w.line)
    IN  IF s \notin ToSet(w.line) /\ active > 0 THEN active - 1 ELSE active

SlotFree(used) == limit = 0 \/ used < limit

\* Faulty variant: positions are resent from where the erased session stood.
AcceptFirst_KeepIterator(w, q, from) ==
    [line    |-> Tail(q),
     flagged |-> w.flagged \ {Head(q)},
     told    |-> [SendPositions(w, Tail(q), from) EXCEPT ![Head(q)] = 0]]

\* The first session of q is let in; everybody behind it moves up.
AcceptFirst(w, q, from) ==
    [line    |-> Tail(q),
     flagged |-> w.flagged \ {Head(q)},
     told    |-> [SendPositions(w, Tail(q), 1) EXCEPT ![Head(q)] = 0]]

RemoveQueuedPlayer(w, n, s) ==
    LET found == s \in ToSet(w.line)
        from  == IF found THEN Position(w.line, s) ELSE Len(w.line) + 1
        q     == RemoveAt(w.line, from)
        left  == [w EXCEPT !.flagged = IF found THEN @ \ {s} ELSE @]
    IN  IF SlotFree(SlotsUsed(w, n, s)) /\ q # << >>
        THEN AcceptFirst(left, q, from)
        ELSE [left EXCEPT !.line = q, !.told = SendPositions(left, q, from)]

AddQueuedPlayer(w, s) ==
    [line    |-> Append(w.line, s),
     flagged |-> w.flagged \cup {s},
     told    |-> [w.told EXCEPT ![s] = Len(w.line) + 1]]

SetLine(w) == queue' = w.line /\ inQueue' = w.flagged /\ told' = w.told

-----------------------------------------------------------------------------
(* World::UpdateSessions: first the new sessions, then all of them. *)

StartUpdate ==
    /\ phase = "idle"
    /\ phase' = "adding"
    /\ UNCHANGED <<clientVars, addSessQueue, worldVars, limitVars, todo, seenOpen>>

\* difftime(end, beginning) of the C library.
difftime(end, beginning) == end - beginning

\* Records that fail the test are erased by the code; ignoring them is the same.
HasRecentlyDisconnected(a) ==
    /\ Tolerance # 0
    /\ disconnects[a] # Never
    /\ difftime(disconnects[a], now) < Tolerance

\* AddSession_ of an account that is still loading its character: the newcomer
\* is kicked and deleted.
RejectSession ==
    /\ phase = "adding"
    /\ addSessQueue # << >>
    /\ LET s == Head(addSessQueue)
           a == account[s]
       IN  /\ Listed(a) /\ sessions[a] \in loading
           /\ closed' = closed \cup {s}
           /\ deleted' = deleted \cup {s}
    /\ addSessQueue' = Tail(addSessQueue)
    /\ UNCHANGED <<account, loading, worldVars, limitVars, updateVars>>

\* What AddSession_ does once the old session of the account, if any, is gone:
\* w is the queue then, n the size of m_sessions with s in it.
Admit(s, w, n, oldQueued) ==
    LET others == IF oldQueued THEN n ELSE n - 1
        full   == limit > 0 /\ others >= limit
        exempt == account[s] \in Privileged \/ HasRecentlyDisconnected(account[s])
    IN  IF full /\ ~exempt
        THEN SetLine(AddQueuedPlayer(w, s)) /\ UNCHANGED bypassed
        ELSE /\ SetLine(w)
             /\ bypassed' = IF full THEN bypassed \cup {s} ELSE bypassed

\* Faulty variant: the old session is deleted without leaving the queue.
AcceptSession_KeepQueued ==
    /\ phase = "adding"
    /\ addSessQueue # << >>
    /\ LET s   == Head(addSessQueue)
           a   == account[s]
           old == sessions[a]
           n   == GetActiveAndQueuedSessionCount
       IN  /\ old \notin loading
           /\ sessions' = [sessions EXCEPT ![a] = s]
           /\ IF Listed(a)
              THEN /\ closed' = closed \cup {old}
                   /\ deleted' = deleted \cup {old}
                   /\ Admit(s, Line, n, FALSE)
              ELSE /\ UNCHANGED <<closed, deleted>>
                   /\ Admit(s, Line, n + 1, FALSE)
    /\ addSessQueue' = Tail(addSessQueue)
    /\ UNCHANGED <<account, loading, disconnects, limitVars, updateVars>>

\* AddSession_: an old session of the account is kicked, leaves the queue and
\* is deleted; the new one takes its place and is let in or queued.
AcceptSession ==
    /\ phase = "adding"
    /\ addSessQueue # << >>
    /\ LET s   == Head(addSessQueue)
           a   == account[s]
           old == sessions[a]
           n   == GetActiveAndQueuedSessionCount
       IN  /\ old \notin loading
           /\ sessions' = [sessions EXCEPT ![a] = s]
           /\ IF Listed(a)
              THEN /\ closed' = closed \cup {old}
                   /\ deleted' = deleted \cup {old}
                   /\ Admit(s, RemoveQueuedPlayer(Line, n, old), n,
                            old \in ToSet(queue))
              ELSE /\ UNCHANGED <<closed, deleted>>
                   /\ Admit(s, Line, n + 1, FALSE)
    /\ addSessQueue' = Tail(addSessQueue)
    /\ UNCHANGED <<account, loading, disconnects, limitVars, updateVars>>

\* Faulty variant: queued sessions are not updated.
AllAdded_SkipQueued ==
    /\ phase = "adding"
    /\ addSessQueue = << >>
    /\ phase' = "updating"
    /\ todo' = {a \in Accounts : Listed(a) /\ sessions[a] \notin inQueue}
    /\ UNCHANGED <<clientVars, addSessQueue, worldVars, limitVars, seenOpen>>

AllAdded ==
    /\ phase = "adding"
    /\ addSessQueue = << >>
    /\ phase' = "updating"
    /\ todo' = {a \in Accounts : Listed(a)}
    /\ UNCHANGED <<clientVars, addSessQueue, worldVars, limitVars, seenOpen>>

\* WorldSession::Update of an open session: CMSG_PLAYER_LOGIN, which a queued
\* session may not send, starts loading a character; a query callback ends it.
UpdateOpenSession(a) ==
    /\ phase = "updating"
    /\ a \in todo
    /\ sessions[a] \notin closed
    /\ todo' = todo \ {a}
    /\ seenOpen' = seenOpen \cup {sessions[a]}
    /\ \/ UNCHANGED loading
       \/ sessions[a] \notin inQueue /\ loading' = loading \cup {sessions[a]}
       \/ loading' = loading \ {sessions[a]}
    /\ UNCHANGED <<account, closed, deleted, addSessQueue, worldVars, limitVars,
                   phase>>

\* Faulty variant: the time until which the account is tolerated is stored.
RecordDisconnect_Expiry(a) ==
    IF Tolerance = 0 THEN disconnects
    ELSE [disconnects EXCEPT ![a] = now + Tolerance]

RecordDisconnect(a) ==
    IF Tolerance = 0 THEN disconnects ELSE [disconnects EXCEPT ![a] = now]

\* A session whose socket is closed leaves the queue, or is remembered as
\* disconnected; RemoveQueuedPlayer is called a second time; it is deleted.
RemoveClosedSession(a) ==
    /\ phase = "updating"
    /\ a \in todo
    /\ sessions[a] \in closed
    /\ todo' = todo \ {a}
    /\ LET s     == sessions[a]
           n     == GetActiveAndQueuedSessionCount
           first == RemoveQueuedPlayer(Line, n, s)
       IN  /\ SetLine(RemoveQueuedPlayer(first, n, s))
           /\ disconnects' = IF s \in ToSet(queue) THEN disconnects
                             ELSE RecordDisconnect(a)
           /\ sessions' = [sessions EXCEPT ![a] = NoSession]
           /\ deleted' = deleted \cup {s}
    /\ UNCHANGED <<account, closed, loading, addSessQueue, bypassed, limitVars,
                   phase, seenOpen>>

EndUpdate ==
    /\ phase = "updating"
    /\ todo = {}
    /\ phase' = "idle" /\ seenOpen' = {}
    /\ UNCHANGED <<clientVars, addSessQueue, worldVars, limitVars, todo>>

-----------------------------------------------------------------------------
(* Commands, between two updates of the sessions. *)

\* The queue is forgotten and every listed session kicked; they are removed at
\* the next update.
KickAll ==
    /\ phase = "idle"
    /\ queue' = << >>
    /\ closed' = closed \cup Sessions
    /\ UNCHANGED <<account, loading, deleted, addSessQueue, sessions, inQueue,
                   told, disconnects, bypassed, limitVars, updateVars>>

\* .server plimit
SetPlayerAmountLimit(l) ==
    /\ phase = "idle"
    /\ limit # l
    /\ limit' = l
    /\ relimited' = TRUE
    /\ UNCHANGED <<clientVars, addSessQueue, worldVars, now, updateVars>>

-----------------------------------------------------------------------------
UpdateSessions ==
    \/ StartUpdate
    \/ RejectSession
    \/ AcceptSession
    \/ AllAdded
    \/ \E a \in Accounts : UpdateOpenSession(a) \/ RemoveClosedSession(a)
    \/ EndUpdate

Next ==
    \/ UpdateSessions
    \/ \E a \in Accounts : AddSession(a)
    \/ \E s \in Born : CloseSocket(s)
    \/ Tick
    \/ KickAll
    \/ \E l \in Limits : SetPlayerAmountLimit(l)

Spec == Init /\ [][Next]_vars

-----------------------------------------------------------------------------
Ids == 1..MaxSessions

\* Every variable has its type; the numbers stay within their bounds.
TypeOK ==
    /\ account \in Seq(Accounts) /\ Len(account) <= MaxSessions
    /\ closed \subseteq Born /\ loading \subseteq Born /\ deleted \subseteq Born
    /\ addSessQueue \in Seq(Ids)
    /\ sessions \in [Accounts -> Ids \cup {NoSession}]
    /\ queue \in Seq(Ids)
    /\ inQueue \subseteq Ids
    /\ told \in [Ids -> 0..MaxSessions]
    /\ limit \in Nat
    /\ now \in 0..MaxTime
    /\ disconnects \in [Accounts -> {Never} \cup 0..now]
    /\ phase \in {"idle", "adding", "updating"}
    /\ todo \subseteq Accounts
    /\ bypassed \subseteq Born
    /\ relimited \in BOOLEAN
    /\ seenOpen \subseteq Born

Active == Sessions \ ToSet(queue)

\* A deleted session is in none of the three containers that hold raw pointers,
\* and every queued session is the listed session of its account.
NoDanglingSession ==
    /\ (ToSet(addSessQueue) \cup ToSet(queue) \cup Sessions) \cap deleted = {}
    /\ ToSet(queue) \subseteq Sessions

\* What clients are told and allowed follows the queue: m_inQueue, which keeps a
\* client from logging a character in, is set for exactly the open sessions in
\* the queue, and every queued client was last told the position it has.
QueueExact ==
    /\ \A s \in Sessions \ closed : s \in inQueue <=> s \in ToSet(queue)
    /\ \A k \in 1..Len(queue) : told[queue[k]] = k

\* While the limit is not changed, it is kept to exactly: the sessions that
\* were let in, the exempt ones aside, fit within it, and nobody waits while a
\* slot is free.
LimitExact ==
    ~relimited =>
        /\ limit > 0 => Cardinality(Sessions \ (inQueue \cup bypassed)) <= limit
        /\ queue # << >> => Cardinality(Active) >= limit

\* No session is forgotten: one that is not deleted is in a container the world
\* loop visits, and an update leaves no session listed that it found closed, queued
\* or not; so a closed session is deleted by the update that follows, at the latest.
ClosedSessionDeleted ==
    /\ Born \ deleted \subseteq Sessions \cup ToSet(addSessQueue)
    /\ phase = "updating" /\ todo = {} => Sessions \subseteq seenOpen

\* worldserver.conf.dist: a disconnected session is tolerated for the time of
\* DisconnectToleranceInterval.
ToleranceEnds ==
    \A a \in Accounts :
        disconnects[a] # Never /\ now - disconnects[a] > Tolerance
            => ~HasRecentlyDisconnected(a)
=============================================================================
