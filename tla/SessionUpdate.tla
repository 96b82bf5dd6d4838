---------------------------- MODULE SessionUpdate ----------------------------
(***************************************************************************)
(* One WorldSession between the network thread that queues its packets and *)
(* the world loop that updates it: World::UpdateSessions with the          *)
(* WorldSessionFilter, then Map::Update, on a thread of the map pool, with *)
(* the MapSessionFilter.  Packets of a character that is not loaded yet    *)
(* are put back, the character is loaded by an asynchronous query, and it  *)
(* is logged out on request, with its socket or with its session.          *)
(***************************************************************************)
EXTENDS Integers, Sequences, FiniteSets, SequencesExt

CONSTANTS
    Opcodes,        \* the opcodes the client sends, a subset of AllOpcodes
    MaxPackets,     \* bound: packets the client sends
    MaxProcessed    \* MAX_PROCESSED_PACKETS_IN_SAME_WORLDSESSION_UPDATE

\* clientOpcodeTable: one opcode for every status, place and handler that the
\* session tells apart.  (STATUS_NEVER and STATUS_UNHANDLED are left out: such
\* a packet is deleted and nothing else happens.)
Authed     == {"PLAYER_LOGIN", "ENUM_CHARACTERS"}
LoggedIn   == {"LOGOUT_REQUEST", "LOGOUT_CANCEL", "ATTACKSWING", "MOVEMENT"}
Transfer   == {"WORLDPORT_ACK"}
LoggedOut  == {"CANCEL_TRADE"}      \* STATUS_LOGGEDIN_OR_RECENTLY_LOGGOUT
InPlace    == {"ATTACKSWING"}
ThreadSafe == {"MOVEMENT"}
AllOpcodes == Authed \cup LoggedIn \cup Transfer \cup LoggedOut

Ids == 1..MaxPackets
NoPacket == 0

ASSUME SessionUpdateAssumption ==
    /\ Opcodes \subseteq AllOpcodes
    /\ MaxPackets \in Nat
    /\ MaxProcessed \in Nat

VARIABLES
    opcode,     \* the packets the client has sent, in order
    queue,      \* _recvQueue
    fate,       \* history: what became of each packet
    delayed,    \* history: packets that were put back at least once
    socket,     \* m_Socket: open, IsClosed, or NULL
    inQueue,    \* m_inQueue: the session waits in the login queue
    player,     \* _player: none, in the world, teleported far, or neither
    loading,    \* m_playerLoading
    login,      \* _charLoginCallback
    recently,   \* m_playerRecentlyLogout
    logout,     \* _logoutTime: 0, less than 20 s ago, or more
    held,       \* history: characters loaded less characters logged out
    threw,      \* history: a CMSG_PLAYER_LOGIN could not be parsed
    step,       \* where WorldSession::Update is
    filter,     \* the PacketFilter of this or the next Update
    first,      \* firstDelayedPacket
    processed,  \* processedPackets
    seen        \* history: the packets this Update has taken

packetVars == <<opcode, queue, fate, delayed>>
playerVars == <<player, loading, login, recently, logout, held, threw>>
updateVars == <<step, filter, first, processed, seen>>
vars == <<packetVars, socket, inQueue, playerVars, updateVars>>

Init ==
    /\ opcode = << >> /\ queue = << >>
    /\ fate = [p \in Ids |-> "unsent"] /\ delayed = {}
    /\ socket = "open" /\ inQueue \in BOOLEAN
    /\ player = "none" /\ loading = FALSE /\ login = "none"
    /\ recently = FALSE /\ logout = "none" /\ held = 0 /\ threw = FALSE
    /\ step = "between" /\ filter = "world"
    /\ first = NoPacket /\ processed = 0 /\ seen = {}

-----------------------------------------------------------------------------
(* The network thread, the database worker, the clock, the login queue. *)

\* WorldSession::QueuePacket; the packet may be one that was read before the
\* socket was closed.
QueuePacket(o) ==
    /\ socket # "null"
    /\ Len(opcode) < MaxPackets
    /\ LET p == Len(opcode) + 1
       IN  /\ queue' = Append(queue, p)
           /\ fate' = [fate EXCEPT ![p] = "queued"]
    /\ opcode' = Append(opcode, o)
    /\ UNCHANGED <<delayed, socket, inQueue, playerVars, updateVars>>

\* By the client, the reactor, KickPlayer, AntiDOS or the idle timer.
CloseSocket ==
    /\ socket = "open"
    /\ socket' = "closed"
    /\ UNCHANGED <<packetVars, inQueue, playerVars, updateVars>>

\* World::AcceptFirst lets the session in.
LeaveLoginQueue ==
    /\ inQueue /\ step = "between" /\ filter = "world"
    /\ inQueue' = FALSE
    /\ UNCHANGED <<packetVars, socket, playerVars, updateVars>>

\* A database worker has executed the LoginQueryHolder and sets the promise.
LoginQueried ==
    /\ login = "querying"
    /\ login' = "ready"
    /\ UNCHANGED <<packetVars, socket, inQueue, player, loading, recently,
                   logout, held, threw, updateVars>>

\* 20 seconds have passed since the logout was requested.
LogoutDelayOver ==
    /\ logout = "requested"
    /\ logout' = "due"
    /\ UNCHANGED <<packetVars, socket, inQueue, player, loading, login,
                   recently, held, threw, updateVars>>

\* Player::TeleportTo another map, by a handler or the update of any object.
TeleportFar ==
    /\ player = "world"
    /\ player' = "transfer"
    /\ UNCHANGED <<packetVars, socket, inQueue, loading, login, recently,
                   logout, held, threw, updateVars>>

-----------------------------------------------------------------------------
(* WorldSession::Update *)

StartUpdate ==
    /\ step = "between"
    /\ step' = "packets"
    /\ first' = NoPacket /\ processed' = 0 /\ seen' = {}
    /\ UNCHANGED <<packetVars, socket, inQueue, playerVars, filter>>

\* World::UpdateSessions.
StartWorldUpdate == filter = "world" /\ StartUpdate

\* Map::Update, for a player of that map.
StartMapUpdate == filter = "map" /\ player = "world" /\ StartUpdate

\* The maps are not updated in every loop of the world thread.
SkipMapUpdate ==
    /\ step = "between" /\ filter = "map"
    /\ filter' = "world"
    /\ UNCHANGED <<packetVars, socket, inQueue, playerVars, step, first,
                   processed, seen>>

\* Faulty variant: the map worker takes thread-unsafe packets as well.
Process_Unsafe(o) ==
    \/ o \in InPlace
    \/ filter = "world" /\ (o \notin ThreadSafe \/ player # "world")
    \/ filter = "map" /\ player = "world"

\* Faulty variant: the world thread leaves packets to the map also when the
\* player is on none.
Process_OnMap(o) ==
    \/ o \in InPlace
    \/ filter = "world" /\ o \notin ThreadSafe
    \/ filter = "map" /\ o \in ThreadSafe /\ player = "world"

\* MapSessionFilter::Process and WorldSessionFilter::Process.
Process(o) ==
    \/ o \in InPlace
    \/ filter = "world" /\ (o \notin ThreadSafe \/ player # "world")
    \/ filter = "map" /\ o \in ThreadSafe /\ player = "world"

\* Faulty variant: packets are not processed at the head of the queue only.
Takes_Skip(p) ==
    /\ step = "packets"
    /\ socket = "open"
    /\ p \in ToSet(queue) /\ p # first
    /\ processed <= MaxProcessed
    /\ Process(opcode[p])

\* Faulty variant: the loop goes on past the first delayed packet.
Takes_NoFirst(p) ==
    /\ step = "packets"
    /\ socket = "open"
    /\ queue # << >> /\ p = Head(queue)
    /\ processed <= MaxProcessed
    /\ Process(opcode[p])

\* The condition of the packet loop, with p the packet next() returns.
Takes(p) ==
    /\ step = "packets"
    /\ socket = "open"
    /\ queue # << >> /\ p = Head(queue) /\ p # first
    /\ processed <= MaxProcessed
    /\ Process(opcode[p])

Count(p) ==
    /\ processed' = processed + 1
    /\ seen' = seen \cup {p}
    /\ UNCHANGED <<opcode, socket, inQueue, step, filter>>

\* A packet for a player that is not there yet goes to the end of the queue.
Delay(p) ==
    /\ Takes(p)
    /\ opcode[p] \in LoggedIn /\ player = "none" /\ ~recently
    /\ first' = IF first = NoPacket THEN p ELSE first
    /\ queue' = Append(Tail(queue), p)
    /\ delayed' = delayed \cup {p}
    /\ Count(p)
    /\ UNCHANGED <<fate, playerVars>>

\* The packet is deleted, after its handler has run (how = "handled") or not.
Consume(p, how) ==
    /\ Takes(p)
    /\ queue' = Tail(queue)
    /\ fate' = [fate EXCEPT ![p] = how]
    /\ Count(p)
    /\ UNCHANGED <<delayed, first>>

\* The state of the session refuses the packet.
Refuse(p) ==
    /\ Consume(p, "refused")
    /\ \/ opcode[p] \in LoggedIn
            /\ (IF player = "none" THEN recently ELSE player # "world")
       \/ opcode[p] \in LoggedOut /\ player = "none" /\ ~recently
       \/ opcode[p] \in Transfer /\ player \in {"none", "world"}
       \/ opcode[p] \in Authed /\ inQueue
    /\ UNCHANGED playerVars

\* CMSG_PLAYER_LOGIN while a character is loading or loaded; or of one that is
\* not the account's, or whose queries cannot be prepared: then m_playerLoading
\* is set and cleared again.
RejectLogin(p) ==
    /\ Consume(p, "handled")
    /\ opcode[p] = "PLAYER_LOGIN" /\ ~inQueue
    /\ UNCHANGED playerVars

\* Faulty variant: the login is not refused when a character is in the world.
HandlePlayerLoginOpcode_Again(p) ==
    /\ Consume(p, "handled")
    /\ opcode[p] = "PLAYER_LOGIN" /\ ~inQueue
    /\ ~loading
    /\ loading' = TRUE
    /\ login' = "querying"
    /\ UNCHANGED <<player, recently, logout, held, threw>>

\* The queries of the character are handed to the database workers.
HandlePlayerLoginOpcode(p) ==
    /\ Consume(p, "handled")
    /\ opcode[p] = "PLAYER_LOGIN" /\ ~inQueue
    /\ ~loading /\ player = "none"
    /\ loading' = TRUE
    /\ login' = "querying"
    /\ UNCHANGED <<player, recently, logout, held, threw>>

\* A CMSG_PLAYER_LOGIN that is too short: m_playerLoading is set before the
\* packet is read, and the packet loop catches the reader's exception.
ReadPlayerLoginRequestThrows(p) ==
    /\ Consume(p, "handled")
    /\ opcode[p] = "PLAYER_LOGIN" /\ ~inQueue
    /\ ~loading /\ player = "none"
    /\ loading' = TRUE /\ threw' = TRUE
    /\ UNCHANGED <<player, login, recently, logout, held>>

HandleCharEnumOpcode(p) ==
    /\ Consume(p, "handled")
    /\ opcode[p] = "ENUM_CHARACTERS" /\ ~inQueue
    /\ recently' = FALSE
    /\ UNCHANGED <<player, loading, login, logout, held, threw>>

\* WorldSession::LogoutPlayer: a far teleport is finished first, which may give
\* the player up; then the player, if there still is one, is saved (but not by
\* LogoutPlayer(false)) and deleted.
LogoutPlayer ==
    /\ player' = "none"
    /\ held' = IF player = "none" THEN held ELSE held - 1
    /\ recently' = TRUE
    /\ logout' = "none"
    /\ UNCHANGED <<loading, login, threw>>

\* CMSG_LOGOUT_REQUEST: refused in combat, granted at once, or after 20 s.
HandleLogoutRequestOpcode(p) ==
    /\ Consume(p, "handled")
    /\ opcode[p] = "LOGOUT_REQUEST" /\ player = "world"
    /\ \/ /\ logout' \in {"none", "requested"}
          /\ UNCHANGED <<player, loading, login, recently, held, threw>>
       \/ LogoutPlayer

HandleLogoutCancelOpcode(p) ==
    /\ Consume(p, "handled")
    /\ opcode[p] = "LOGOUT_CANCEL" /\ player = "world"
    /\ logout' = "none"
    /\ UNCHANGED <<player, loading, login, recently, held, threw>>

\* MSG_MOVE_WORLDPORT_ACK ends a far teleport.  If its destination has no valid
\* coordinates the player is logged out unsaved; if the map refuses him he is
\* sent to his homebind: far again, or, when that is on the map he has left or is
\* refused as well, nowhere.
HandleMoveWorldportAckOpcode(p) ==
    /\ Consume(p, "handled")
    /\ opcode[p] \in Transfer
    /\ \/ /\ player = "transfer" /\ player' \in {"world", "transfer", "limbo"}
          /\ UNCHANGED <<loading, login, recently, logout, held, threw>>
       \/ player = "transfer" /\ LogoutPlayer
       \/ player = "limbo" /\ UNCHANGED playerVars

\* Handlers that leave the state of the session alone.
HandleOther(p) ==
    /\ Consume(p, "handled")
    /\ \/ opcode[p] \in InPlace \cup ThreadSafe /\ player = "world"
       \/ opcode[p] \in LoggedOut /\ (player # "none" \/ recently)
    /\ UNCHANGED playerVars

EndPackets ==
    /\ step = "packets"
    /\ ~\E p \in Ids : Takes(p)
    /\ step' = "callbacks"
    /\ UNCHANGED <<packetVars, socket, inQueue, playerVars, filter, first,
                   processed, seen>>

\* The end of Update: the logout part is for the world thread only.
AfterCallbacks ==
    /\ step' = IF filter = "world" THEN "logout" ELSE "between"
    /\ filter' = "world"
    /\ UNCHANGED <<packetVars, socket, inQueue, first, processed, seen>>

\* ProcessQueryCallbacks without a character login.
NoLoginCallback ==
    /\ step = "callbacks" /\ login # "ready"
    /\ AfterCallbacks
    /\ UNCHANGED playerVars

\* Faulty variant: a character that cannot be loaded stays "loading".
HandlePlayerLogin_Stuck ==
    /\ step = "callbacks" /\ login = "ready"
    /\ login' = "none"
    /\ \/ player' \in {"world", "transfer", "limbo"} /\ held' = held + 1
            /\ loading' = FALSE
       \/ player' = "none" /\ UNCHANGED <<held, loading>>
    /\ AfterCallbacks
    /\ UNCHANGED <<recently, logout, threw>>

\* The character is loaded and put into the world (or sent elsewhere, if its
\* map refuses it), or it cannot be loaded.
HandlePlayerLogin ==
    /\ step = "callbacks" /\ login = "ready"
    /\ login' = "none" /\ loading' = FALSE
    /\ \/ player' \in {"world", "transfer", "limbo"} /\ held' = held + 1
       \/ player' = "none" /\ UNCHANGED held
    /\ AfterCallbacks
    /\ UNCHANGED <<recently, logout, threw>>

\* The logout that was requested is executed when it is due.
EndWorldUpdate ==
    /\ step = "logout" /\ socket = "open"
    /\ IF logout = "due" /\ ~loading THEN LogoutPlayer ELSE UNCHANGED playerVars
    /\ step' = "between" /\ filter' = "map"
    /\ UNCHANGED <<packetVars, socket, inQueue, first, processed, seen>>

\* Faulty variant: the destructor does not log the player out.
DeleteSession_NoLogout ==
    /\ UNCHANGED playerVars
    /\ queue' = << >>
    /\ fate' = [p \in Ids |-> IF p \in ToSet(queue) THEN "deleted" ELSE fate[p]]
    /\ socket' = "null" /\ step' = "deleted"
    /\ UNCHANGED <<opcode, delayed, inQueue, filter, first, processed, seen>>

\* ~WorldSession: the player is logged out, the socket detached and closed, the
\* queued packets are deleted.  A query that is under way is abandoned.
DeleteSession ==
    /\ IF player = "none" THEN UNCHANGED playerVars ELSE LogoutPlayer
    /\ queue' = << >>
    /\ fate' = [p \in Ids |-> IF p \in ToSet(queue) THEN "deleted" ELSE fate[p]]
    /\ socket' = "null" /\ step' = "deleted"
    /\ UNCHANGED <<opcode, delayed, inQueue, filter, first, processed, seen>>

\* Update returns false and World::UpdateSessions deletes the session.
RemoveSession == step = "logout" /\ socket = "closed" /\ DeleteSession

\* World::AddSession_ replaces the session by a new one of the account, unless
\* it is loading a character.
ReplaceSession ==
    /\ step = "between" /\ filter = "world"
    /\ ~loading
    /\ DeleteSession

Deleted == step = "deleted" /\ UNCHANGED vars

-----------------------------------------------------------------------------
HandlePacket(p) ==
    \/ Delay(p)
    \/ Refuse(p)
    \/ RejectLogin(p)
    \/ HandlePlayerLoginOpcode(p)
    \/ ReadPlayerLoginRequestThrows(p)
    \/ HandleCharEnumOpcode(p)
    \/ HandleLogoutRequestOpcode(p)
    \/ HandleLogoutCancelOpcode(p)
    \/ HandleMoveWorldportAckOpcode(p)
    \/ HandleOther(p)

\* The thread that updates the session goes on.
UpdateStep ==
    \/ \E p \in Ids : HandlePacket(p)
    \/ EndPackets
    \/ NoLoginCallback
    \/ HandlePlayerLogin
    \/ EndWorldUpdate
    \/ RemoveSession

WorldLoop == StartWorldUpdate \/ StartMapUpdate \/ SkipMapUpdate

Others ==
    \/ \E o \in Opcodes : QueuePacket(o)
    \/ CloseSocket
    \/ LeaveLoginQueue
    \/ TeleportFar
    \/ ReplaceSession

Next ==
    \/ UpdateStep
    \/ WorldLoop
    \/ LoginQueried
    \/ LogoutDelayOver
    \/ Others
    \/ Deleted

\* The world loop runs on and updates the maps again and again, the database
\* answers, time passes.
Fairness ==
    /\ WF_vars(UpdateStep) /\ WF_vars(WorldLoop) /\ SF_vars(StartMapUpdate)
    /\ WF_vars(LoginQueried) /\ WF_vars(LogoutDelayOver)

Spec == Init /\ [][Next]_vars /\ Fairness

-----------------------------------------------------------------------------
\* Every variable has its type.
TypeOK ==
    /\ opcode \in Seq(Opcodes) /\ Len(opcode) <= MaxPackets
    /\ queue \in Seq(1..Len(opcode))
    /\ fate \in [Ids -> {"unsent", "queued", "handled", "refused", "deleted"}]
    /\ delayed \subseteq Ids
    /\ socket \in {"open", "closed", "null"} /\ inQueue \in BOOLEAN
    /\ player \in {"none", "world", "transfer", "limbo"}
    /\ loading \in BOOLEAN /\ login \in {"none", "querying", "ready"}
    /\ recently \in BOOLEAN /\ logout \in {"none", "requested", "due"}
    /\ held \in 0..1 /\ threw \in BOOLEAN
    /\ step \in {"between", "packets", "callbacks", "logout", "deleted"}
    /\ filter \in {"world", "map"}
    /\ first \in Ids \cup {NoPacket}
    /\ processed \in 0..MaxProcessed + 1 /\ seen \subseteq Ids

\* A packet is in _recvQueue once, and undeleted, until it is consumed; one
\* Update takes it at most once, however packets are put back and arrive.
PacketExact ==
    /\ \A j, k \in 1..Len(queue) : queue[j] = queue[k] => j = k
    /\ ToSet(queue) = {p \in Ids : fate[p] = "queued"}
    /\ processed = Cardinality(seen)

\* Packets are executed in the order in which the client sent them, by whichever
\* thread: only a packet that was put back can be overtaken.
OvertakenOnlyIfDelayed ==
    \A p, q \in Ids :
        p < q /\ fate[p] = "queued" /\ fate[q] \in {"handled", "refused"}
            => p \in delayed

\* Loading a character and having one exclude each other; while the session is
\* loading a query is under way, until it is deleted, except after a login packet
\* that could not be parsed (then the flag stays set, and no query is ever
\* issued); a logout is only requested with a player; and each character loaded
\* is logged out exactly once, on request, by a failed teleport or with the
\* session.
SessionExact ==
    /\ loading <=> login # "none" \/ threw
    /\ threw => login = "none"
    /\ loading => player = "none"
    /\ logout # "none" => player # "none"
    /\ held = IF player = "none" THEN 0 ELSE 1
    /\ step = "deleted" => player = "none"

\* Whatever arrives or is answered meanwhile, no character is logged in, loaded
\* or logged out by a thread of the map pool.
MapWorkerKeepsPlayer ==
    [][filter = "map" /\ step # "between" =>
          /\ (player = "none") <=> (player' = "none")
          /\ loading' = loading /\ logout' \in {logout, "due"}]_vars

\* Every packet is consumed in the end, whether it needs the world thread or a
\* map worker, unless there is no player it could be for.
PacketsConsumed ==
    \A p \in Ids :
        fate[p] = "queued" ~>
            fate[p] # "queued" \/ (opcode[p] \in LoggedIn /\ player = "none")

\* A login whose query was issued ends and the session can log in again, a logout
\* that was requested is executed or cancelled, and a session whose socket is
\* closed is deleted, even one that a packet that could not be parsed has left
\* "loading" for ever.
SessionEnds ==
    /\ login # "none" ~> (login = "none" /\ ~loading) \/ step = "deleted"
    /\ logout # "none" ~> logout = "none"
    /\ socket = "closed" ~> step = "deleted"
=============================================================================
