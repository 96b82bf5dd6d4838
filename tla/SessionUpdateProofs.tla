-------------------------- MODULE SessionUpdateProofs --------------------------
(***************************************************************************)
(* For any number of packets, any set of opcodes and any limit of packets  *)
(* per update: every packet is in the queue or consumed, once, and only    *)
(* one that was put back is overtaken; a character is logged out exactly   *)
(* once, also after a login packet that could not be parsed;               *)
(* and no map worker loads, logs in or logs out a character.               *)
(***************************************************************************)
EXTENDS SessionUpdate, SequenceTheorems, FiniteSetTheorems, TLAPS

-----------------------------------------------------------------------------
(* The player.                                                             *)

\* A map updates a session only while it has a player, and the part of Update
\* that logs out is reached by the world thread only.
MapControl ==
    /\ filter = "map" /\ step # "between" => player # "none"
    /\ step \in {"logout", "deleted"} => filter = "world"

\* The invariant of the player's part.
PlayerInv == TypeOK /\ SessionExact /\ MapControl

(* The packets.                                                            *)

\* A packet has been sent when the client has reached its number, and an
\* update has taken only packets that were sent.
SentExact ==
    /\ \A p \in Ids : fate[p] = "unsent" <=> p > Len(opcode)
    /\ seen \subseteq 1..Len(opcode)

\* Packets stand in the queue in the order they were sent in, but for those
\* put back.
InOrder ==
    \A i, j \in 1..Len(queue) :
        i < j => queue[j] \in delayed \/ queue[i] < queue[j]

\* What this update has put back stands at or behind the first packet it put
\* back, where the loop stops.
TakenOnce ==
    \A j \in 1..Len(queue) :
        queue[j] \in seen => \E i \in 1..j : queue[i] = first

\* The first packet that was put back is not consumed while the update goes on.
FirstStays ==
    step = "packets" /\ first # NoPacket =>
        \E i \in 1..Len(queue) : queue[i] = first

\* The invariant of the packets' part.
PacketInv ==
    /\ TypeOK
    /\ SentExact
    /\ InOrder
    /\ TakenOnce
    /\ FirstStays
    /\ PacketExact
    /\ OvertakenOnlyIfDelayed

-----------------------------------------------------------------------------
\* What a step may do to the packets: one arrives, is put back or consumed, all
\* are deleted, an update begins, or nothing.
Deletes ==
    /\ queue' = << >> /\ step' = "deleted"
    /\ fate' = [p \in Ids |-> IF p \in ToSet(queue) THEN "deleted" ELSE fate[p]]
    /\ UNCHANGED <<opcode, delayed, first, processed, seen>>

Begins ==
    /\ UNCHANGED packetVars
    /\ first' = NoPacket /\ processed' = 0 /\ seen' = {}

LeavesPackets ==
    /\ UNCHANGED <<packetVars, first, processed, seen>>
    /\ step' = "packets" => step = "packets"

\* The steps of Next, by what they do to the packets.
LEMMA PacketSteps ==
    ASSUME [Next]_vars
    PROVE  \/ \E o \in Opcodes : QueuePacket(o)
           \/ \E p \in Ids : Delay(p)
           \/ \E p \in Ids : Consume(p, "handled") \/ Consume(p, "refused")
           \/ Deletes
           \/ Begins
           \/ LeavesPackets
<1>1. ASSUME NEW p \in Ids, HandlePacket(p)
      PROVE  Delay(p) \/ Consume(p, "handled") \/ Consume(p, "refused")
  BY <1>1 DEF HandlePacket, Refuse, RejectLogin, HandlePlayerLoginOpcode, ReadPlayerLoginRequestThrows,
       HandleCharEnumOpcode, HandleLogoutRequestOpcode, HandleLogoutCancelOpcode,
       HandleMoveWorldportAckOpcode, HandleOther
<1>2. EndPackets \/ NoLoginCallback \/ HandlePlayerLogin \/ EndWorldUpdate => LeavesPackets
  BY DEF EndPackets, NoLoginCallback, HandlePlayerLogin, EndWorldUpdate,
       AfterCallbacks, LeavesPackets, packetVars
<1>3. RemoveSession \/ ReplaceSession => Deletes
  BY DEF RemoveSession, ReplaceSession, DeleteSession, Deletes
<1>4. StartWorldUpdate \/ StartMapUpdate => Begins
  BY DEF StartWorldUpdate, StartMapUpdate, StartUpdate, Begins
<1>5. SkipMapUpdate \/ LoginQueried \/ LogoutDelayOver \/ CloseSocket
        \/ LeaveLoginQueue \/ TeleportFar \/ Deleted \/ UNCHANGED vars => LeavesPackets
  BY DEF SkipMapUpdate, LoginQueried, LogoutDelayOver, CloseSocket,
       LeaveLoginQueue, TeleportFar, Deleted, vars, LeavesPackets, packetVars, updateVars
<1> QED
  BY <1>1, <1>2, <1>3, <1>4, <1>5 DEF Next, UpdateStep, WorldLoop, Others

\* The first packet of the queue, and the queue without it.
LEMMA HeadOfQueue ==
    ASSUME TypeOK, queue # << >>
    PROVE  /\ Len(queue) \in Nat \ {0} /\ Len(opcode) \in Nat
           /\ Head(queue) = queue[1] /\ Head(queue) \in 1..Len(opcode)
           /\ Tail(queue) \in Seq(1..Len(opcode))
           /\ Len(Tail(queue)) = Len(queue) - 1
           /\ \A i \in 1..Len(queue) - 1 : Tail(queue)[i] = queue[i + 1]
<1>1. queue \in Seq(1..Len(opcode)) /\ opcode \in Seq(Opcodes)
  BY DEF TypeOK
<1>2. Len(opcode) \in Nat /\ Len(queue) \in Nat /\ Len(queue) # 0
  BY <1>1
<1> QED
  BY <1>1, <1>2, HeadTailProperties

\* ToSet in terms of positions.
LEMMA QueueSet ==
    ASSUME NEW S, NEW s \in Seq(S)
    PROVE  ToSet(s) = {s[i] : i \in 1..Len(s)}
BY DEF ToSet

-----------------------------------------------------------------------------
(* Types.                                                                  *)

PacketTypes ==
    /\ opcode \in Seq(Opcodes) /\ Len(opcode) <= MaxPackets
    /\ queue \in Seq(1..Len(opcode))
    /\ fate \in [Ids -> {"unsent", "queued", "handled", "refused", "deleted"}]
    /\ delayed \subseteq Ids
    /\ first \in Ids \cup {NoPacket}
    /\ processed \in 0..MaxProcessed + 1 /\ seen \subseteq Ids

SessionTypes ==
    /\ socket \in {"open", "closed", "null"} /\ inQueue \in BOOLEAN
    /\ player \in {"none", "world", "transfer", "limbo"}
    /\ loading \in BOOLEAN /\ login \in {"none", "querying", "ready"}
    /\ recently \in BOOLEAN /\ logout \in {"none", "requested", "due"}
    /\ held \in 0..1 /\ threw \in BOOLEAN
    /\ step \in {"between", "packets", "callbacks", "logout", "deleted"}
    /\ filter \in {"world", "map"}

\* TypeOK is what the two parts say.
LEMMA TypeParts == TypeOK <=> PacketTypes /\ SessionTypes
BY DEF TypeOK, PacketTypes, SessionTypes

\* The types of the packets are kept, however a step changes them.
LEMMA PacketTypeStep == TypeOK /\ [Next]_vars => PacketTypes'
<1> SUFFICES ASSUME TypeOK, [Next]_vars PROVE PacketTypes'
  OBVIOUS
<1> USE SessionUpdateAssumption DEF Ids, NoPacket
<1>1. PacketTypes
  BY TypeParts
<1>2. CASE \E o \in Opcodes : QueuePacket(o)
  <2>1. PICK o \in Opcodes : QueuePacket(o)
    BY <1>2
  <2>2. /\ opcode' \in Seq(Opcodes) /\ Len(opcode') = Len(opcode) + 1
        /\ Len(opcode) \in Nat /\ Len(opcode') <= MaxPackets
    BY <1>1, <2>1 DEF PacketTypes, QueuePacket
  <2>3. queue \in Seq(1..Len(opcode'))
    <3>1. 1..Len(opcode) \subseteq 1..Len(opcode')
      BY <2>2
    <3> QED
      BY <1>1, <3>1, SeqMonotonic DEF PacketTypes
  <2>4. queue' \in Seq(1..Len(opcode'))
    BY <2>1, <2>2, <2>3 DEF QueuePacket
  <2>5. fate' \in [Ids -> {"unsent", "queued", "handled", "refused", "deleted"}]
    BY <1>1, <2>1 DEF PacketTypes, QueuePacket
  <2> QED
    BY <1>1, <2>1, <2>2, <2>4, <2>5 DEF PacketTypes, QueuePacket, updateVars
<1>3. CASE \E p \in Ids : Delay(p)
  <2>1. PICK p \in Ids : Delay(p)
    BY <1>3
  <2>2. queue # << >> /\ p = Head(queue) /\ processed <= MaxProcessed
    BY <2>1 DEF Delay, Takes
  <2>3. queue' \in Seq(1..Len(opcode))
    BY <2>1, <2>2, HeadOfQueue DEF Delay
  <2>4. opcode' = opcode /\ processed' = processed + 1 /\ seen' = seen \cup {p}
    BY <2>1 DEF Delay, Count
  <2>5. processed' \in 0..MaxProcessed + 1
    BY <1>1, <2>2, <2>4 DEF PacketTypes
  <2>6. fate' \in [Ids -> {"unsent", "queued", "handled", "refused", "deleted"}]
    BY <1>1, <2>1 DEF PacketTypes, Delay
  <2>7. delayed' \subseteq Ids /\ seen' \subseteq Ids /\ first' \in Ids \cup {NoPacket}
    BY <1>1, <2>1, <2>4 DEF PacketTypes, Delay
  <2> QED
    BY <1>1, <2>3, <2>4, <2>5, <2>6, <2>7 DEF PacketTypes
<1>4. CASE \E p \in Ids : Consume(p, "handled") \/ Consume(p, "refused")
  <2>1. PICK p \in Ids, how \in {"handled", "refused"} : Consume(p, how)
    BY <1>4
  <2>2. queue # << >> /\ p = Head(queue) /\ processed <= MaxProcessed
    BY <2>1 DEF Consume, Takes
  <2>3. queue' \in Seq(1..Len(opcode))
    BY <2>1, <2>2, HeadOfQueue DEF Consume
  <2>4. opcode' = opcode /\ processed' = processed + 1 /\ seen' = seen \cup {p}
    BY <2>1 DEF Consume, Count
  <2>5. processed' \in 0..MaxProcessed + 1
    BY <1>1, <2>2, <2>4 DEF PacketTypes
  <2>6. fate' \in [Ids -> {"unsent", "queued", "handled", "refused", "deleted"}]
    BY <1>1, <2>1 DEF PacketTypes, Consume
  <2>7. delayed' \subseteq Ids /\ seen' \subseteq Ids /\ first' \in Ids \cup {NoPacket}
    BY <1>1, <2>1, <2>4 DEF PacketTypes, Consume
  <2> QED
    BY <1>1, <2>3, <2>4, <2>5, <2>6, <2>7 DEF PacketTypes
<1>5. CASE Deletes
  <2>1. queue' \in Seq(1..Len(opcode))
    BY <1>5 DEF Deletes
  <2> QED
    BY <1>1, <1>5, <2>1 DEF PacketTypes, Deletes
<1>6. CASE Begins
  BY <1>1, <1>6 DEF PacketTypes, Begins, packetVars
<1>7. CASE LeavesPackets
  BY <1>1, <1>7 DEF PacketTypes, LeavesPackets, packetVars
<1> QED
  BY <1>2, <1>3, <1>4, <1>5, <1>6, <1>7, PacketSteps

\* A logout leaves no player, and takes one back if there was one.
LEMMA LogoutTypes ==
    ASSUME PlayerInv, player # "none", LogoutPlayer
    PROVE  /\ player' = "none" /\ held' = 0 /\ recently' = TRUE
           /\ logout' = "none" /\ loading' = FALSE /\ login' = "none"
           /\ threw' = FALSE
BY DEF PlayerInv, TypeOK, SessionExact, LogoutPlayer

\* Every handler keeps the types and the state of the player consistent.
LEMMA HandlerStep ==
    ASSUME PlayerInv, NEW p \in Ids, HandlePacket(p)
    PROVE  SessionTypes' /\ SessionExact' /\ MapControl'
<1> USE DEF PlayerInv, TypeOK, SessionTypes, SessionExact, MapControl, playerVars
<1>1. step = "packets" /\ UNCHANGED <<socket, inQueue, step, filter>>
  BY DEF HandlePacket, Refuse, RejectLogin, HandlePlayerLoginOpcode, ReadPlayerLoginRequestThrows,
       HandleCharEnumOpcode, HandleLogoutRequestOpcode, HandleLogoutCancelOpcode,
       HandleMoveWorldportAckOpcode, HandleOther, Delay, Consume, Count, Takes
<1>2. filter = "map" => opcode[p] \in InPlace \cup ThreadSafe
  BY DEF HandlePacket, Refuse, RejectLogin, HandlePlayerLoginOpcode, ReadPlayerLoginRequestThrows,
       HandleCharEnumOpcode, HandleLogoutRequestOpcode, HandleLogoutCancelOpcode,
       HandleMoveWorldportAckOpcode, HandleOther, Delay, Consume, Takes, Process
<1>3. CASE Delay(p) \/ Refuse(p) \/ RejectLogin(p) \/ HandleOther(p)
  BY <1>1, <1>3 DEF Delay, Refuse, RejectLogin, HandleOther
<1>4. CASE HandlePlayerLoginOpcode(p) \/ ReadPlayerLoginRequestThrows(p)
  <2>1. /\ filter = "world" /\ ~loading /\ player = "none" /\ ~threw
        /\ loading' = TRUE /\ UNCHANGED <<player, recently, logout, held>>
        /\ \/ login' = "querying" /\ threw' = threw
           \/ login' = login /\ threw' = TRUE
    BY <1>2, <1>4 DEF HandlePlayerLoginOpcode, ReadPlayerLoginRequestThrows, InPlace, ThreadSafe
  <2>2. SessionTypes'
    BY Zenon, <1>1, <2>1
  <2>3. SessionExact' /\ MapControl'
    BY <1>1, <2>1
  <2> QED
    BY <2>2, <2>3
<1>5. CASE HandleCharEnumOpcode(p) \/ HandleLogoutCancelOpcode(p)
  <2>1. SessionTypes'
    BY Zenon, <1>1, <1>5 DEF HandleCharEnumOpcode, HandleLogoutCancelOpcode
  <2>2. SessionExact'
    BY <1>1, <1>5 DEF HandleCharEnumOpcode, HandleLogoutCancelOpcode
  <2>3. MapControl'
    BY <1>1, <1>5 DEF HandleCharEnumOpcode, HandleLogoutCancelOpcode
  <2> QED
    BY <2>1, <2>2, <2>3
<1>6. CASE HandleLogoutRequestOpcode(p)
  <2>1. filter = "world" /\ player = "world"
    BY <1>2, <1>6 DEF HandleLogoutRequestOpcode, InPlace, ThreadSafe
  <2>2. CASE LogoutPlayer
    <3>1. /\ player' = "none" /\ held' = 0 /\ recently' = TRUE
          /\ logout' = "none" /\ loading' = FALSE /\ login' = "none"
          /\ threw' = FALSE
      BY <2>1, <2>2, LogoutTypes
    <3>2. held' \in 0..1
      BY <3>1
    <3>3. SessionTypes'
      BY Zenon, <1>1, <3>1, <3>2
    <3>4. SessionExact'
      BY <1>1, <3>1
    <3>5. MapControl'
      BY <1>1, <2>1
    <3> QED
      BY <3>3, <3>4, <3>5
  <2>3. CASE /\ logout' \in {"none", "requested"}
             /\ UNCHANGED <<player, loading, login, recently, held, threw>>
    BY <1>1, <2>1, <2>3
  <2> QED
    BY <1>6, <2>2, <2>3 DEF HandleLogoutRequestOpcode
<1>7. CASE HandleMoveWorldportAckOpcode(p)
  <2>1. filter = "world" /\ player \in {"transfer", "limbo"}
    BY <1>2, <1>7 DEF HandleMoveWorldportAckOpcode, Transfer, InPlace, ThreadSafe
  <2>2. CASE LogoutPlayer
    <3>1. /\ player' = "none" /\ held' = 0 /\ recently' = TRUE
          /\ logout' = "none" /\ loading' = FALSE /\ login' = "none"
          /\ threw' = FALSE
      BY <2>1, <2>2, LogoutTypes
    <3>2. held' \in 0..1
      BY <3>1
    <3>3. SessionTypes'
      BY Zenon, <1>1, <3>1, <3>2
    <3> QED
      BY <1>1, <2>1, <3>1, <3>3
  <2>3. CASE /\ player' \in {"world", "transfer", "limbo"}
             /\ UNCHANGED <<loading, login, recently, logout, held, threw>>
    BY <1>1, <2>1, <2>3
  <2> QED
    BY <1>7, <2>1, <2>2, <2>3 DEF HandleMoveWorldportAckOpcode
<1> QED
  BY <1>3, <1>4, <1>5, <1>6, <1>7 DEF HandlePacket

\* And so does every other step.
LEMMA PlayerStep == PlayerInv /\ [Next]_vars => PlayerInv'
<1> SUFFICES ASSUME PlayerInv, [Next]_vars PROVE PlayerInv'
  OBVIOUS
<1> SUFFICES SessionTypes' /\ SessionExact' /\ MapControl'
  BY PacketTypeStep DEF PlayerInv, TypeOK, PacketTypes, SessionTypes
<1>1. CASE \E p \in Ids : HandlePacket(p)
  BY <1>1, HandlerStep
<1> USE DEF SessionTypes, SessionExact, MapControl, packetVars, playerVars, updateVars
<1>2. PlayerInv /\ SessionTypes /\ SessionExact /\ MapControl
  BY TypeParts DEF PlayerInv
<1>3. CASE EndPackets \/ NoLoginCallback
  BY <1>2, <1>3 DEF EndPackets, NoLoginCallback, AfterCallbacks
<1>4. CASE HandlePlayerLogin
  <2>0. held' \in 0..1
    BY <1>2, <1>4 DEF HandlePlayerLogin
  <2>1. SessionTypes'
    BY Zenon, <1>2, <1>4, <2>0 DEF HandlePlayerLogin, AfterCallbacks
  <2>2. SessionExact'
    BY <1>2, <1>4 DEF HandlePlayerLogin, AfterCallbacks
  <2>3. MapControl'
    BY <1>2, <1>4 DEF HandlePlayerLogin, AfterCallbacks
  <2> QED
    BY <2>1, <2>2, <2>3
<1>5. CASE EndWorldUpdate
  <2>1. CASE logout = "due" /\ ~loading
    BY <1>2, <1>5, <2>1, LogoutTypes DEF EndWorldUpdate
  <2>2. CASE ~(logout = "due" /\ ~loading)
    BY <1>2, <1>5, <2>2 DEF EndWorldUpdate
  <2> QED
    BY <2>1, <2>2
<1>6. CASE RemoveSession \/ ReplaceSession
  <2>1. DeleteSession /\ filter = "world"
    BY <1>2, <1>6 DEF RemoveSession, ReplaceSession
  <2>2. CASE player = "none"
    BY <1>2, <2>1, <2>2 DEF DeleteSession
  <2>3. CASE player # "none"
    BY <1>2, <2>1, <2>3, LogoutTypes DEF DeleteSession
  <2> QED
    BY <2>2, <2>3
<1>7. CASE WorldLoop
  BY <1>2, <1>7 DEF WorldLoop, StartWorldUpdate, StartMapUpdate, StartUpdate, SkipMapUpdate
<1>8. CASE LoginQueried \/ LogoutDelayOver \/ CloseSocket \/ LeaveLoginQueue \/ TeleportFar
  <2>1. SessionTypes'
    BY Zenon, <1>2, <1>8 DEF LoginQueried, LogoutDelayOver, CloseSocket, LeaveLoginQueue, TeleportFar
  <2>2. SessionExact'
    BY <1>2, <1>8 DEF LoginQueried, LogoutDelayOver, CloseSocket, LeaveLoginQueue, TeleportFar
  <2>3. MapControl'
    BY <1>2, <1>8 DEF LoginQueried, LogoutDelayOver, CloseSocket, LeaveLoginQueue, TeleportFar
  <2> QED
    BY <2>1, <2>2, <2>3
<1>9. CASE \E o \in Opcodes : QueuePacket(o)
  BY <1>2, <1>9 DEF QueuePacket
<1>10. CASE Deleted \/ UNCHANGED vars
  BY <1>2, <1>10 DEF Deleted, vars
<1> QED
  BY <1>1, <1>3, <1>4, <1>5, <1>6, <1>7, <1>8, <1>9, <1>10 DEF Next, UpdateStep, Others

\* What a map worker leaves of the player after each of its steps.
LEMMA MapWorkerStep ==
    ASSUME PlayerInv, [Next]_vars, filter = "map", step # "between"
    PROVE  /\ (player = "none") <=> (player' = "none")
           /\ loading' = loading /\ logout' \in {logout, "due"}
<1> USE DEF packetVars, playerVars, updateVars
<1>1. /\ player # "none" /\ ~loading /\ login = "none"
      /\ step \in {"packets", "callbacks"}
  BY DEF PlayerInv, TypeOK, SessionExact, MapControl
<1>2. CASE \E p \in Ids : HandlePacket(p)
  <2>1. PICK p \in Ids : HandlePacket(p)
    BY <1>2
  <2>2. opcode[p] \in InPlace \cup ThreadSafe
    BY <2>1 DEF HandlePacket, Refuse, RejectLogin, HandlePlayerLoginOpcode, ReadPlayerLoginRequestThrows,
         HandleCharEnumOpcode, HandleLogoutRequestOpcode, HandleLogoutCancelOpcode,
         HandleMoveWorldportAckOpcode, HandleOther, Delay, Consume, Takes, Process
  <2>3. Delay(p) \/ Refuse(p) \/ HandleOther(p)
    BY <2>1, <2>2 DEF HandlePacket, RejectLogin, HandlePlayerLoginOpcode, ReadPlayerLoginRequestThrows,
         HandleCharEnumOpcode, HandleLogoutRequestOpcode, HandleLogoutCancelOpcode,
         HandleMoveWorldportAckOpcode, InPlace, ThreadSafe, Transfer
  <2> QED
    BY <2>3 DEF Delay, Refuse, HandleOther
<1>3. CASE EndPackets \/ NoLoginCallback
  BY <1>3 DEF EndPackets, NoLoginCallback
<1>4. ~HandlePlayerLogin /\ ~EndWorldUpdate /\ ~RemoveSession /\ ~ReplaceSession
  BY <1>1 DEF HandlePlayerLogin, EndWorldUpdate, RemoveSession, ReplaceSession
<1>5. ~WorldLoop
  BY <1>1 DEF WorldLoop, StartWorldUpdate, StartMapUpdate, StartUpdate, SkipMapUpdate
<1>6. CASE LoginQueried \/ LogoutDelayOver \/ CloseSocket \/ LeaveLoginQueue \/ TeleportFar
  BY <1>1, <1>6 DEF LoginQueried, LogoutDelayOver, CloseSocket, LeaveLoginQueue, TeleportFar
<1>7. CASE \E o \in Opcodes : QueuePacket(o)
  BY <1>7 DEF QueuePacket
<1>8. CASE Deleted \/ UNCHANGED vars
  BY <1>8 DEF Deleted, vars
<1> QED
  BY <1>2, <1>3, <1>4, <1>5, <1>6, <1>7, <1>8 DEF Next, UpdateStep, Others

-----------------------------------------------------------------------------
(* The packets.                                                            *)

\* A packet that arrives has a new number and goes to the end.
LEMMA ArrivalStep ==
    ASSUME PacketInv, NEW o \in Opcodes, QueuePacket(o)
    PROVE  /\ SentExact' /\ InOrder' /\ TakenOnce' /\ FirstStays'
           /\ PacketExact' /\ OvertakenOnlyIfDelayed'
<1> USE DEF Ids, NoPacket
<1> DEFINE n == Len(queue)
           m == Len(opcode)
<1>1. /\ n \in Nat /\ m \in Nat /\ m + 1 \in Ids
      /\ queue \in Seq(1..m) /\ \A i \in 1..n : queue[i] \in 1..m
      /\ fate \in [Ids -> {"unsent", "queued", "handled", "refused", "deleted"}]
  BY SessionUpdateAssumption DEF PacketInv, TypeOK, QueuePacket
<1>2. Len(opcode') = m + 1
  BY DEF QueuePacket, PacketInv, TypeOK
<1>3. /\ queue' \in Seq(1..m + 1) /\ Len(queue') = n + 1
      /\ \A i \in 1..n : queue'[i] = queue[i]
      /\ queue'[n + 1] = m + 1
  <2>1. queue \in Seq(1..m + 1)
    <3>1. 1..m \subseteq 1..m + 1
      BY <1>1
    <3> QED
      BY <1>1, <3>1, SeqMonotonic
  <2> QED
    BY <1>1, <2>1, AppendProperties DEF QueuePacket
<1>4. /\ fate' = [fate EXCEPT ![m + 1] = "queued"]
      /\ UNCHANGED <<delayed, first, processed, seen, step>>
  BY DEF QueuePacket, updateVars
<1>5. seen \subseteq 1..m /\ fate[m + 1] = "unsent"
  BY <1>1 DEF PacketInv, SentExact
<1>6. SentExact'
  BY <1>1, <1>2, <1>4, <1>5 DEF PacketInv, SentExact
<1> HIDE DEF n
<1>7. InOrder'
  <2> SUFFICES ASSUME NEW i \in 1..n + 1, NEW j \in 1..n + 1, i < j
               PROVE  queue'[j] \in delayed \/ queue'[i] < queue'[j]
    BY <1>3, <1>4 DEF InOrder
  <2>1. i \in 1..n
    BY <1>1
  <2>2. CASE j = n + 1
    BY <1>1, <1>3, <2>1, <2>2
  <2>3. CASE j # n + 1
    <3>1. j \in 1..n
      BY <1>1, <2>3
    <3> QED
      BY <1>3, <2>1, <3>1 DEF PacketInv, InOrder, n
  <2> QED
    BY <2>2, <2>3
<1>8. TakenOnce' /\ FirstStays'
  <2>1. ASSUME NEW j \in 1..n + 1, queue'[j] \in seen
        PROVE  \E i \in 1..j : queue'[i] = first
    <3>1. j # n + 1
      BY <1>1, <1>3, <1>5, <2>1
    <3>2. j \in 1..n /\ queue[j] \in seen
      BY <1>1, <1>3, <2>1, <3>1
    <3>3. PICK i \in 1..j : queue[i] = first
      BY <3>2 DEF PacketInv, TakenOnce, n
    <3>4. i \in 1..n
      BY <1>1, <3>2
    <3> QED
      BY <1>3, <3>3, <3>4
  <2>2. ASSUME step = "packets", first # NoPacket
        PROVE  \E i \in 1..n + 1 : queue'[i] = first
    <3>1. PICK i \in 1..n : queue[i] = first
      BY <2>2 DEF PacketInv, FirstStays, n
    <3>2. i \in 1..n + 1
      BY <1>1
    <3> QED
      BY <1>3, <3>1, <3>2
  <2> QED
    BY <1>3, <1>4, <2>1, <2>2 DEF TakenOnce, FirstStays
<1>9. PacketExact'
  <2>1. \A j, k \in 1..n + 1 : queue'[j] = queue'[k] => j = k
    BY <1>1, <1>3 DEF PacketInv, PacketExact, n
  <2>2. ToSet(queue) = {queue[i] : i \in 1..n}
    BY <1>1, QueueSet DEF n
  <2>3. ToSet(queue') = {queue'[i] : i \in 1..n + 1}
    <3>1. ToSet(queue') = {queue'[i] : i \in 1..Len(queue')}
      BY <1>3, QueueSet
    <3> QED
      BY <1>3, <3>1
  <2>4. ToSet(queue') = ToSet(queue) \cup {m + 1}
    <3>1. 1..n + 1 = 1..n \cup {n + 1}
      BY <1>1
    <3> QED
      BY <1>3, <2>2, <2>3, <3>1
  <2>5. {p \in Ids : fate'[p] = "queued"} = {p \in Ids : fate[p] = "queued"} \cup {m + 1}
    BY <1>1, <1>4
  <2> QED
    BY <1>3, <1>4, <2>1, <2>4, <2>5 DEF PacketInv, PacketExact, n
<1>10. OvertakenOnlyIfDelayed'
  <2> SUFFICES ASSUME NEW p \in Ids, NEW q \in Ids, p < q,
                      fate'[p] = "queued", fate'[q] \in {"handled", "refused"}
               PROVE  p \in delayed
    BY <1>4 DEF OvertakenOnlyIfDelayed
  <2>1. q # m + 1 /\ fate[q] = fate'[q]
    BY <1>1, <1>4
  <2>2. q <= m
    BY <1>1, <2>1 DEF PacketInv, SentExact
  <2>3. fate[p] = "queued"
    BY <1>1, <1>4, <2>2
  <2> QED
    BY <2>1, <2>3 DEF PacketInv, OvertakenOnlyIfDelayed
<1> QED
  BY <1>6, <1>7, <1>8, <1>9, <1>10

\* The packet an update takes was not taken before by the same update, since
\* it stands in front of the first one that was put back.
LEMMA HeadNotSeen ==
    ASSUME PacketInv, NEW p \in Ids, Takes(p)
    PROVE  /\ queue # << >> /\ p = queue[1] /\ p \notin seen
           /\ \A j \in 2..Len(queue) : queue[j] # p
<1>1. queue # << >> /\ p = Head(queue) /\ p # first
  BY DEF Takes
<1>2. Len(queue) \in Nat \ {0} /\ p = queue[1]
  BY <1>1, HeadOfQueue DEF PacketInv
<1>3. p \notin seen
  BY <1>1, <1>2 DEF PacketInv, TakenOnce
<1>4. \A j \in 2..Len(queue) : queue[j] # p
  BY <1>2 DEF PacketInv, PacketExact
<1> QED
  BY <1>1, <1>2, <1>3, <1>4

\* Taking one packet keeps the count of those taken.
LEMMA CountStep ==
    ASSUME PacketInv, NEW p \in Ids, p \notin seen, Count(p)
    PROVE  processed' = Cardinality(seen')
<1>1. IsFiniteSet(Ids) /\ seen \subseteq Ids
  BY SessionUpdateAssumption, FS_Interval DEF Ids, PacketInv, TypeOK
<1>2. IsFiniteSet(seen)
  BY <1>1, FS_Subset
<1>3. Cardinality(seen \cup {p}) = Cardinality(seen) + 1
  BY <1>2, FS_AddElement
<1> QED
  BY <1>3 DEF PacketInv, PacketExact, Count

\* A packet that is put back stays in the queue, behind the first of its kind.
LEMMA DelayStep ==
    ASSUME PacketInv, NEW p \in Ids, Delay(p)
    PROVE  /\ SentExact' /\ InOrder' /\ TakenOnce' /\ FirstStays'
           /\ PacketExact' /\ OvertakenOnlyIfDelayed'
<1> USE DEF Ids, NoPacket
<1> DEFINE n == Len(queue)
           m == Len(opcode)
<1>1. /\ queue # << >> /\ p = queue[1] /\ p \notin seen
      /\ \A j \in 2..n : queue[j] # p
  BY HeadNotSeen DEF Delay
<1>2. /\ n \in Nat /\ n >= 1 /\ m \in Nat /\ p \in 1..m
      /\ queue \in Seq(1..m) /\ Tail(queue) \in Seq(1..m)
      /\ Len(Tail(queue)) = n - 1
      /\ \A i \in 1..n - 1 : Tail(queue)[i] = queue[i + 1]
  BY <1>1, HeadOfQueue DEF PacketInv, TypeOK
<1>3. /\ queue' \in Seq(1..m) /\ Len(queue') = n
      /\ \A i \in 1..n - 1 : queue'[i] = queue[i + 1]
      /\ queue'[n] = p
  BY <1>2, AppendProperties DEF Delay
<1> HIDE DEF n, m
<1>4. /\ UNCHANGED <<opcode, fate>> /\ delayed' = delayed \cup {p}
      /\ seen' = seen \cup {p}
      /\ first' = IF first = NoPacket THEN p ELSE first
      /\ p # first
  BY DEF Delay, Count, Takes
<1>5. SentExact'
  BY <1>2, <1>4 DEF PacketInv, SentExact, m
<1>6. InOrder'
  <2> SUFFICES ASSUME NEW i \in 1..n, NEW j \in 1..n, i < j
               PROVE  queue'[j] \in delayed' \/ queue'[i] < queue'[j]
    BY <1>3 DEF InOrder, n
  <2>1. CASE j = n
    BY <1>3, <1>4, <2>1
  <2>2. CASE j # n
    <3>1. /\ i \in 1..n - 1 /\ j \in 1..n - 1
          /\ i + 1 \in 1..n /\ j + 1 \in 1..n /\ i + 1 < j + 1
      BY <1>2, <2>2
    <3>2. queue[j + 1] \in delayed \/ queue[i + 1] < queue[j + 1]
      BY <3>1 DEF PacketInv, InOrder, n
    <3> QED
      BY <1>3, <1>4, <3>1, <3>2
  <2> QED
    BY <2>1, <2>2
<1>7. TakenOnce'
  <2> SUFFICES ASSUME NEW j \in 1..n, queue'[j] \in seen'
               PROVE  \E i \in 1..j : queue'[i] = first'
    BY <1>3 DEF TakenOnce, n
  <2>1. CASE j # n
    <3>1. j \in 1..n - 1 /\ j + 1 \in 2..n /\ queue'[j] = queue[j + 1]
      BY <1>2, <1>3, <2>1
    <3>2. queue[j + 1] \in seen
      BY <1>1, <1>4, <3>1
    <3>3. PICK i \in 1..j + 1 : queue[i] = first
      BY <3>1, <3>2 DEF PacketInv, TakenOnce, n
    <3>4. i # 1 /\ i \in 1..n /\ queue[i] \in 1..m
      BY <1>1, <1>2, <1>4, <3>1, <3>3
    <3>5. first' = first
      BY <1>4, <3>3, <3>4
    <3>6. i - 1 \in 1..j /\ i - 1 \in 1..n - 1 /\ queue'[i - 1] = queue[i]
      BY <1>2, <1>3, <3>1, <3>3, <3>4
    <3> QED
      BY <3>3, <3>5, <3>6
  <2>2. CASE j = n /\ first = NoPacket
    BY <1>2, <1>3, <1>4, <2>2
  <2>3. CASE j = n /\ first # NoPacket
    <3>1. \E i \in 1..n : queue[i] = first
      BY <2>3 DEF PacketInv, FirstStays, Delay, Takes, n
    <3>2. PICK i \in 2..n : queue[i] = first
      BY <1>1, <1>2, <1>4, <3>1
    <3>3. i - 1 \in 1..n - 1 /\ queue'[i - 1] = queue[i]
      BY <1>2, <1>3, <3>2
    <3> QED
      BY <1>2, <1>4, <2>3, <3>2, <3>3
  <2> QED
    BY <2>1, <2>2, <2>3
<1>8. FirstStays'
  <2>1. CASE first = NoPacket
    BY <1>2, <1>3, <1>4, <2>1 DEF FirstStays
  <2>2. CASE first # NoPacket
    <3>1. PICK i \in 1..n : queue[i] = first
      BY <2>2 DEF PacketInv, FirstStays, Delay, Takes, n
    <3>2. i - 1 \in 1..n - 1 /\ i - 1 \in 1..n
      BY <1>1, <1>2, <1>4, <3>1
    <3> QED
      BY <1>3, <1>4, <2>2, <3>1, <3>2 DEF FirstStays
  <2> QED
    BY <2>1, <2>2
<1>9. PacketExact'
  <2>1. ASSUME NEW j \in 1..n, NEW k \in 1..n, queue'[j] = queue'[k], j < k
        PROVE  FALSE
    <3>1. j \in 1..n - 1 /\ j + 1 \in 2..n /\ queue'[j] = queue[j + 1]
      BY <1>2, <1>3, <2>1
    <3>2. CASE k = n
      BY <1>1, <1>3, <2>1, <3>1, <3>2
    <3>3. CASE k # n
      <4>1. k \in 1..n - 1 /\ k + 1 \in 1..n /\ j + 1 \in 1..n /\ queue'[k] = queue[k + 1]
        BY <1>2, <1>3, <3>1, <3>3
      <4>2. j + 1 = k + 1
        BY <2>1, <3>1, <4>1 DEF PacketInv, PacketExact, n
      <4> QED
        BY <2>1, <4>2
    <3> QED
      BY <3>2, <3>3
  <2>2. \A j, k \in 1..n : queue'[j] = queue'[k] => j = k
    <3> SUFFICES ASSUME NEW j \in 1..n, NEW k \in 1..n, queue'[j] = queue'[k], j # k
                 PROVE  FALSE
      OBVIOUS
    <3>1. j < k \/ k < j
      BY <1>2
    <3> QED
      BY <2>1, <3>1
  <2>3. ToSet(queue) = {queue[i] : i \in 1..n}
    BY <1>2, QueueSet DEF n
  <2>4. ToSet(queue') = {queue'[i] : i \in 1..n}
    <3>1. ToSet(queue') = {queue'[i] : i \in 1..Len(queue')}
      BY <1>3, QueueSet
    <3> QED
      BY <1>3, <3>1
  <2>5. ToSet(queue') \subseteq ToSet(queue)
    <3> SUFFICES ASSUME NEW i \in 1..n PROVE queue'[i] \in ToSet(queue)
      BY <2>4
    <3>1. CASE i = n
      BY <1>1, <1>2, <1>3, <2>3, <3>1
    <3>2. CASE i # n
      <4>1. i \in 1..n - 1 /\ i + 1 \in 1..n
        BY <1>2, <3>2
      <4> QED
        BY <1>3, <2>3, <4>1
    <3> QED
      BY <3>1, <3>2
  <2>6. ToSet(queue) \subseteq ToSet(queue')
    <3> SUFFICES ASSUME NEW i \in 1..n PROVE queue[i] \in ToSet(queue')
      BY <2>3
    <3>1. CASE i = 1
      BY <1>1, <1>2, <1>3, <2>4, <3>1
    <3>2. CASE i # 1
      <4>1. i - 1 \in 1..n - 1 /\ i - 1 \in 1..n /\ (i - 1) + 1 = i
        BY <1>2, <3>2
      <4> QED
        BY <1>3, <2>4, <4>1
    <3> QED
      BY <3>1, <3>2
  <2>7. processed' = Cardinality(seen')
    BY <1>1, CountStep DEF Delay
  <2> QED
    BY <1>3, <1>4, <2>2, <2>5, <2>6, <2>7 DEF PacketInv, PacketExact
<1>10. OvertakenOnlyIfDelayed'
  BY <1>4 DEF PacketInv, OvertakenOnlyIfDelayed
<1> QED
  BY <1>5, <1>6, <1>7, <1>8, <1>9, <1>10

\* A packet that is consumed was the first of the queue, and those it leaves
\* behind that were sent before it have been put back.
LEMMA ConsumeStep ==
    ASSUME PacketInv, NEW p \in Ids, NEW how \in {"handled", "refused"}, Consume(p, how)
    PROVE  /\ SentExact' /\ InOrder' /\ TakenOnce' /\ FirstStays'
           /\ PacketExact' /\ OvertakenOnlyIfDelayed'
<1> USE DEF Ids, NoPacket
<1> DEFINE n == Len(queue)
           m == Len(opcode)
<1>1. /\ queue # << >> /\ p = queue[1] /\ p \notin seen
      /\ \A j \in 2..n : queue[j] # p
  BY HeadNotSeen DEF Consume
<1>2. /\ n \in Nat /\ n >= 1 /\ m \in Nat /\ p \in 1..m
      /\ queue \in Seq(1..m) /\ queue' \in Seq(1..m)
      /\ Len(queue') = n - 1
      /\ \A i \in 1..n - 1 : queue'[i] = queue[i + 1]
      /\ fate \in [Ids -> {"unsent", "queued", "handled", "refused", "deleted"}]
  BY <1>1, HeadOfQueue DEF PacketInv, TypeOK, Consume
<1> HIDE DEF n, m
<1>3. /\ UNCHANGED <<opcode, delayed, first, step>>
      /\ fate' = [fate EXCEPT ![p] = how] /\ seen' = seen \cup {p}
      /\ p # first /\ step = "packets"
  BY DEF Consume, Count, Takes
<1>4. \A i \in 1..n - 1 : i \in 1..n /\ i + 1 \in 1..n /\ i + 1 \in 2..n
  BY <1>2
<1>5. SentExact'
  BY <1>2, <1>3 DEF PacketInv, SentExact, m
<1>6. InOrder'
  <2> SUFFICES ASSUME NEW i \in 1..n - 1, NEW j \in 1..n - 1, i < j
               PROVE  queue'[j] \in delayed \/ queue'[i] < queue'[j]
    BY <1>2, <1>3 DEF InOrder
  <2>1. i + 1 < j + 1
    BY <1>2
  <2> QED
    BY <1>2, <1>4, <2>1 DEF PacketInv, InOrder, n
<1>7. TakenOnce'
  <2> SUFFICES ASSUME NEW j \in 1..n - 1, queue'[j] \in seen'
               PROVE  \E i \in 1..j : queue'[i] = first
    BY <1>2, <1>3 DEF TakenOnce
  <2>1. queue[j + 1] \in seen
    BY <1>1, <1>2, <1>3, <1>4
  <2>2. PICK i \in 1..j + 1 : queue[i] = first
    BY <1>4, <2>1 DEF PacketInv, TakenOnce, n
  <2>3. i # 1
    BY <1>1, <1>3, <2>2
  <2>4. i - 1 \in 1..j /\ i - 1 \in 1..n - 1 /\ (i - 1) + 1 = i
    BY <1>2, <2>3
  <2> QED
    BY <1>2, <2>2, <2>4
<1>8. FirstStays'
  <2> SUFFICES ASSUME first # NoPacket PROVE \E i \in 1..n - 1 : queue'[i] = first
    BY <1>2, <1>3 DEF FirstStays
  <2>1. PICK i \in 1..n : queue[i] = first
    BY <1>3 DEF PacketInv, FirstStays, n
  <2>2. i # 1
    BY <1>1, <1>3, <2>1
  <2>3. i - 1 \in 1..n - 1 /\ (i - 1) + 1 = i
    BY <1>2, <2>2
  <2> QED
    BY <1>2, <2>1, <2>3
<1>9. ToSet(queue) = {queue[i] : i \in 1..n}
  BY <1>2, QueueSet DEF n
<1>10. PacketExact'
  <2>1. \A j, k \in 1..n - 1 : queue'[j] = queue'[k] => j = k
    <3> SUFFICES ASSUME NEW j \in 1..n - 1, NEW k \in 1..n - 1, queue'[j] = queue'[k]
                 PROVE  j = k
      OBVIOUS
    <3>1. j + 1 = k + 1
      BY <1>2, <1>4 DEF PacketInv, PacketExact, n
    <3> QED
      BY <1>2, <3>1
  <2>2. ToSet(queue') = {queue'[i] : i \in 1..n - 1}
    <3>1. ToSet(queue') = {queue'[i] : i \in 1..Len(queue')}
      BY <1>2, QueueSet
    <3> QED
      BY <1>2, <3>1
  <2>3. ToSet(queue') \subseteq ToSet(queue) \ {p}
    <3> SUFFICES ASSUME NEW i \in 1..n - 1
                 PROVE  queue'[i] \in ToSet(queue) /\ queue'[i] # p
      BY <2>2
    <3>1. queue'[i] = queue[i + 1]
      BY <1>2
    <3> QED
      BY <1>1, <1>4, <1>9, <3>1
  <2>4. ToSet(queue) \ {p} \subseteq ToSet(queue')
    <3> SUFFICES ASSUME NEW i \in 1..n, queue[i] # p PROVE queue[i] \in ToSet(queue')
      BY <1>9
    <3>1. i - 1 \in 1..n - 1 /\ (i - 1) + 1 = i
      BY <1>1, <1>2
    <3> QED
      BY <1>2, <2>2, <3>1
  <2>5. {q \in Ids : fate'[q] = "queued"} = {q \in Ids : fate[q] = "queued"} \ {p}
    BY <1>2, <1>3
  <2>6. processed' = Cardinality(seen')
    BY <1>1, CountStep DEF Consume
  <2> QED
    BY <1>2, <2>1, <2>3, <2>4, <2>5, <2>6 DEF PacketInv, PacketExact
<1>11. OvertakenOnlyIfDelayed'
  <2> SUFFICES ASSUME NEW r \in Ids, NEW q \in Ids, r < q,
                      fate'[r] = "queued", fate'[q] \in {"handled", "refused"}
               PROVE  r \in delayed
    BY <1>3 DEF OvertakenOnlyIfDelayed
  <2>1. r # p /\ fate[r] = "queued"
    BY <1>2, <1>3
  <2>2. CASE q # p
    BY <1>2, <1>3, <2>1, <2>2 DEF PacketInv, OvertakenOnlyIfDelayed
  <2>3. CASE q = p
    <3>1. PICK j \in 1..n : queue[j] = r
      BY <1>9, <2>1 DEF PacketInv, PacketExact
    <3>2. 1 \in 1..n /\ 1 < j
      BY <1>1, <1>2, <2>1, <3>1
    <3>3. r \in delayed \/ p < r
      BY <1>1, <3>1, <3>2 DEF PacketInv, InOrder, n
    <3> QED
      BY <2>3, <3>3
  <2> QED
    BY <2>2, <2>3
<1> QED
  BY <1>5, <1>6, <1>7, <1>8, <1>10, <1>11

\* No step breaks the invariant of the packets.
LEMMA PacketStep == PacketInv /\ PlayerInv' /\ [Next]_vars => PacketInv'
<1> SUFFICES ASSUME PacketInv, PlayerInv', [Next]_vars
             PROVE  /\ SentExact' /\ InOrder' /\ TakenOnce' /\ FirstStays'
                    /\ PacketExact' /\ OvertakenOnlyIfDelayed'
  BY DEF PacketInv, PlayerInv
<1> USE DEF Ids, NoPacket
<1>1. CASE \E o \in Opcodes : QueuePacket(o)
  BY <1>1, ArrivalStep
<1>2. CASE \E p \in Ids : Delay(p)
  BY <1>2, DelayStep
<1>3. CASE \E p \in Ids : Consume(p, "handled") \/ Consume(p, "refused")
  BY <1>3, ConsumeStep
<1>4. CASE Deletes
  <2>1. Len(queue') = 0 /\ 1..0 = {} /\ ToSet(queue') = {}
    BY <1>4 DEF Deletes, ToSet
  <2>2. SentExact'
    <3>1. ToSet(queue) = {p \in Ids : fate[p] = "queued"}
      BY DEF PacketInv, PacketExact
    <3>2. \A p \in Ids : fate'[p] = "unsent" <=> fate[p] = "unsent"
      BY <1>4, <3>1 DEF Deletes
    <3> QED
      BY <1>4, <3>2 DEF Deletes, PacketInv, SentExact
  <2>3. InOrder' /\ TakenOnce' /\ FirstStays'
    BY <1>4, <2>1 DEF Deletes, InOrder, TakenOnce, FirstStays
  <2>4. \A p \in Ids : fate'[p] # "queued" /\
            (fate'[p] \in {"handled", "refused"} => fate[p] \in {"handled", "refused"})
    BY <1>4 DEF Deletes, PacketInv, PacketExact
  <2>5. PacketExact' /\ OvertakenOnlyIfDelayed'
    BY <1>4, <2>1, <2>4 DEF Deletes, PacketInv, PacketExact, OvertakenOnlyIfDelayed
  <2> QED
    BY <2>2, <2>3, <2>5
<1>5. CASE Begins
  <2>1. Cardinality({}) = 0
    BY FS_EmptySet
  <2> QED
    BY <1>5, <2>1 DEF Begins, packetVars, PacketInv, SentExact, InOrder, TakenOnce,
         FirstStays, PacketExact, OvertakenOnlyIfDelayed
<1>6. CASE LeavesPackets
  BY <1>6 DEF LeavesPackets, packetVars, PacketInv, SentExact, InOrder, TakenOnce,
       FirstStays, PacketExact, OvertakenOnlyIfDelayed
<1> QED
  BY <1>1, <1>2, <1>3, <1>4, <1>5, <1>6, PacketSteps

-----------------------------------------------------------------------------
IInv == PlayerInv /\ PacketInv

\* Both invariants hold at the beginning.
LEMMA InitIInv == Init => IInv
<1> SUFFICES ASSUME Init PROVE IInv
  OBVIOUS
<1> USE SessionUpdateAssumption DEF Init, Ids, NoPacket
<1>1. << >> \in Seq(Opcodes) /\ Len(<< >>) = 0 /\ << >> \in Seq(1..0) /\ 1..0 = {}
  OBVIOUS
<1>2. PacketTypes
  BY <1>1 DEF PacketTypes
<1>3. SessionTypes
  <2>1. held \in 0..1
    OBVIOUS
  <2>2. inQueue \in BOOLEAN /\ loading \in BOOLEAN /\ recently \in BOOLEAN /\ threw \in BOOLEAN
    BY Zenon
  <2> QED
    BY <2>1, <2>2 DEF SessionTypes
<1>4. SessionExact /\ MapControl
  BY DEF SessionExact, MapControl
<1>5. SentExact /\ InOrder /\ TakenOnce /\ FirstStays
  BY <1>1 DEF SentExact, InOrder, TakenOnce, FirstStays
<1>6. PacketExact /\ OvertakenOnlyIfDelayed
  <2>1. Cardinality({}) = 0 /\ ToSet(<< >>) = {}
    BY FS_EmptySet DEF ToSet
  <2> QED
    BY <1>1, <2>1 DEF PacketExact, OvertakenOnlyIfDelayed
<1> QED
  BY <1>2, <1>3, <1>4, <1>5, <1>6, TypeParts DEF IInv, PlayerInv, PacketInv

\* IInv is an invariant.
LEMMA IInvCorrect == Spec => []IInv
<1>1. IInv /\ [Next]_vars => IInv'
  BY PlayerStep, PacketStep DEF IInv
<1> QED
  BY <1>1, InitIInv, PTL DEF Spec

-----------------------------------------------------------------------------
\* Every variable keeps its type: in particular no character is logged out
\* twice (held), and no packet number stays in the queue that was never sent.
THEOREM TypeCorrect == Spec => []TypeOK
<1>1. IInv => TypeOK
  BY DEF IInv, PlayerInv
<1> QED
  BY <1>1, IInvCorrect, PTL

\* Every packet is in the queue, once, or has been consumed, and one Update
\* takes it at most once, whatever is put back and arrives meanwhile.
THEOREM PacketsCorrect == Spec => []PacketExact
<1>1. IInv => PacketExact
  BY DEF IInv, PacketInv
<1> QED
  BY <1>1, IInvCorrect, PTL

\* Only a packet that was put back is overtaken.
THEOREM PacketOrderCorrect == Spec => []OvertakenOnlyIfDelayed
<1>1. IInv => OvertakenOnlyIfDelayed
  BY DEF IInv, PacketInv
<1> QED
  BY <1>1, IInvCorrect, PTL

\* The flags of the session agree with its player and its login query: the session
\* is "loading" exactly while a query is under way or, for ever, after a login
\* packet that could not be parsed; and each character is logged out exactly once.
THEOREM SessionCorrect == Spec => []SessionExact
<1>1. IInv => SessionExact
  BY DEF IInv, PlayerInv
<1> QED
  BY <1>1, IInvCorrect, PTL

\* A worker of the map pool never loads, logs in or logs out a character.
THEOREM MapWorkerCorrect == Spec => MapWorkerKeepsPlayer
<1>1. IInv /\ [Next]_vars =>
         [filter = "map" /\ step # "between" =>
            /\ (player = "none") <=> (player' = "none")
            /\ loading' = loading /\ logout' \in {logout, "due"}]_vars
  BY MapWorkerStep DEF IInv
<1> QED
  BY <1>1, IInvCorrect, PTL DEF Spec, MapWorkerKeepsPlayer
=============================================================================
