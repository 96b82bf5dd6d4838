--------------------------- MODULE DungeonFinder ---------------------------
(***************************************************************************)
(* The dungeon finder (game/DungeonFinding): players queue for dungeons,   *)
(* the world loop matches them into proposals, every member answers, and a *)
(* proposal becomes a group, is refused, or expires.  All of it runs on    *)
(* the world thread, one handler at a time, so what can go wrong is the    *)
(* order of the handlers: answers, logouts, map changes and what parties   *)
(* do to a player that the finder also holds.                              *)
(*                                                                         *)
(* One queue (one team), players who queue alone, dungeons of one group    *)
(* size.  The parties they join are led by outsiders, at most one player   *)
(* to a party; role checks and kick votes are not modelled.  Proposals are *)
(* kept in the order of their ids; an answer to an id that is gone is      *)
(* ignored by the code (LFGMgr.cpp:1439) and is no step here.              *)
(***************************************************************************)
EXTENDS Integers, Sequences, FiniteSets, SequencesExt

CONSTANTS Players, Dungeons,
          GroupSize,            \* players of a complete group
          Rosters,              \* sets whose roles fit and who ignore nobody
          MaxProposals          \* bound: live proposals when a member joins a party

ASSUME SizeAssumption == GroupSize \in Nat \ {0, 1} /\ MaxProposals \in Nat

ASSUME RostersAssumption ==
  /\ \A p \in Players : {p} \in Rosters
  /\ \A R \in Rosters : R \subseteq Players /\ (SUBSET R) \ {{}} \subseteq Rosters

VARIABLES
  lfg,        \* the manager's stores, see TypeOK
  groups,     \* the dungeon groups it formed: sets of players
  party,      \* the players in a party of outsiders
  inWorld,    \* the players FindPlayer finds: logged in and not between maps
  dropped,    \* history: queued players a refused second join took out
  strayed,    \* history: players who joined a party during a proposal
  fault       \* "erased", "twice": the code went where the model does not

vars == <<lfg, groups, party, inWorld, dropped, strayed, fault>>

States == {"none", "queued", "proposal", "dungeon"}

(* lfg.state is LfgPlayerData::State; OldState is DUNGEON exactly when     *)
(* State is, for players who queue alone.  lfg.wish is QueueDataStore ({}: *)
(* no entry), fresh and waiting are newToQueueStore and currentQueueStore, *)
(* matched the keys CompatibleMapStore holds as a MATCH (every other       *)
(* cached value equals what a new computation gives).                      *)
Init ==
  /\ lfg = [state |-> [p \in Players |-> "none"],
            wish |-> [p \in Players |-> {}],
            fresh |-> <<>>, waiting |-> <<>>,
            matched |-> {}, proposals |-> <<>>]
  /\ groups = {}
  /\ party = {}
  /\ inWorld = Players
  /\ dropped = {}
  /\ strayed = {}
  /\ fault = "no"

-----------------------------------------------------------------------------
(* The stores.  An operator takes the stores f and returns them changed.   *)

(* SelectSeq(s, LAMBDA x : x \notin S), written so that it can be reasoned *)
(* about.                                                                  *)
Without(s, S) ==
  LET rest[i \in 0 .. Len(s)] ==
        IF i = 0 THEN <<>>
        ELSE IF s[i] \in S THEN rest[i - 1] ELSE Append(rest[i - 1], s[i])
  IN rest[Len(s)]

Line(f, k) == ToSet(f.proposals[k].line)

ProposalsOf(f, p) == {k \in DOMAIN f.proposals : p \in Line(f, k)}

Oldest(f, p) == CHOOSE k \in ProposalsOf(f, p) : \A j \in ProposalsOf(f, p) : k <= j

SetState(f, S, s) ==
  [f EXCEPT !.state = [p \in Players |-> IF p \in S THEN s ELSE @[p]]]

\* Faulty variant: the cache of matches keeps the keys of the player.
RemoveFromQueue_KeepMatch(f, S) ==
  [f EXCEPT !.wish = [p \in Players |-> IF p \in S THEN {} ELSE @[p]],
            !.fresh = Without(@, S), !.waiting = Without(@, S)]

RemoveFromQueue(f, S) ==
  [f EXCEPT !.wish = [p \in Players |-> IF p \in S THEN {} ELSE @[p]],
            !.fresh = Without(@, S), !.waiting = Without(@, S),
            !.matched = {key \in @ : key \cap S = {}}]

ClearQueueState(f, S) == SetState(RemoveFromQueue(f, S), S, "none")

\* Faulty variant: whoever has not answered yet is removed too when one refuses.
RemoveProposal_PendingLose(f, k, denied) ==
  LET gone == denied \cup (Line(f, k) \ f.proposals[k].agreed)
                \cup {p \in Line(f, k) : f.wish[p] = {}}
      kept == Line(f, k) \ gone
      cleared == {p \in gone : f.state[p] # "dungeon"}
      g == SetState(SetState(RemoveFromQueue(f, gone), cleared, "none"), kept, "queued")
  IN [g EXCEPT !.waiting = @ \o Without(f.proposals[k].line, gone \cup ToSet(f.waiting)),
               !.proposals = RemoveAt(@, k)]

(* The members in denied and those without queue data leave the queue      *)
(* (RestoreOrClearState leaves a member in a dungeon there); the others    *)
(* go to the end of the current queue, never to the new one.               *)
RemoveProposal(f, k, denied) ==
  LET gone == denied \cup {p \in Line(f, k) : f.wish[p] = {}}
      kept == Line(f, k) \ gone
      cleared == {p \in gone : f.state[p] # "dungeon"}
      g == SetState(SetState(RemoveFromQueue(f, gone), cleared, "none"), kept, "queued")
  IN [g EXCEPT !.waiting = @ \o Without(f.proposals[k].line, gone \cup ToSet(f.waiting)),
               !.proposals = RemoveAt(@, k)]

(* LeaveLfg and LeaveSoloLfg of a player outside dungeons: a member of     *)
(* several proposals leaves the oldest.                                    *)
Leave(f, p) ==
  IF f.state[p] = "queued" THEN ClearQueueState(f, {p})
  ELSE IF f.state[p] = "proposal" /\ ProposalsOf(f, p) # {}
       THEN RemoveProposal(f, Oldest(f, p), {p})
       ELSE f

-----------------------------------------------------------------------------
(* Matching: LFGQueue::FindGroups.                                         *)

Fits(f, check) ==
  /\ Len(check) <= GroupSize
  /\ ToSet(check) \in Rosters
  /\ \E d \in Dungeons : \A i \in DOMAIN check : d \in f.wish[check[i]]
  /\ Len(check) = GroupSize =>
       \/ ToSet(check) \in f.matched
       \/ \A i \in DOMAIN check : f.state[check[i]] = "queued"

(* FindNewGroups: the list of candidates is shared by the recursion, so a  *)
(* candidate is tried once and a partial group is never taken back.        *)
Gather(f, p) ==
  LET check[i \in 0 .. Len(f.waiting)] ==
        IF i = 0 THEN <<p>>
        ELSE LET more == Append(check[i - 1], f.waiting[i])
             IN IF Len(check[i - 1]) < GroupSize /\ Fits(f, more) THEN more ELSE check[i - 1]
  IN check[Len(f.waiting)]

(* One newcomer.  A match found in the cache counts as a group although    *)
(* no proposal is made of it.                                              *)
Place(f, p) ==
  LET check == Gather(f, p)
      g == [f EXCEPT !.fresh = Without(@, {p})]
  IN IF Len(check) < GroupSize
     THEN [g EXCEPT !.waiting = IF p \in ToSet(@) THEN @ ELSE Append(@, p)]
     ELSE IF ToSet(check) \in f.matched THEN g
     ELSE [g EXCEPT !.fresh = Without(@, ToSet(check)),
                    !.waiting = Without(@, ToSet(check)),
                    !.matched = @ \cup {ToSet(check)},
                    !.proposals = Append(@, [line |-> check, agreed |-> {}])]

FindGroups(f) ==
  LET placed[i \in 0 .. Len(f.fresh)] ==
        IF i = 0 THEN f ELSE Place(placed[i - 1], f.fresh[i])
  IN placed[Len(f.fresh)]

-----------------------------------------------------------------------------

Become(g) ==
  /\ lfg' = g
  /\ dropped' = {p \in dropped : g.state[p] = "queued" /\ g.wish[p] = {}}
  /\ strayed' = {p \in strayed : g.state[p] # "none" \/ ProposalsOf(g, p) # {}}

Running == fault = "no"

Ungrouped(p) == p \notin party /\ p \notin UNION groups

(* HandleLfgJoinOpcode, JoinLfg: a queued player who joins again is first  *)
(* taken out of the queue.  Refused without effect during a proposal or a  *)
(* dungeon.                                                                *)
JoinLfg(p, dungeons) ==
  /\ Running
  /\ p \in inWorld
  /\ Ungrouped(p)
  /\ lfg.state[p] \in {"none", "queued"}
  /\ Become([SetState(RemoveFromQueue(lfg, {p}), {p}, "queued")
               EXCEPT !.wish[p] = dungeons, !.fresh = Append(@, p)])
  /\ UNCHANGED <<groups, party, inWorld, fault>>

(* JoinLfg that ends in a refusal (deserter, battleground, no dungeon      *)
(* open to the player) after the player was taken out of the queue: the    *)
(* state stays QUEUED.                                                     *)
RefuseJoin(p) ==
  /\ Running
  /\ p \in inWorld
  /\ Ungrouped(p)
  /\ lfg.state[p] = "queued"
  /\ lfg' = RemoveFromQueue(lfg, {p})
  /\ dropped' = dropped \cup {p}
  /\ UNCHANGED <<groups, party, inWorld, strayed, fault>>

(* HandleLfgLeaveOpcode of a player outside groups.                        *)
LeaveQueue(p) ==
  /\ Running
  /\ p \in inWorld
  /\ Ungrouped(p)
  /\ lfg.state[p] \in {"queued", "proposal"}
  /\ Become(Leave(lfg, p))
  /\ UNCHANGED <<groups, party, inWorld, fault>>

-----------------------------------------------------------------------------
(* UpdateProposal, the answer of p to proposal k, path by path.            *)

\* Faulty variant: the answer of a player the proposal is not for counts.
MayAnswer_Anyone(p, k) ==
  /\ Running
  /\ p \in inWorld \ lfg.proposals[k].agreed

MayAnswer(p, k) ==
  /\ Running
  /\ p \in inWorld
  /\ p \in Line(lfg, k) \ lfg.proposals[k].agreed

Intact(k) == \A p \in Line(lfg, k) : lfg.wish[p] # {}

Complete(p, k) == lfg.proposals[k].agreed \cup {p} = Line(lfg, k)

(* A member has no queue data, or the answer is no: the one who answers    *)
(* is removed, whatever the answer was in the first case.                  *)
Refuse(p, k) ==
  /\ MayAnswer(p, k)
  /\ Become(RemoveProposal(lfg, k, {p}))
  /\ UNCHANGED <<groups, party, inWorld, fault>>

Agree(p, k) ==
  /\ MayAnswer(p, k)
  /\ Intact(k)
  /\ ~Complete(p, k)
  /\ Become([lfg EXCEPT !.proposals[k].agreed = @ \cup {p}])
  /\ UNCHANGED <<groups, party, inWorld, fault>>

(* All agreed, but a member (the first found) is not in the world.         *)
AgreeOffline(p, k) ==
  /\ MayAnswer(p, k)
  /\ Intact(k)
  /\ Complete(p, k)
  /\ \E q \in Line(lfg, k) \ inWorld : Become(RemoveProposal(lfg, k, {q}))
  /\ UNCHANGED <<groups, party, inWorld, fault>>

\* Faulty variant: the group is made without looking at the queue data.
FormGroup_Unchecked(p, k) ==
  /\ MayAnswer(p, k)
  /\ Complete(p, k)
  /\ Line(lfg, k) \subseteq inWorld
  /\ LET members == Line(lfg, k)
         g == SetState(RemoveFromQueue(lfg, members), members, "dungeon")
     IN /\ \A q \in members : ~(q \in party /\ lfg.state[q] = "proposal")
        /\ Become([g EXCEPT !.proposals = RemoveAt(@, k)])
        /\ groups' = groups \cup {members}
        /\ party' = party \ members
        /\ \E away \in SUBSET members : inWorld' = inWorld \ away
  /\ UNCHANGED fault

(* All agreed and MakeNewGroup makes the group: its members leave their    *)
(* parties, and those that can be teleported are between maps.  A failure  *)
(* to bind the instance at its end leaves the same states.                 *)
FormGroup(p, k) ==
  /\ MayAnswer(p, k)
  /\ Intact(k)
  /\ Complete(p, k)
  /\ Line(lfg, k) \subseteq inWorld
  /\ LET members == Line(lfg, k)
         g == SetState(RemoveFromQueue(lfg, members), members, "dungeon")
     IN /\ \A q \in members : ~(q \in party /\ lfg.state[q] = "proposal")
        /\ Become([g EXCEPT !.proposals = RemoveAt(@, k)])
        /\ groups' = groups \cup {members}
        /\ party' = party \ members
        /\ \E away \in SUBSET members : inWorld' = inWorld \ away
  /\ UNCHANGED fault

(* All agreed, and MakeNewGroup takes a member out of its party:           *)
(* OnRemoveMember looks at the state of the party, finds no proposal, and  *)
(* its LeaveLfg erases the proposal MakeNewGroup is working from.  (Of a   *)
(* member of several proposals it erases the oldest; the model ends there  *)
(* as well.)                                                               *)
FormGroupFromParty(p, k) ==
  /\ MayAnswer(p, k)
  /\ Intact(k)
  /\ Complete(p, k)
  /\ Line(lfg, k) \subseteq inWorld
  /\ \E q \in Line(lfg, k) : q \in party /\ lfg.state[q] = "proposal"
  /\ fault' = "erased"
  /\ UNCHANGED <<lfg, groups, party, inWorld, dropped, strayed>>

-----------------------------------------------------------------------------
(* LFGMgr::Update, once a world tick.  Deadlines follow the order of the   *)
(* ids, so the proposals past theirs are the first n.                      *)

ExpireFirst(f) == RemoveProposal(f, 1, Line(f, 1) \ f.proposals[1].agreed)

Expired(f, n) ==
  LET left[i \in 0 .. n] == IF i = 0 THEN f ELSE ExpireFirst(left[i - 1])
  IN left[n]

Update(n) ==
  /\ Running
  /\ LET f == Expired(lfg, n)
         g == FindGroups(f)
         old == Len(f.proposals)
         called == UNION {Line(g, k) : k \in old + 1 .. Len(g.proposals)}
     IN IF ToSet(f.fresh) \cap ToSet(f.waiting) # {}
        THEN fault' = "twice" /\ UNCHANGED <<lfg, dropped, strayed>>
        ELSE Become(SetState(g, called, "proposal")) /\ UNCHANGED fault
  /\ UNCHANGED <<groups, party, inWorld>>

-----------------------------------------------------------------------------
(* Parties, map changes and logouts: what the rest of the server does to   *)
(* players the finder holds (LFGScripts.cpp).                              *)

(* OnAddMember: a queued player leaves the queue; one in a proposal stays  *)
(* in it.                                                                  *)
JoinParty(p) ==
  /\ Running
  /\ p \in inWorld
  /\ Ungrouped(p)
  /\ lfg.state[p] = "proposal" => Len(lfg.proposals) <= MaxProposals
  /\ party' = party \cup {p}
  /\ IF lfg.state[p] = "proposal"
     THEN strayed' = strayed \cup {p} /\ UNCHANGED <<lfg, dropped>>
     ELSE Become(Leave(lfg, p))
  /\ UNCHANGED <<groups, inWorld, fault>>

(* OnRemoveMember of a party the finder knows nothing of.                  *)
LeaveParty(p) ==
  /\ Running
  /\ p \in party
  /\ party' = party \ {p}
  /\ Become(Leave(lfg, p))
  /\ UNCHANGED <<groups, inWorld, fault>>

(* OnDisband, RemoveGroupData: the members are cleared whatever their      *)
(* state, and the proposal of such a member lives on without its data.     *)
DisbandParty(p) ==
  /\ Running
  /\ p \in party
  /\ party' = party \ {p}
  /\ Become(ClearQueueState(lfg, {p}))
  /\ UNCHANGED <<groups, inWorld, fault>>

(* A far teleport begins.                                                  *)
LeaveMap(p) ==
  /\ Running
  /\ p \in inWorld
  /\ inWorld' = inWorld \ {p}
  /\ UNCHANGED <<lfg, groups, party, dropped, strayed, fault>>

(* OnMapChanged, also part of a login.  A party member leaves queue and    *)
(* proposal (ClearStrayPlayerState); a group member who arrives outside    *)
(* the dungeon disbands the group.                                         *)
EnterMap(p) ==
  /\ Running
  /\ p \notin inWorld
  /\ \/ /\ p \in party
        /\ Become(Leave(lfg, p))
        /\ inWorld' = inWorld \cup {p}
        /\ UNCHANGED groups
     \/ /\ p \notin party
        /\ inWorld' = inWorld \cup {p}
        /\ UNCHANGED <<lfg, groups, dropped, strayed>>
     \/ \E S \in groups :
          /\ p \in S
          /\ groups' = groups \ {S}
          /\ Become(ClearQueueState(lfg, S))
          /\ \E away \in SUBSET S : inWorld' = (inWorld \ away) \cup {p}
  /\ UNCHANGED <<party, fault>>

(* HandleLfgLeaveOpcode and HandleGroupDisbandOpcode of a member: a group  *)
(* in its dungeon is disbanded as a whole, those inside are teleported out. *)
DisbandGroup(S) ==
  /\ Running
  /\ S \cap inWorld # {}
  /\ groups' = groups \ {S}
  /\ Become(ClearQueueState(lfg, S))
  /\ \E away \in SUBSET S : inWorld' = inWorld \ away
  /\ UNCHANGED <<party, fault>>

(* LogoutPlayer of a player outside dungeon groups, the socket open or     *)
(* not: OnLogout, and for a party OnRemoveMember before it.  A party keeps *)
(* a member whose connection was lost.                                     *)
Logout(p) ==
  /\ Running
  /\ p \in inWorld
  /\ p \notin UNION groups
  /\ inWorld' = inWorld \ {p}
  /\ party' \in {party, party \ {p}}
  /\ Become(Leave(lfg, p))
  /\ UNCHANGED <<groups, fault>>

(* LogoutPlayer of a member of a dungeon group, the socket open: the       *)
(* member is cleared and leaves; the last one may stay alone.              *)
LogoutFromGroup(p, S) ==
  /\ Running
  /\ p \in inWorld \cap S
  /\ inWorld' = inWorld \ {p}
  /\ \/ S # {p} /\ groups' = (groups \ {S}) \cup {S \ {p}} /\ Become(ClearQueueState(lfg, {p}))
     \/ Cardinality(S) <= 2 /\ groups' = groups \ {S} /\ Become(ClearQueueState(lfg, S))
  /\ UNCHANGED <<party, fault>>

Next ==
  \/ \E p \in Players :
       \/ \E dungeons \in (SUBSET Dungeons) \ {{}} : JoinLfg(p, dungeons)
       \/ RefuseJoin(p)
       \/ LeaveQueue(p)
       \/ \E k \in DOMAIN lfg.proposals :
            \/ Refuse(p, k)
            \/ Agree(p, k)
            \/ AgreeOffline(p, k)
            \/ FormGroup(p, k)
            \/ FormGroupFromParty(p, k)
       \/ JoinParty(p)
       \/ LeaveParty(p)
       \/ DisbandParty(p)
       \/ LeaveMap(p)
       \/ EnterMap(p)
       \/ Logout(p)
       \/ \E S \in groups : LogoutFromGroup(p, S)
  \/ \E S \in groups : DisbandGroup(S)
  \/ \E n \in 0 .. Len(lfg.proposals) : Update(n)

Spec == Init /\ [][Next]_vars

-----------------------------------------------------------------------------

TypeOK ==
  /\ lfg.state \in [Players -> States]
  /\ lfg.wish \in [Players -> SUBSET Dungeons]
  /\ lfg.fresh \in Seq(Players)
  /\ lfg.waiting \in Seq(Players)
  /\ lfg.matched \subseteq Rosters
  /\ \A k \in DOMAIN lfg.proposals :
       /\ lfg.proposals[k].line \in [1 .. GroupSize -> Players]
       /\ lfg.proposals[k].agreed \subseteq Line(lfg, k)
  /\ groups \subseteq SUBSET Players
  /\ UNION {party, inWorld, dropped, strayed} \subseteq Players
  /\ fault \in {"no", "erased", "twice"}

Lists == lfg.fresh \o lfg.waiting

Queued(p) == {i \in DOMAIN Lists : Lists[i] = p}

(* A player's state names the one place the finder holds the player in: a  *)
(* queued player stands in one list once, a called one in one proposal, a  *)
(* player in a dungeon in one group, and each of the first two keeps its   *)
(* queue data; nobody else has any.  The cached matches are the live       *)
(* proposals, so the cache never swallows a newcomer.  The exceptions are  *)
(* the two histories: who was refused a second join is QUEUED in no list,  *)
(* and who joined a party during a proposal may be in several places.      *)
PlacesExact ==
  /\ \A p \in Players \ strayed :
       /\ Cardinality(Queued(p)) =
            IF lfg.state[p] = "queued" /\ p \notin dropped THEN 1 ELSE 0
       /\ Cardinality(ProposalsOf(lfg, p)) = IF lfg.state[p] = "proposal" THEN 1 ELSE 0
       /\ lfg.wish[p] # {} <=> Queued(p) # {} \/ ProposalsOf(lfg, p) # {}
  /\ \A p \in Players :
       /\ lfg.state[p] = "proposal" => ProposalsOf(lfg, p) # {}
       /\ Cardinality({S \in groups : p \in S}) = IF lfg.state[p] = "dungeon" THEN 1 ELSE 0
  /\ \A k \in DOMAIN lfg.proposals :
       Line(lfg, k) \cap strayed = {} => Line(lfg, k) \in lfg.matched
  /\ lfg.matched \subseteq {Line(lfg, k) : k \in DOMAIN lfg.proposals}

\* The stores f hold proposal k, the stores g do not hold it any more.
Ended(f, g, k) == \A j \in DOMAIN g.proposals : Line(g, j) # Line(f, k)

\* From f to g the members in S lose what they queued for, and nobody else.
OnlyLosers(f, g, k, S) ==
  /\ {p \in Line(f, k) : g.wish[p] # f.wish[p]} = S
  /\ \A p \in S : g.state[p] = "none"
  /\ \A p \in Line(f, k) \ S : g.state[p] \in {"queued", "proposal"}

\* Member p breaks proposal k off.
Breaks(p, k) == Refuse(p, k) \/ LeaveQueue(p) \/ Logout(p)

\* Proposal k, none of whose members joined a party, ends in this step.
Ends(k) == Ended(lfg, lfg', k) /\ Line(lfg, k) \cap strayed = {}

\* The step costs those their place who have to pay for it.
Costs(k) ==
  /\ \A p \in Line(lfg, k) : Breaks(p, k) => OnlyLosers(lfg, lfg', k, {p})
  /\ \A p \in Line(lfg, k) : AgreeOffline(p, k) =>
       \E q \in Line(lfg, k) \ inWorld : OnlyLosers(lfg, lfg', k, {q})
  /\ \A n \in k .. Len(lfg.proposals) : Update(n) =>
       OnlyLosers(lfg, lfg', k, Line(lfg, k) \ lfg.proposals[k].agreed)

\* The step is one of those that end proposal k.
Caused(k) ==
  \/ Line(lfg, k) \in groups'
  \/ \E p \in Line(lfg, k) : Breaks(p, k) \/ AgreeOffline(p, k)
  \/ \E n \in k .. Len(lfg.proposals) : Update(n)

(* A proposal ends when its members are put into a group together, when    *)
(* one of them refuses, leaves or logs out, when all agree but one is      *)
(* between maps, or at its deadline, and in no other way.  Who breaks it   *)
(* off loses his place alone, also when others have not answered yet; of   *)
(* those between maps one loses it; the deadline takes it from all who     *)
(* have not agreed.  Everybody else keeps it, with what he queued for.     *)
(* (A proposal one of whose members joined a party is excepted.)           *)
OnlyRefusersLose ==
  [][\A k \in DOMAIN lfg.proposals : Ends(k) => Costs(k) /\ Caused(k)]_vars

(* A proposal that was overtaken (a member was cleared, queued again and   *)
(* went into a dungeon with others) never forms a group: nobody is put     *)
(* into a second group while in one.                                       *)
NoSecondGroup ==
  [][\A S \in groups' \ groups : Cardinality(S) = GroupSize =>
       S \cap UNION groups = {}]_vars

(* LFGScripts.cpp says of OnRemoveMember: "If group is being formed after  *)
(* proposal success do nothing more", so that the proposal a group is made *)
(* from stays.  The state tested is that of the party the member leaves.   *)
FormingKeepsProposal == fault # "erased"

=============================================================================
