# Verification of the SkyFire 5.4.8 / PandaCore server

TLA+ modules of the concurrent and fault-tolerant core of this World of Warcraft
5.4.8 server, TLC configurations that check them, and TLAPS proofs about them.
Paths below are relative to `src/server/` of the repository's `src` directory
unless they say otherwise.

Contents: 1 inventory, 2 plan, 3 modules and their correspondence to the code,
4 runs, 5 bounds, 6 fairness, 7 proofs, 8 disagreements found, 9 what is not
modelled.

## 1. Inventory

The repository builds two programs. `authserver` answers logins and lists
realms. `worldserver` runs the game: acceptor and reactor threads read packets
from sockets and create sessions; one **world thread** (`WorldRunnable::Run`)
updates the sessions, runs their packets, then updates all maps with the help of
a **pool of map threads**; **database workers**, one per asynchronous connection,
execute SQL operations that any thread enqueues; the main thread opens the
databases, starts the others and shuts everything down. Remote access, SOAP and
console threads hand commands to the world thread.

| Component | State it keeps | Operations | Hard behaviours | What makes it correct |
|---|---|---|---|---|
| Map update pool (`game/Maps/MapUpdater`, `shared/Threading/DelayExecutor`) | pending requests, lock, condition, io_context queue, worker threads | activate, schedule_update, request, update_finished, wait, deactivate | workers schedule nested requests while the world thread waits; wakeups; shutdown of a pool | the wait is a barrier: no map is updated outside its phase; no wakeup is lost; shutdown ends |
| Map manager, instanced maps (`MapManager`, `MapInstanced`) | base maps, instances per base map | CreateMap, Update, DelayedUpdate, UnloadAll, DestroyInstance | an instance is destroyed on a worker during the pass | every map is updated once per pass; no deleted map is used |
| Session admission (`game/World/World`) | sessions by account, queue of sessions, new sessions, disconnect times, player limit | AddSession, AddSession_, UpdateSessions, RemoveQueuedPlayer, KickAll | sessions handed over by network threads; reconnection while queued; sockets closing at any time; sizes that count a session twice | limit respected, no idle slot, positions told are right, no dangling pointer |
| World socket (`game/Server/WorldSocket*`) | reference count, closed flags, locks, write queue, attached session | Start, async handlers, ProcessIncoming, SendPacket, CloseSocket, NotifyClosed | three threads, self-deletion, completion handlers after close, authentication that takes seconds | exact references, nothing used after deletion, sockets are freed, StopNetwork returns |
| World session (`game/Server/WorldSession`) | socket pointer, packet queue, flags, player | Update, SendPacket, KickPlayer, logout | requeued packets, filters by thread, socket lost at any time | packets handled once and in order, none blocks the queue for ever; a character is logged out once and the session always ends |
| Database queue and pool (`shared/Database/DatabaseQueue`, `DatabaseWorker`, `DatabaseWorkerPool`) | io_context queue, closed flag, workers, connections, synchronous connections | Open, Enqueue, Wait, Close, GetFreeConnection | several workers on one queue, close against enqueue and wait | accepted operations run once, on an open connection, before the close ends |
| MySQL connection, transactions (`MySQLConnection`, `Transaction`) | handle, last error, prepared statements | Execute, ExecuteTransaction, reconnection | lost connections, deadlocks, retries | all or nothing, order, exact result, nothing left open |
| Query callbacks (`QueryHolder`, `Future.h`, `Callback.h`) | future result, callback | set, get, cancel | the asker is gone when the answer comes | the answer is used once or freed |
| Network helpers (`shared/Network`) | write queue, bytes pending | Start, Enqueue, completion | failure with entries queued | each handler called once, in order |
| Dungeon finder (`game/DungeonFinding`), with the part of groups it uses | players' states, new and current queue, cached matches, proposals, formed groups | JoinLfg, LeaveLfg, FindGroups, AddProposal, UpdateProposal, RemoveProposal, MakeNewGroup; the scripts on groups, maps and logout | answers, deadlines, logouts, map changes and parties in any order, each removing somebody else; references into stores that callbacks change | a queued player stands in one place; only who refused, or is missing, loses the place; nobody is put into a second group |
| Event processor (`shared/Utilities/EventProcessor`) | events by time | AddEvent, Update, KillAllEvents | events that add or kill events | each event ends once |
| Start and shutdown (`worldserver/Master`, `WorldThread`) | threads, exit code, stop event | start, stop, freeze detector | order of the joins | no thread outlives what it uses |
| Authentication server (`authserver`) | login status per connection, realm list | challenge, proof, reconnect, realm list, patch transfer | messages out of order, connection lost | no realm list without proof |
| Game rules on the world thread or a map thread: groups, instance saves, battleground queue, trade, mail, auctions, guilds, calendar, chat, pools, events, loot | containers of their own, mostly with a database copy | many | sequences of legal operations by several players; memory and database apart | conservation and consistency of the containers |
| Entities, spells, movement, AI, scripts, data stores, collision, tools, `src/modules` | game data | too many to list | mostly sequential computation over tables | game rules |

`PROJECT.json` lists each of these parts with its files and status, and under
`hazards` the places where this code is hard to test, each with the properties
aimed at it or the reason why none is.

**Interactions.** Reactor threads call `World::AddSession` (a locked queue) and
`WorldSession::QueuePacket`; the world thread calls `SendPacket`, `CloseSocket`
and `DetachSession` on sockets the reactor threads run. `MapManager::Update`
calls `MapUpdater::schedule_update`, whose requests run `Map::Update` and, for
an instanced map, `schedule_update` again. Every game component enqueues on the
three database pools; answers come back through futures that the world thread
polls. Shutdown runs KickAll, UpdateSessions, StopNetwork, UnloadAll, then the
main thread joins and closes the databases.

## 2. Plan

Order of the work, the most important behaviour first. **Done** in this version:

1. `MapUpdater`, with `MapPass` as the abstract specification it implements.
2. `SessionQueue`: admission, queue, limit.
3. `WorldSocket`: life of a socket under three threads and the shutdown.
4. `DatabaseQueue`: the asynchronous pool, with `OperationQueue` as the abstract
   specification it implements; `TransactionTask`: what one of its
   workers does with a connection.
5. `SessionUpdate`: `WorldSession::Update`, its two filters, the packets put back,
   the login query, teleport, logout and destruction.
6. `DungeonFinder`: queue, matching, proposals and groups for players who queue alone.
7. Inductive invariants and theorems for 1 to 6, and the refinements of 1 and 4.

Candidates for more of the model, in this order:

- `QueryCallback` and `SyncConnections`: futures and holders whose asker is gone,
  `GetFreeConnection` under contention; composition: a transaction as an operation
  of `DatabaseQueue`, so that `OperationQueue` says what an operation does.
- Parties in `DungeonFinder`: role checks, premade groups, kick votes.
- `WriteQueue` (handlers and bytes) and `RefCounted`, an abstract
  reference-counted object that `WorldSocket` implements.
- `WorldShutdown`: the order of `WorldRunnable::Run` and `Master::Run`, commands
  of the console, RA and SOAP threads, the freeze detector.
- `EventProcessor`; `AuthSocket`; `Trade`, `InstanceSaves`, `BattlegroundQueue`.

Candidates for proofs: every safety property the runs check is proved now; what is
left is an abstract view of the dungeon finder's matching (who is called is
compatible), and the invariants of the modules above once they are written.

## 3. The modules and the code

Each module keeps the names of the source for state and operations; `map` in
`PROJECT.json` gives the lines of every definition. Definitions named
`Operation_Something` with the comment "Faulty variant" are mutations of the
definition after them: no specification uses them. They are there to show that
the properties can fail.

**`MapUpdater`** — `MapManager::Update` on the world thread (`pc[World]`), the
requests in the io_context (`queue`) and the worker threads (`pc[w]`).
`schedule_update` is two steps, `LockAndCount` and `Post`, since the executor is
outside its reach; `update_finished` is `Finish`; `wait` is `WaitTest`, `Woken`
and `SpuriousWakeup`. A worker that updates an instanced map goes through its
instances, destroying (`DestroyInstance`), keeping or scheduling them as
`MapInstanced::Update` does. With no workers the world thread runs the same
updates inline. `UnloadAll` destroys the maps and drains and joins the pool.

**`MapPass`** — what the pass promises without threads or locks: each map is
updated once, kept or destroyed, and delayed updates come after all of these.

**`SessionQueue`** — `World::AddSession` appends to `addSessQueue`;
`UpdateSessions` takes everything from it through `AddSession_` (rejected,
queued, replacing an older session or admitted) and then removes the closed
sessions one by one. `SlotsUsed` and `SlotFree` are the two computations of free
slots with exactly the sizes the code uses. `told` is what each client was last
told about its position.

**`WorldSocket`** — one socket. `pc` has a location for each of the threads that
can be inside its code: acceptor (`AddSocket`, `Start`), reactor (the
completion handlers, `ProcessIncoming`, `HandleAuthSession`) and world (kicks,
sends, the removal and destruction of sessions, the shutdown). `CloseSocket` is
three steps (`close`, `clear`, `tcp`): setting `m_Closed`, discarding the pending
output under `m_SendLock`, closing the descriptor. Another thread may run
between them. `ReactorRunnable::Stop` closes sockets through raw pointers copied under
a lock and used without it (`WorldSocketMgr.cpp:50-66`): when the socket has been
deleted meanwhile, the world thread is inside `CloseSocket` of freed memory.
`UseDeletedSocket` is what may then happen instead of the next step; the model stops
there, in the phase `"undefined"`. `refs` is `m_ReferenceCount`;
the socket is deleted by the `RemoveReference` that takes it to zero. Two
sessions at most can live on one socket (`HasSession` refuses a second one
while the first is attached, and the world thread detaches the first only after
it has closed the socket), so the bound of two sessions loses nothing.

**`DatabaseQueue`** — enqueue and wait are one action each: what they do under
`stateLock`. The queue is first in first out, so its contents are the numbers
`taken+1..posted`. A worker thread starts in the connection's constructor
(`NewConnection`), before `Open` has created the handle (`OpenConnection`);
`Exit` is the return of `io_context::run`; `CloseConnection` is join and delete.
enqueue and wait on a closed queue return at once: steps that change nothing.
A failed `Open` ends the process before the pool is used and is not modelled.

**`OperationQueue`** — the pool as its callers see it: operations are accepted while
it is open, start in order and as many at a time as there are workers, finish once,
and have all finished before the pool is closed. The mapping forgets threads and
connections: `started` is `taken`, `finished` is `done`, and the phase is what the
owner is executing.

**`TransactionTask`** — one connection: the commands of `ExecuteTransaction`, the
retry loop of `TransactionTask::Execute` (`DirectCommitTransaction` has the same
one), other operations that leave an error behind, and the server's session:
whether a transaction is open (`inTx`), what it has done (`work`) and which
statements are in effect (`applied`). `LoseConnection` is `_HandleMySQLErrno`:
the session vanishes, before or after the command took effect, and the
connection is reopened, or not, or reopened without all its statements being
prepared: then `prepareError` (`m_prepareError`), which nothing resets, makes every
later `Open` fail (`Reopen`). A ROLLBACK that is answered sets the last error to
"ok" since that is what a successful call does to `mysql_errno`. The code ignores
what START TRANSACTION and COMMIT return: `BeginFails` and `CommitFails` are the
server's errors to them, after which the code goes on as if they had succeeded, and
`ignored` remembers them for `ResultExact`. ROLLBACK is taken to fail only by losing
the connection; errors that make the server abort the process (an unknown column or
table, a syntax error) are not modelled.

**`SessionUpdate`** — one session. The queue holds packet numbers, `opcode` the
kind of each; eight opcodes stand for the combinations of status and processing
that the opcode table has (`Authed`, `LoggedIn`, `Transfer`, `LoggedOut`;
`InPlace`, `ThreadSafe` or neither). `WorldSession::Update` runs under the
world filter and under the map filter, on different threads but never at once
(the pass of the map pool lies between two calls of `UpdateSessions`), so
`filter` says which comes next and `step` how far it is: one action per packet
handled, then the callbacks, then the logout.
`m_playerLoading` is set before the login packet is read:
`ReadPlayerLoginRequestThrows` is the packet that is too short, whose exception the
packet loop catches, and after which the flag stays set without a query (`threw`).
The network thread appends and the
client closes between any two steps. `first` is `firstDelayedPacket` and
`processed` the limit per update. `player` is where the player object is (none,
in the world, between maps), `login` the state of the login query, `held`
whether a character has been loaded and not yet logged out. `LogoutPlayer` stands for
both values of its argument: a far teleport to invalid coordinates ends in
`LogoutPlayer(false)`, which drops the character unsaved.

**`DungeonFinder`** — everything runs on the world thread, one handler at a time:
one action per handler, atomic. The record `lfg` holds the manager's stores:
`state` (`LfgPlayerData`), `wish` (`QueueDataStore`), `fresh` and `waiting`
(`newToQueueStore`, `currentQueueStore`), `matched` (the entries of
`CompatibleMapStore` that say "match") and `proposals`; the operators
`RemoveFromQueue`, `RemoveProposal`, `Leave` and `FindGroups` take the stores and
return them changed, as the functions they translate. `Update` removes `n` expired
proposals and then matches. Players queue alone, but may join, leave or disband a
party that an outsider leads, since that is where the finder and the groups touch
the same player. The model stops, with `fault` set, in two states in which the
code goes on with corrupted stores: `"erased"`, the proposal in use is removed
while its group is made (see 8), and `"twice"`, a player stands in both queues when
`Update` runs. `dropped` remembers players whom a refused second join has taken
out of the queue without changing their state.

## 4. The runs

| Run | Distinct states | What it asks | Result |
|---|---|---|---|
| `map_pool` | 253,979 | counter, barrier, no use after delete, refinement of `MapPass`, nothing stops for ever; with a pool and without | hold |
| `login_queue` | 4,490,616 | queue, positions, limit, pointers, deletion of closed sessions, with a limit that changes | hold |
| `login_queue_tolerance` | | `ToleranceEnds` | violated, see 8 |
| `socket_lifetime` | 29,075 | references, deletion and the one use after it, attachment, closing, StopNetwork | hold |
| `db_queue` | 30,203 | once, on an open connection, what wait means, refinement of `OperationQueue`, nothing stranded, ends | hold |
| `db_queue_wait` | | `WaitLeavesNone` | violated, see 8 |
| `transaction` | 30,654 | when a result is right, order, nothing left open, ends | hold |
| `transaction_deadlock` | | `DeadlockRetried` | violated, see 8 |
| `transaction_lost` | | `AllOrNothing` | violated, see 8 |
| `session` | 309,135 | each packet once, in order unless put back, state of the player (after a login packet that cannot be parsed, too), nothing blocks, the session ends | hold |
| `dungeon_finder` | 670,366 | places in the queue, what ends a proposal and whom it costs the place, no second group | hold |
| `dungeon_finder_forming` | | `FormingKeepsProposal` | violated, see 8 |

The properties, each stated in a comment above its definition:

- `MapUpdater`: `PendingCounts` (the counter equals queued, executing and
  not-yet-posted requests: the "BUG, report to devs" branch is dead), `Barrier`,
  `NoUseAfterDelete`, `ImplementsMapPass`, `WorldNeverStuck`.
- `SessionQueue`: `NoDanglingSession`, `QueueExact`, `LimitExact`,
  `ClosedSessionDeleted`; `ToleranceEnds` is violated.
- `WorldSocket`: `RefsExact`, `NoUseAfterFree`, `AttachSafe`,
  `QueueOnOpenSocket`, `ClosedSocketFreed`, `StopEnds`.
- `DatabaseQueue`: `ConnectionSafe`, `WaitLeavesFew`, `NoneStranded`, `CloseEnds`,
  `ImplementsOperationQueue`;
  `WaitLeavesNone` is violated.
- `TransactionTask`: `ResultExact`, `OrderRespected`, `NoTransactionLeftOpen`,
  `TaskEnds`; `DeadlockRetried` and `AllOrNothing` are violated.
- `SessionUpdate`: `PacketExact`, `OvertakenOnlyIfDelayed`, `SessionExact`,
  `MapWorkerKeepsPlayer`, `PacketsConsumed`, `SessionEnds`.
- `DungeonFinder`: `PlacesExact`, `OnlyRefusersLose`, `NoSecondGroup`;
  `FormingKeepsProposal` is violated.

Each module has a `TypeOK` besides.

## 5. Bounds

- `MaxPasses = 2`: a map created or destroyed between two passes and the
  shutdown after each. Three base maps, one plain, one with two instances, one
  with one, on two workers: nested requests of two maps meet in the queue, and a
  worker can destroy an instance while the other runs one.
- `MaxSessions = 4` over three accounts, two ordinary and one with privileges, with
  limits 1 and 2 exchanged at run time: a session in the world, a waiting one, and
  a reconnection or a newcomer of each kind. `MaxTime = 1` and `Tolerance = 1` let a
  disconnect record age within the tolerance. The two ordinary accounts are
  symmetric; the run checks invariants only.
- `MaxSessions = 2` on a socket is complete (see 3). `MaxWrites = 2`: a failing
  write with another one behind it. `MaxPackets = 2`: a read that delivers a
  packet after the one that closed the socket.
- `NumWorkers = 3`, two clients, `MaxTasks = 5`: two tasks may still execute
  while a third worker runs a barrier, and a second client competes.
- `MaxStatements = 3`: a first, a middle and a last statement; four operations,
  so that the error of one meets the empty transaction after it; four faults, among
  them errors of START TRANSACTION and COMMIT.
  `LoopBreaker = 5` is the code's.
- `SessionUpdate`: `MaxPackets = 3` over the eight opcodes, so that every kind of
  packet stands before, between and behind every other, one put back included;
  `MaxProcessed = 1` where the code has 100, so that an update ends with packets
  left.
- `DungeonFinder`: three players, two dungeons, groups of two: one proposal can
  fail because of one member while the third player matches the one who stays.
  `MaxProposals = 1` bounds the proposals alive when a member joins a party (only
  then can a player be in more than one). Players are symmetric in every roster, so
  symmetry is sound; the properties are invariants and properties of single steps.

## 6. Fairness

- Threads that have started keep being scheduled (weak fairness of the world
  thread, each worker, each handler, the pool's owner). The code has no
  blocking call besides those modelled as guards.
- `WorldSocket`: an operation on a closed descriptor completes, which the library
  guarantees; on an open one nothing is assumed. The world loop comes back to
  every session in every tick whatever else it does in between: strong fairness
  of `AddSessions`, `RemoveClosedSession` and, once asked for, the shutdown.
- `SessionUpdate`: the world loop goes on (weak fairness of the update's steps and
  of its start), a login query is answered (see `DatabaseQueue`) and time passes
  (the delay of a logout). Strong fairness of the map update: a player in the world is
  updated by the map every tick, although `TeleportFar` disables it in between.
  Clients never have to do anything: `SessionEnds` speaks of sessions whose socket is
  closed.
- `SessionQueue` and `DungeonFinder` check safety only and state no fairness.
- `DatabaseQueue`: an SQL operation returns. The code does not enforce it (the
  read timeout is commented out in `MySQLConnection.cpp:77`), so `NoneStranded`
  and `CloseEnds` hold as long as the server answers or the connection breaks.
- `TransactionTask`: the worker goes on with the operation it has begun.

Deadlock is checked in every run but those of `DungeonFinder`, where the model stops
at a `fault`; the `Terminated`/`Stopped` actions stutter in
the states in which the component really has ended (or, for the socket, in which the
code has used freed memory).

## 7. Proofs

| Module | Theorems | Assumptions on constants |
|---|---|---|
| `MapUpdaterProofs` | `TypeCorrect`, `PendingCorrect`, `BarrierCorrect` | finitely many workers, any maps and instances, any number of passes |
| `MapPassProofs` | `NeverUsedAfterDelete`, `PassImplemented` | the same |
| `SessionQueueProofs` | `TypeCorrect`, `NoSessionDangles`, `QueueCorrect`, `LimitCorrect`, `ClosedDeleted` | finitely many accounts, any of them privileged; any limits, tolerance, number of sessions and last value of the clock |
| `WorldSocketProofs` | `TypeCorrect`, `RefsCorrect`, `NeverUsedAfterFree`, `AttachCorrect`, `QueuedOnOpen` | any numbers of sessions, writes and packets |
| `DatabaseQueueProofs` | `TypeCorrect`, `ExecutedExactlyOnce`, `ConnectionCorrect`, `WaitCovers`, `QueueImplemented`, `WaitExactWithOneWorker` | any positive number of workers, any clients, any number of tasks |
| `TransactionTaskProofs` | `TypeCorrect`, `ResultCorrect`, `OrderCorrect`, `NoneLeftOpen` | any numbers of statements, faults, tasks and retries |
| `DungeonFinderProofs` | `TypeCorrect`, `PlacesCorrect`, `OnlyRefusersCorrect`, `NoSecondGroupCorrect` | any players, dungeons and group size above one; rosters closed under nonempty subsets and holding every single player; any number of proposals |
| `SessionUpdateProofs` | `TypeCorrect`, `PacketsCorrect`, `PacketOrderCorrect`, `SessionCorrect`, `MapWorkerCorrect` | any numbers of packets, any subset of the opcodes, any limit of packets per update |

Each module defines an inductive invariant (`IInv`; `Inv` in `MapPassProofs`), proves that `Init` implies it
and that every action preserves it, and derives the properties.

- **Map pool.** Neither property is inductive by itself. `PendingCounts` needs that
  a thread inside `schedule_update` is passing a map (`PostingArg`), that the pool
  is active exactly when there are workers (`ActiveInv`), and that nothing is
  queued or executed before `Initialize` or without an active pool (`EmptyInv`).
  `Barrier` follows from the counter: `wait` returns only when `pending` is 0, so
  nothing is queued or executing, and between passes only an executing worker
  could post.
- **Map pass.** A map that is still due is claimed in one place only (`Claims`): the
  loop of the pass, a `schedule_update`, the queue, a thread about to update it, or
  a thread's list of instances. An instance is claimed only after its base map was
  updated (`Nesting`), and whatever exists and is due is claimed or waits for its
  base map (`Complete`), so a pass that finds nothing claimed has forgotten nothing.
  `PassImplemented` maps each step to the step of `MapPass` that settles the same
  map, or to a stutter; the end of a pass is one because `Resting` (from `Barrier`)
  leaves nothing claimed. `NeverUsedAfterDelete` follows from `Alive`, which needs
  `Claims`: the instance that a worker deletes is claimed by nobody else.
- **Login queue.** The invariant adds to the properties of the run that a session is
  handed over once and is nowhere else until `AddSession_` (`PendingExact`), that a
  listed session belongs to its account, so no two entries of `m_sessions` are the
  same (`ListedExact`), that who stands in line is flagged (`FlagsCover`; the
  converse fails after `KickAll`), and what an update has left behind it (`Visited`).
  `QueueExact` says that nobody stands in line twice, so the sizes the code subtracts
  count the set `Active`. `Leaves` is what one call of `RemoveQueuedPlayer` does: the
  session goes, and the first in line is let in exactly when there is one and a slot
  is free. `LimitAtRemoval` chains the two calls made for one session (the second
  takes it for an active one and still finds it in `m_sessions`) and shows that
  together they fill no more than the slots that are free; `LimitAtAccept` does the same for
  `AddSession_`, whose count includes the newcomer, and a queued old session twice.
- **World socket.** `RefsExact` equates the counter with the sum of its holders.
  The rest says who can still become a holder: until `Start` reads, nobody but the
  acceptor knows the socket (`Quiet`); input is processed only while no read is
  outstanding (`ReadOnce`); a deleted socket has no reference and has left the
  acceptor (`Lifetime`); a session points at the socket from its construction to
  its deletion (`SessionSockets`). `WorldControl` and `AttachControl` give what the
  world and the reactor thread know of the session they act on, `SendControl` that
  after the output is discarded nothing is queued any more. `NoUseAfterFree` then follows
  since a count of zero leaves no holder, and `ClosesForSession` (in `WorldControl`: outside
  the join the world thread closes the socket only for a session that points at it)
  shows that the call of `ReactorRunnable::Stop` is the only one without a reference.
- **Database queue.** `OwnerControl` (the connections are opened and closed in
  order; what the owner's location implies for each of them), `WorkerControl`
  (which states of thread and connection go together) and `ExecutedOnce`.
  `OneIsPast` is the fact behind `WaitLeavesFew`: for every finished task there is a
  worker that executes nothing posted before it (the one that finished it, at
  least). An earlier task has been dequeued, so it is done or running on one of
  the *other* workers: at most `NumWorkers - 1` are unfinished, none if there is
  one worker. `QueueImplemented` rests on the same count (`BusyElsewhere`): a worker
  that takes a task was executing none, so there is room for it. `OwnerControl` gives
  that nothing is accepted but while the pool is open, `WorkerControl` that the last
  connection closed leaves nothing unfinished.
- **Transactions.** `Session` (a transaction is open at the server only between
  START TRANSACTION and its end), `Control` (what each location implies),
  `Progress` (what an unbroken attempt has done so far is a prefix), `Bounded`
  (nothing later than the next statement has taken effect). `Control` also
  contains why the retry loop is only ever entered for an empty transaction:
  after a completed ROLLBACK the last error is not a deadlock. So `ResultExact`
  says nothing of repeated statements: in this code there are none. It holds of the
  result the code reports only with its conditions: no connection lost, START
  TRANSACTION accepted, and the error of COMMIT, which the report leaves out, in `ignored`.
- **Session update.** `MapControl` says that a map updates a session only while it has
  a player, and that logout and destruction are reached by the world thread only;
  with it `SessionExact` and the action property `MapWorkerCorrect` are inductive.
  `SessionExact` does not say that the session is loading only while a query is under
  way, since that is false of the code: the flag also stays set after a login packet
  that throws (`threw`), and then no query is ever issued.
  For the packets, `InOrder` (the queue is in the order of sending but for what was
  put back) gives the order of consumption. That one update takes no packet twice
  needs `TakenOnce`: whatever this update has put back stands at or behind the first
  packet it put back, where the loop stops, and `FirstStays`: that packet is still
  in the queue.

- **Dungeon finder.** `PlacesExact` counts places; the invariant says the same without
  counting. `StoresOK(f, st, dr)` is true of the stores `f`, whoever strayed (`st`) and
  whoever a refused join took out of the lists (`dr`): no list names a player twice
  (`Listed`), who is in no queue and no proposal has no queue data (`Outside`), a
  proposal is for `GroupSize` different players and still waits for an answer
  (`Proposed`), a called player has a proposal (`Called`), who is not strayed is where
  the state says (`Held`), and the cached matches are live proposals (`Cached`).
  `GroupsOK` says that the groups are disjoint and hold exactly the players in state
  DUNGEON, `PartyOK` that a party member the finder still holds has strayed. Strayed
  players are the hard case: `DisbandParty` clears one and leaves the proposal, so
  every operation on the stores is shown to keep `StoresOK` for whatever `st`
  (`LeaveOK`, `RemoveProposalOK`, `FormedOK`, ...), and `BecomeOK` lets a player out of
  `st` only when the player is nowhere. The loops of `Update` are recursive functions;
  that such a function exists is proved from its rounds by the lemma `Induction`
  (well-founded induction on an interval), and the same lemma follows what the rounds
  have done: `ExpiredTo` (who had agreed is queued, who had not is out, the later
  proposals moved up), `GatheredTo` (a partial group names nobody twice and fits), `PlacedTo` (those called since the update began are in no list, so
  `SetState` on them afterwards is right). A newcomer whose full group is already cached
  stands in a proposal (`Cached`) and so has strayed (`Held`): the cache swallows nobody else.
  `OnlyRefusersCorrect` takes two steps: which actions end a proposal (`CauseStep`; a
  party member's leaving ends none without strayed members, by `PartyOK`), and what each
  of them costs whom (`CostsStep`: `RemovalCosts`, `LeaveCosts`, `UpdateCosts`); `NoSecondGroupCorrect` only `Outside` and `GroupsOK`: who still has
  queue data is in no group.

Only model-checked: all liveness properties (`WorldNeverStuck`,
`ClosedSocketFreed`, `StopEnds`, `NoneStranded`, `CloseEnds`, `TaskEnds`,
`PacketsConsumed`, `SessionEnds`), which are out of TLAPS's reach here. That the
loops of the dungeon finder are written as recursive functions and not with
`SelectSeq` and folds is for the proofs: those are defined through operators with
operator parameters, which the provers cannot reason about.

## 8. Where the code and its documentation disagree

1. `ToleranceEnds`: the arguments of `difftime` are swapped (`World.cpp:308`), so a
   disconnect record never expires.
2. `WaitLeavesNone`: `DatabaseWorkerPool::Wait` promises to wait for all queued
   operations; with several workers the one barrier it posts may be executed
   while an earlier operation still runs. `WaitLeavesFew` is what holds;
   `WaitExactWithOneWorker` proves the comment for one worker.
3. `DeadlockRetried`: the retry after `ER_LOCK_DEADLOCK` reads the last error
   after the rollback has reset it, and is never taken.
4. `AllOrNothing`: a connection lost inside a transaction is reopened with
   autocommit on and the transaction goes on from the failed statement, so its
   end is committed without its beginning (the trace: of two statements the first is
   rolled back with the lost session, the second commits by itself, COMMIT reports
   success). As long as no connection is lost and START TRANSACTION is accepted a
   transaction is in effect completely or not at all (`ResultExact`).
5. `FormingKeepsProposal`: `MakeNewGroup` takes a member out of the party it has
   joined during the proposal; the script on that removal means to spare a player
   who is about to enter a group (`LFGScripts.cpp:223`) but tests the state of the
   old party, calls `LeaveLfg`, and this erases the proposal `MakeNewGroup` is reading.

The counterexamples are a few steps long each (`tlc -config <cfg> <module>`).

Not disagreements, since no document says otherwise, but worth knowing; each is in
the model and in the wording of a property:

- an error of COMMIT (or START TRANSACTION) is ignored and the transaction reported as
  committed (`MySQLConnection.cpp:341-354`, `ResultExact`);
- a `CMSG_PLAYER_LOGIN` that is too short leaves `m_playerLoading` set
  (`CharacterHandler.cpp:1413-1416`): the session refuses every later login and cannot be
  replaced, until its socket is closed (`SessionExact`, `SessionEnds`);
- `ReactorRunnable::Stop` may close a socket that has been deleted (`NoUseAfterFree`).

## 9. Not modelled

- What a map update does to the map; transports that change maps on a worker;
  base maps created by a worker. `MapUpdater` creates base maps between passes.
- Packet contents, cryptography, statistics, the choice between several reactors.
- What follows `ReactorRunnable::Stop`'s use of a deleted socket (phase
  `"undefined"`). `NoUseAfterFree` names this use as its one exception, and
  `ClosedSocketFreed` and `StopEnds` promise nothing after it. Packets sent by map threads at the same time as by the world thread are one
  sender in the model.
- Prepared statements, results, and the futures of operations other than the login
  query.
- In `DungeonFinder`: parties that queue together, role checks, kick votes, flexible
  raids, rewards, teleports into the dungeon, more than one queue, and ignore lists
  of members who are offline. What happens after a `fault`.
- Hazards that no property covers are listed with their reason in `PROJECT.json`:
  among them, that members of a failed proposal are matched only with newcomers, so
  that two compatible groups may both wait (`LFGQueue.cpp:517`), and the holder of a
  login query that nobody frees when its session is deleted first
  (`WorldSession.cpp:464`).
- The components listed in `PROJECT.json` as `not_modelled`, with the reason for
  each: large data-driven game rules and content, generated or vendored code,
  offline tools, and the parts the plan leaves to later versions.
