# Verification of aeris

TLA+ models of the aeris multi-agent environment (`main/`) and of SuzuhaOS,
the operating system of its robots (`embedded/robot/firmware/suzuha/`), with
TLC configurations that check them on small instances and TLAPS proofs for all
instances. Paths below are relative to the repository; `common/` stands for
`main/src/common/`, `suzuha/` for `embedded/robot/firmware/suzuha/`.

## 1. The system

| Component | State | Operations | Behaviour that is hard to get right |
|---|---|---|---|
| **Agent server** `common/agent_server.cpp` | `m_global_state` (ordered map from agent id to interface), `m_read_buffer` (published copy), two mutexes, `m_agent_group_counter`, the socket pool | main loop: expiry check, select, accept, dispatch; a `std::async` handler for each request: group id, sync, commit, disconnect | handlers and the main thread interleave; commits are acknowledged before they are applied; nothing survives a restart |
| **Client** `common/agent_client.cpp` | socket, session id, group id | `opRequestGroupId`, `opAgentCommit`, `opAgentSyncAll`, `opDisconnect` | every exchange may fail between its parts; an empty commit is not sent |
| **Agent group** `common/agent_group.cpp`, `agent.h` | `m_agents` (vector of owned pointers), `m_agent_counter`, `m_running` | `push_back`, `main`: init ids, commit, then repeat sync, process, commit, disconnect; the destructor | `process` splits the vector among threads; agents add and delete agents from any of them |
| **Sockets** `common/socket.cpp` | descriptor, watch list | send, recv, exchange, close, `SocketWatch` | a socket moves between the pool and handlers |
| **SuzuhaOS kernel** `suzuha/kernel/kernel.c` | a table of thread slots: flags, counter and its reload value; the current thread | `create_thread`, `set_wait_state`, `wake_up_threads`, `join`, `thread_ending`, SysTick with the scheduler | SysTick interrupts any call between its masked sections; slots are reused |
| **SuzuhaOS mutex** `suzuha/lib/mutex.c` | one word | lock, unlock | read, sleep and write are separate steps |
| **SuzuhaOS messages** `suzuha/lib/messages_f.c` | a table of messages, a name for each thread | `msg_register`, `msg_unregister`, `msg_raise`, `msg_raise_async`, `msg_get`, `msg_check` | the table is searched one slot in each masked section, while others store and take |
| **Tracking and wall plugins** `main/src/plugins/tracking`, `object01_track_agent` | a grid with intensity, `alive` and the id of an agent for each cell, shared by all agents of the plugin | raise, fade or clear; ask the group for an agent for each cell with pheromone and delete it afterwards | an agent learns its id after its creation and tells the grid a turn later, from another thread |
| SuzuhaOS memory | heap | allocate | not modelled |
| Robot program `kodama/` | timers, UART ring, Wi-Fi state, motors | interrupts, polling | not modelled |
| Other plugins, camera, visualisation, configuration, legacy host programs | | | not modelled, see section 8 |

Interactions. A group talks to the server over a stream socket; it opens one
connection for every turn of its loop. The server answers from the read buffer
and merges commits into the global state under a lock. Agents act on their
group only through an `Environment` with requests to add and delete. On the
robot every library works on the thread table through the kernel, with
interrupts off (`sched_off`) in short sections.

What makes each part correct:

* server: a commit changes only its group's entries and all as documented;
  sync replies are complete and current; nobody reads a stream twice; expired
  agents disappear; group ids are unique;
* group: every agent is processed once in a turn; ids increase along the
  vector and are never reused; objects are deleted once and none is leaked;
* kernel: only ready threads run, each within a deadline; a wake-up reaches
  everybody; a reused slot carries nothing over;
* mutex: exclusion, and no sleep without somebody to end it;
* messages: what was stored reaches its addressee once; what was found stays;
* grid: one agent for each cell that has pheromone, which can be deleted.

## 2. Modules

| Module | Models | Composed with |
|---|---|---|
| `GlobalState` | ids as pairs (group, number) under the order of the 64-bit number, `std::map` iterators and updates, and `Merge`, what `update_global_state` does as one step | |
| `UpdateGlobalState` | the loops of `update_global_state`, one action for each branch of their bodies | `GlobalState` |
| `AgentServer` | the server, any number of groups, the connections between them | `GlobalState` (`Merge`) |
| `PublishedState` | what the server promises: one map that commits, expiry and restarts change in one step | `GlobalState`; implemented by `AgentServer` |
| `AgentGroup` | one group from `push_back` to its destructor, with its threads and its heap | `GlobalState` (ids) |
| `SuzuhaScheduler` | thread table, scheduler, SysTick, flag operations | |
| `SuzuhaKernel` | the kernel's calls by all threads, interrupted anywhere | `SuzuhaScheduler` |
| `SuzuhaMutex` | workers that lock, unlock and end | `SuzuhaScheduler` |
| `AbstractMutex` | a mutex that is taken and given back in one step | implemented by `SuzuhaMutex` |
| `SuzuhaMessages` | threads that register, send, search and sleep | |
| `TrackingGrid` | the tracking agent, its grid and the pheromone agents, turn by turn | |
| `ObjectGrid` | the same grid for walls, with clearing | `TrackingGrid` |
| `MC*` | the values TLC cannot be given in a configuration | the module of that name |
| `*_proofs` | theorems and their proofs, section 6 | the module of that name; `SuzuhaKernel_proofs` and `SuzuhaMutex_proofs` use `SuzuhaScheduler_proofs` |

### How they correspond to the code

**Ids.** `generate_agent_id` puts the group in the upper 32 bits and the
counter in the lower. The pair with lexicographic order says the same
(`Less`); `GroupMask` is the conversion `id & 0xFFFFFFFF00000000`. The counters
are natural numbers: wrapping is not modelled (`agent_group.h:40` allows a group
2^32 - 2 agents in its life).

**UpdateGlobalState.** `state` is `m_global_state`, `agents` the argument, `it`
and `group_it` the two iterators, `End` is `end()`. `old` is the map at entry.
Init is any map and any commit that a group can send. The lock is held
throughout, so no other thread appears.

**AgentServer.** A connection has two channels and two ends. A request handler
is a small program whose place is `handler[k].pc`; a step ends where another
thread may see the difference: at every send, recv and lock. What fails there
because the client has gone is `HandlerIoFails`, which closes the socket, but for
the end of the stream in a commit, `HandleCommitLost`, which keeps it. `HandleApply`
takes the lock and merges, `HandleSwap` publishes and unlocks; between the two
the buffer is behind, which is why they are two steps. The expiry check is
split in the same way. `readBuffer.set` is whether `m_read_buffer` is not
null. `ServerGone` is the end of the server process at any point: by a stop,
a crash, or the null read buffer (`HandleSyncNull`). `Kill` ends a group
process at any point. `Interfaces(c)` is what the group would commit now: an
agent's interface is abstracted to the turn that wrote it and its expiry time.
`GiveUp` is every error path of `NetAgentGroup::main`; an orderly end is
`Exit`.

**AgentGroup.** Agents are objects on a heap that are unborn, live or freed, so
that using an object after its deletion can be said. A thread of `process` is a
job with a range and the `Environment` it fills. In `ProcessAgent` an agent may
request anything a caller may legally request: a new object, its own or another
id of the group or a foreign one, a null pointer, an object that is already
registered. Requests that break ownership, such as adding one object twice or
adding an object that another thread asks to delete, are not made.

**Suzuha.** `Tick` is SysTick with `scheduler()`. Code between `sched_off` and
`sched_on` is one step, everything else can be interrupted. A thread takes
steps only while `current` is its slot. `BootCreate` is thread creation before
the scheduler starts. Slot 0 is the null thread, which is always ready.
`WakeUpThreadsInt` is called from interrupt handlers. `age`, `late`
and `asleep` are history: which thread of a slot this is, for how many ticks a ready thread has been passed over, and who
slept when the wake-up was called.

**SuzuhaMessages.** A masked section is a step: `msg_raise_async` searches and
stores in one; `msg_get` and `msg_check` look at one slot in each. `index`
and `res` are their local variables, reset when they are dead. A message is a
record with its number as data, which tells messages apart and lets
`accepted` and `got` say what became of each. `Sleep` is `set_wait_state` of
any other library, which the wake-up after a send ends. Instead of the
scheduler, any thread that is awake may step. A thread sends under its own
name and calls `msg_get` only while it is registered: without a name it would
take the first empty slot for a message.

**TrackingGrid, ObjectGrid.** The intensity of a cell is the number of turns
until it is not above the threshold any more; `increase_pheromon` makes it
`RiseFrom` or raises it by any amount up to `MaxLevel`, `decrease_pheromons`
takes a turn off. With `fade_speed` 0.99, `rise_from` 0.6 and `threshold` 0.11
of the configuration `RiseFrom` is 169. The code reads these values unchecked; the
model takes any `RiseFrom` from 1, which stands for a threshold above 0 and a
`fade_speed` above 0 and not above 1. One turn is: sync, the threads start
(`StartTurn` says which agents follow the tracking agent in its own thread; the
others run beside it), touches, fading, the loop over the cells, then, all
threads having ended, the requests. `AgentGroup` has these turns in detail; here
they are as coarse as the grid allows. Agent ids are reused in the model when
nothing refers to them any more, which a group never does and which keeps the
state space finite. Walls have `Fade` 0; touches in the corners clear everything
or switch between drawing and clearing.

### Abstract specifications

`PublishedState` has no threads, lock or second buffer. Under the mapping
`published <- readBuffer.agents` (the empty map while it is null) every step of
`AgentServer` is a commit of some group as a whole, the removal of all that had
expired at some time, a restart, or nothing; most are nothing, `HandleSwap` and
`ExpiredAgentsSwap` are the first two. `AbstractMutex` has the set of holders
alone; `SuzuhaMutex` implements it with `holders` the threads between
`mutex_lock` and `mutex_unlock`, and the steps that read, sleep and wake are
stutters.

## 3. Runs

| Run | Instance | What it shows |
|---|---|---|
| `merge` | group 1 with four ids, group 2 with one, two values; 124 254 states | the loops compute `Merge`, without a dangling iterator, leaving other groups alone, and terminate |
| `merge_removal` | as above | *violated*: section 5, finding 1 |
| `server` | 2 groups, 2 connections, one agent each at first and two at most, which do not expire, kills; 582 176 states with symmetry | locking, publication, complete replies, what a stale commit may be, unique group ids |
| `server_live` | 1 group with 0 or 1 agents at first and two at most, which expire, 2 connections, one clock tick (`MaxTime` 2), kills, one restart, fairness; 80 467 states | syncs are answered, commits become visible, expired agents disappear; `PublishedState` is implemented |
| `server_session` | 1 group, one restart | *violated*: finding 2 |
| `group` | 4 objects, 2 threads, one foreign id; 298 757 states | partition, ids, ownership, end of `process` |
| `kernel` | null thread and two slots, priority 0 (which `create_thread` raises) and one above the minimum; 206 228 states | deadline, wake-up, slot reuse |
| `mutex` | null thread and three workers, of two priorities; 111 321 states, fairness | `AbstractMutex` is implemented, no common sleep, progress |
| `mutex_sleep` | as above | *violated*: finding 3 |
| `messages` | 2 threads, 2 slots, 3 messages, fairness; 153 824 states | nothing lost or doubled, checks hold, searches end |
| `pheromone` | 2 cells, 4 ids, pheromone that lasts 3 turns, any threads, fairness; 64 137 states | one agent for each cell, the right id, all gone in the end |
| `wall` | 2 cells, 4 ids, no fading | *violated*: finding 4 |

Every property of a passing run has a mutant in `PROJECT.json`: a changed
definition, written as a plausible mistake in the code, under which the property
fails in the same run. The mutants stand directly before the definition they
change.

### Bounds, and why they are enough

* `merge`: the loop compares one committed id with one map entry. Four ids
  give every mix of erasures, updates and insertions in front of, between and
  after matches; the second group gives the landing of `lower_bound` in
  foreign entries and at the end. What lies beyond is proved.
* `MaxAgents` (agents a group ever makes), `MaxRound` (turns), `MaxGroups`
  (ids given out), `MaxTime`, `MaxSession` (server starts) and the number of
  `Conns` bound `AgentServer`; each stands as a guard in the action that would
  exceed it. Two groups and two connections suffice for a handler of each
  group to interleave with the other's, or for two handlers of one group, the
  old connection and the new; two turns suffice for an old commit to meet a
  newer one. Restarts are checked with one group in `server_live`: a second one can
  only take an id, which finding 2 is about. Expiry needs a commit, its time to
  pass, and a later one: one tick, in `server_live`. In `server` nothing expires
  (with expiry it has 5.4 million states, too many to check every time). That the
  buffer follows expiry is part of `ImplementsPublishedState` in `server_live`, and
  the proofs of the properties of `server` include expiry.
* `group`: the heap is never reused, and so its size bounds everything. Four
  objects with two threads give fewer agents than threads, even and uneven
  parts, and additions by both threads in one turn.
* `kernel`: `MaxAge` bounds how often a slot is given out; twice is reuse. Three
  slots give two threads that compete and one that must not starve.
* `mutex`: three workers are one that holds, one that sleeps and one that is
  between its look and its sleep.
* `messages`: two slots are full with two messages, and the third waits; with
  two threads each can search, store and be the addressee of the other or of
  itself. `MSG_FIFO_SIZE` is 4, and the proofs are for any size.
* `pheromone`: three turns are the shortest life after which the agent of a cell
  has been processed before it is deleted, whatever the threads; the
  configuration has 169. With two it need not have been, and TLC finds `CorrectId`
  violated when `pheromone.cfg` is given `RiseFrom = 2` (finding 4); with one,
  pheromone is gone before an agent is made. Two cells are enough for the agents of one to be in the
  way of the other. Four ids are two agents, two that the grid remembers.

Deadlock is not looked for where the system really ends: the merge returns,
groups and their objects run out, all threads of `messages` may be asleep. It is
looked for in the kernel and mutex runs, which never stop ticking, and in
`pheromone`, whose turns never end.

`NoNullBuffer` is checked for groups with agents, and speaks of a server that has
not been started again. Without either condition the server does dereference a null buffer:
that is `HandleSyncNull`, which `server_live` includes.

## 4. Fairness

* `WF(ClientStep(c))`: a group process is scheduled and every socket operation
  of it returns, by data or by an error. Starting a process is not fair.
* `WF(Accept(k))`, `WF(Dispatch(k))`: the main thread returns from `select`
  within a second at most. `SocketWatch::select` returns the first ready socket
  of the list. A handled one is appended again, so a ready one moves to the
  front, but for the listening socket, which stays there: new connections come
  first. A group opens its next one only after it has left the last, and so a
  bounded number of groups cannot hold the others up for ever. The order of
  the list itself is not modelled.
* `SF(HandlerStep(k))`, `SF(ExpiredAgentCheck)`: a handler or the main thread is
  held up only by `m_lock_global_state`, which others take again and again.
  Strong fairness says that a waiter for a `std::mutex` gets it at some time;
  the standard does not promise that, all implementations in use do.
* `WF(ExpiredAgentsSwap)`: the main thread, holding the lock, goes on.
* The clock, stops, kills and restarts are not fair: nothing depends on them.
* `WF(Tick)`: the timer of the robot runs. `SF(Step(t))` of a worker: a worker
  that gets the processor again and again executes its next instruction,
  because a tick lasts thousands of instructions; it is strong because the
  worker is not enabled while another one is current. That the scheduler gives
  it the processor again and again is not assumed: it is what `GoesOn` shows.
* `AgentGroup` has `WF(Process)`: the threads of `process` run; agents return
  from their `process`. The property `ProcessEnds` speaks of that part only.
* `WF(Send(t))`, `WF(Search(t))` of `SuzuhaMessages`: a thread inside a call of the
  library goes on. Such a thread is not asleep, and a thread that is ready gets
  the processor again and again: that is `Deadline` of `SuzuhaKernel`. Nobody has
  to call anything, and sleepers need not be woken.
* `WF(Turn)`, `WF(Processed)` of `TrackingGrid`: the group makes turn after turn, as
  long as the server answers, and its threads come to their ends (`ProcessEnds`).
  Robots move as they like.

## 5. What disagrees with the documentation

1. **Entries after the last committed id stay** (`merge_removal`,
   `agent_server.cpp:219`). The loop runs over the committed agents and erases
   in front of each; nothing erases after the last. `agent_server.h:91-97` says
   that entries that are not committed are removed. When a group deletes its
   youngest agent, the others keep seeing it until it expires, if it does.
   `Merge` describes what the code does, and `MergeCorrect` says so.
2. **The session id is not checked** (`server_session`, `agent_server.cpp:304`).
   `communication_header.h:17-23` says that a request with a wrong session id
   is ignored; the server sends 0 and compares nothing. A group that outlives
   the server goes on under an id that the new server gives out again.
3. **A thread may sleep for an unlock that is over** (`mutex_sleep`,
   `mutex.c:31-32`): looking at the mutex and going to sleep are two masked
   sections. `SomebodyAwake` and `GoesOn` show what limits the damage: as long
   as threads go on locking, a later unlock wakes the sleeper; a thread whose
   peers have ended sleeps for ever.
4. **A wall can be deleted under a wrong id** (`wall`,
   `object01_track_agent.cpp:72`). The agent of a cell tells the grid its id
   when it is first processed, in the turn after its creation. A touch that
   clears the wall in that turn makes `del_object01_agent` send 0 or the id of an
   agent that is gone, and forget that the cell has an agent: the wall stays for
   ever, and the next touch puts a second one there. `object01_agent.cpp:81-85`
   says what the id is for, a TODO in `object01_track_agent.cpp:68` that it is
   wrong.

   **The same TODO stands over pheromone**, whose code is the same: "TODO not
   working because of wrong ID!!!!!!!" (`tracking.cpp:64`), against
   `pheromone.cpp:80-84`, which says how the id is made to be correct. Nothing clears
   pheromone; it fades. Which of the two is right depends on the configuration, which the
   code does not check. If new pheromone outlasts one fading but not two,
   `rise_from * fade_speed > threshold >= rise_from * fade_speed^2`, that is
   `RiseFrom = 2` with fading, the TODO is right: an agent may be deleted in the turn
   after its creation, before it has been processed, and then stays; TLC finds
   `CorrectId` violated in ten states when `pheromone.cfg` is changed so. For every other
   configuration the TODO is out of date: if pheromone is gone at the first fading no
   agent is made, and with three turns or more, or `fade_speed` 1, its agent has been
   processed in time. The configuration of the repository gives 169. So the
   passing run `pheromone` contradicts line 64 for pheromone of three turns and more,
   and not for that of two; `IdIsCorrect` has the condition as its hypothesis.

Other things met while modelling, which no run is about. `join` polls a slot
(`kernel.c:434`), so it waits on when the slot has been given to a new thread in
the meantime; nothing calls it yet. `messages_f.h` describes a FIFO, a `msg_raise`
that waits for the receiver and a `msg_get` that sleeps; the code takes the first
slot that fits, returns after storing, and polls.

## 6. Proofs

All theorems hold for all values of the constants that satisfy the `ASSUME` of
their module and, where a theorem has a hypothesis of its own, that. Every safety
property and action property of the passing runs is proved, and both
refinements.

**`UpdateGlobalState_proofs`.** `MergeIsCorrect`: the loops compute `Merge`.
`MergeCorrect` alone says nothing of the loop, so the argument goes by `LoopInv`,
which says what the map is in mid-loop: its keys are those committed so far and the
old ones that lie before the group or that the iterator has yet to reach; the
committed ones have the committed value and the others the old; the iterator is
at an old entry beyond all that has been written; and what it has passed lies
before some committed id. From it follow `IteratorNeverDangles`,
`OtherGroupsUntouched` and, at the end of the loops, `MergeIsCorrect`. The
precondition, increasing ids of one group, is a conjunct of it, and it is what
the next module proves of the other side.

**`AgentGroup_proofs`.** `CommitsAreOrdered`: whatever agents add and delete in
whichever threads, a commit has increasing ids of one group. The invariant is
the type invariant, `IdsIncrease`, and three facts that make it inductive:
objects not yet made have no id, only made ones are in the vector, and the
vector is split only with more than one job. New ids come at the end of the
vector and are above all others; deletion keeps the order. Four more arguments
stand on it.

* `IdsAreFresh`: no id of the group is in use that the counter has not passed.
* `RemovalsAreRequested`: the only step that shortens the vector of a group that
  goes on removes the id at the head of the requests.
* `EveryAgentOnce`: `process` cuts the vector into parts that may differ by one
  agent. `PartsLeft` says that what is left is `m` parts of the even size and a
  reminder of at most `m`, where `m` counts the parts to come; then the reminder
  is used up when the vector is, no part reaches past the end, and the agents up
  to `last` are those that a thread has or has had. No bound on agents or threads
  is needed, but a little multiplication, which has lemmas of its own.
* `NothingDangles`, `NothingLeaks`: an instance is alive exactly when the vector,
  a request or nobody but its maker has it, and an instance that two requests
  name is named by one thread and gets its id at the first (`Ownership`). That is
  why the second request of the same instance, which `push_back` refuses, may
  not delete it.

**`AgentServer_proofs`.** For any number of groups and connections.

* The lock, over stops and starts: it is held exactly between change and publication
  (`LockIsDisciplined`), the published buffer is the state whenever the lock is free
  (`BufferIsConsistent`), and no connection is both watched and handled
  (`HandlersAreExclusive`). The three are inductive together with the shape of
  the records: a handler that publishes must be the holder, and the connection
  that returns to the pool must be one that nobody handles.
* The protocol (`ExchangeInvariant`). `Live` says, for each place of a group, what
  is in the two streams of its connection and where the handler is; the hard
  place is after a commit, when the group may already ask for a sync while its
  agents are still in the stream, in the handler's hands or applied (`Writing`).
  `Stream` says what is left of that when the group is gone. `TypeCorrect` needs it,
  because a header without its agents is no commit, and because the ids under way
  count against the bound. `SyncReplies` and `CommitsAreCurrent` are read off it.
* `PublishedIsImplemented`. `HandleSwap` maps to a whole commit,
  `ExpiredAgentsSwap` to the removal of all that expires by some time, `ServerGone`
  to the restart, and all else to a stutter. Between the change and the swap the
  invariant `Held` remembers what the buffer lacks: one commit of one group, or
  `ExpiredBy` a time at which some entry expires. Such a time exists because
  `Expired` is not empty, and the greatest one removes the same entries as the
  clock does.
* `GroupIdsAreFresh`. `IdsFresh`: every id in use or on its
  way to a group is at most `m_agent_group_counter`; one on its way is on its way
  once, and in no use. A restart sets the counter back while groups keep their
  ids, and ids are given out again: finding 2 starts there.
* `BufferIsNeverNull`, for groups that begin with an agent.
  `Filled`: until the first commit has been published, wherever a sync has been sent
  or may be sent, the group's commit is before it, in the stream or with the handler
  of that stream. Groups without agents are left out because they
  commit nothing, and the code is not right for them.
* `FirstSyncIsComplete`. `FirstSync`: until its first sync a
  group's agents do not expire, nobody else has its id and its agents are on their
  way over its own connection only; hence once its commit is applied they stay
  visible in the state (`VisibleMaps`: under the merges of other groups and the
  removal of expired entries), then in the buffer, in the hands of the handler that
  answers, and in the stream.

These three properties speak of the time until the server is started again
(`session = 1`); it may end at any point of it. The theorems hold for any number
of starts: `FirstFresh`, `FirstFilled` and `FirstSeen` are the invariants above
under that condition, which no step makes true again (`StartsOnce`). Without it
TLC finds each of the three properties violated with `MaxSession = 2`: a new
server has an empty state, no buffer and a counter at zero, and groups that
outlive the old one ask it for a sync.

**`SuzuhaScheduler_proofs`.** What the scheduler's pass computes. `Best` is a
recursive function; its defining equation (`BestEquation`) is proved by induction
over a set of natural numbers, which `NatWellOrdered` allows, and the same induction
gives that the thread chosen is one of the table (`ChosenInThreads`) and that no ready
thread is due before it by more than the tick which the pass itself takes off its
counter (`ChosenIsDue`).

**`SuzuhaKernel_proofs`.** For any number of threads and any priorities.
`OnlyCallersWait` needs that flags, places and the use of the slots match.
`WakeUpWakesEverybody`: whoever slept at the call and still sleeps is ahead of the
loop. `DeadlineMet` is the hard one. A counter that is at zero measures nothing any
more; by how much the turn of its thread is later than its counter said,
`Overdue`, is bounded by the number of threads served since, because serving one
sets its counter to at least `PRIORITY_MAX`, the number of threads, from where it
needs longer to come down than all others need to be served. The assumption that
`PRIORITY_MIN` is at least the number of threads is what `kernel.h:83-91` and
`options.h` give.

**`SuzuhaMutex_proofs`.** For any number of threads and any priorities.
`Exclusive`: mutual exclusion; the invariant is that the word is locked exactly
when somebody is in the critical section. `MutexIsImplemented`: every step is a
step of `AbstractMutex` or a stutter; `Take` finds no holder because of the same
invariant. `SomebodyIsAwake`: not all sleep while none has ended; whoever goes to
sleep has found the mutex locked, and the invariant says who is then still to
unlock or to wake. The scheduler matters only for `TypeCorrect`.

**`SuzuhaMessages_proofs`.** For any number of threads, slots and messages:
`MessagesExactlyOnce` and `CheckedStaysThere`. What makes them inductive: a slot
is free in its source exactly when it is in its destination; data number the
messages, so that one being sent differs from all that were accepted; a
thread's name is its own or none, and the answer of `msg_check` is about the
name it has. Nobody else takes a message of that destination.

**`TrackingGrid_proofs`.** For any grid, any distribution to threads and any
`RiseFrom` but 2: `OneAgent` and `IdIsCorrect`. They have `RiseFrom # 2` as their
hypothesis, because they fail of it (finding 4); `TypeCorrect` needs none. The
invariant follows a cell through a turn: `alive` is that there is an agent and no
request to delete it, or one to add it; an agent that has been processed once has its
id in the grid; one that has not is so young that its cell has pheromone left at
the end of this turn. The last is what fails of walls.

What the proofs assume of the constants is what bounds and the code give:
`ServerAssumption` asks that the connections are finitely many (the ids under way
are counted over them), that the bounds are numbers, with a clock and a first start,
and that a group is configured with no more agents than it may ever make.

Only model-checked: liveness (`Terminates`, `SyncAnswered`, `CommitVisible`,
`ExpiredRemoved`, `ProcessEnds`, `GoesOn`, `Received`, `FadesAway`), which is out of
the prover's reach, as it needs fairness and `ENABLED`. The four properties that
runs find violated are of course not proved; `CorrectId` is proved of pheromone, not
of walls.

## 7. Plan

Done, in the order in which it matters: merge, server, group, kernel, mutex;
the abstract specifications of server and mutex; messages; the grids of the
plugins; the safety of all of these, proved. Left:

1. Proofs: what holds of ids and of the first sync within each start of a server
   that is started again; an abstract table of messages that `SuzuhaMessages`
   implements.
2. The robot's interrupts (event timer, UART ring, the Wi-Fi dialogue over it)
   against the main program; the allocator of `mem.c` on a small heap.
3. `SocketWatch` with the order of its list, and a graceful stop of the server.
4. The legacy `CServer` and `CClient`.

## 8. Not modelled

Device registers, vendor libraries and context switching; control laws and
learning (numeric, sequential); camera and visualisation; parsing of
configuration and loading of plugins, which happen once before anything runs
concurrently; bundled third-party headers; boards and models. Wording, logging
and timing statistics appear nowhere. Partial reads and writes of a socket are
not distinguished from failed ones, as the callers do not distinguish them.

Most of the repository's lines are of these kinds: vendor headers and drivers of
the microcontroller, `json.hpp`, `easylogging++.h`, image processing. What keeps
state that several actors share, and is left out as yet, is in the plan: the
robot's timer, UART ring and Wi-Fi dialogue, the allocator, the order in which
`SocketWatch` looks at its sockets, and the legacy server. Of the plugins,
follower and line only move themselves, and the one named pheromone is an empty
predecessor of the class in the tracking plugin.
