# LuminariMUD: specifications, model checking and proofs

This directory holds TLA+ specifications of the parts of LuminariMUD whose
correctness depends on the order in which things happen: the timed events, the
lists everything is kept in, the teardown of events and characters, fights, the
publish-subscribe queue, the intermud client and its thread, the rename of a
player, scripts that wait and nest, the autosave, and the rooms of the
wilderness. TLC checks them on small instances; all safety invariants of the passing
runs, and the refinements of the event queue and of the lists, are also proved
with TLAPS, for every value of the constants. Paths below are relative to the repository; the
server's code is under `src/` of it.

Contents: 1 the system, 2 plan, 3 modules, 4 runs, 5 bounds, 6 fairness,
7 proofs, 8 where code and documentation disagree, 9 what is not modelled.

## 1. The system

The server is one thread, `game_loop()` in `src/comm.c`. Every tenth of a second
it calls `heartbeat(++pulse)`, which runs the due events (`event_process`), the
periodic jobs, one unit of the autosave, and last `extract_pending_chars`. Between
heartbeats it reads input and runs commands. A second thread exists only in the
intermud client and the AI service. What is hard is therefore seldom parallelism
and mostly *reentrancy*: every command, spell, script and event callback may create,
cancel, kill, free or move what its caller is in the middle of using. All memory
is manual, and most pointers between structs go both ways.

| component | state | operations | talks to |
|---|---|---|---|
| timed events, `src/dgscript/dg_event.c` | `event_q` (ten sorted lists), each event's `q_el` and payload, `total_events`, `processing_events` | `event_init`, `event_create`, `event_cancel`, `event_process`, `event_free_all` | called by `heartbeat`; calls callbacks, which call it back; payloads freed by `mud_event.c` or a hook |
| lists, `src/lists.c` | containers, nodes, explicit iterators, the static iterator of `simple_list()`, `global_lists` | create, add, remove, find, randomize, free, iterate | every owner of events, groups, AI requests |
| mud events, `src/mud_event.c` | one list of events per character, descriptor, region, room, object | attach, cancel by kind, change, clear per owner, free | the event queue; `handler.c`, `comm.c`, `mysql.c`, `olc/genwld.c` for the end of an owner |
| fights, `src/combat/fight.c` | `combat_list`, `FIGHTING`, initiative, the `eCOMBAT_ROUND` event | `set_fighting`, `stop_fighting`, `hit`, `damage`, `die`, `event_combat_round`, flee | events, extraction, scripts, commands |
| character lifecycle, `src/handler.c` | `character_list`, `NOTDEADYET`, `extractions_pending`, pointers from others | enter, `extract_char`, `extract_pending_chars`, `extract_char_final`, `char_to_room` | everything that holds a `char_data *` |
| publish-subscribe, `src/pubsub/` | five FIFO lists, counters, messages with reference counts | publish, process a batch or all, start, stop | heartbeat (each third second), spatial audio, player structs |
| intermud client, `src/net/i3_client.c` | connection state, a queue each way, a wake pipe | connect, authenticate, receive, queue, deliver, announce presence, shut down | its thread, the game loop, an external gateway |
| player rename, `src/player_rename.c` | a `rename_context`: what was done, what can be undone | plan, back up, move, update, rewrite, verify, commit, roll back | database, files, player index, characters |
| scripts, `src/dgscript/` | triggers and their depth, wait events, the driver's depth and `dg_owner_purged`, the registry of random owners | attach, detach, run, wait, purge, sweep, edit | events, everything a script may do |
| autosave, `src/comm.c`, `src/obj/objsave.c`, `src/obj/house.c` | a snapshot of players, six tasks, their retries, the static places of two walks | begin a cycle, run a unit, retry | descriptors, characters, houses, files |
| wilderness, `src/wilderness/wilderness.c` | a pool of rooms, their coordinates and `ROOM_OCCUPIED`, one check event each | find, lend, mark, take back | movement, `char_to_room`, spells, quests, ships, vehicles |
| grappling, clans, AI service, action queues, spell preparation | a few pointers, tables, queues | sequential commands | |
| the rest: spells, commands, crafting, editors, boards | tables and records | sequential rules | |

`PROJECT.json` lists all parts, with what is modelled of each and why the others
are not. What makes each modelled part correct:

* **events**: an event runs in its pulse and in no other; a heartbeat ends; every
  payload is freed once, whatever a callback cancels; the limit is a limit.
* **lists**: links, sizes, reader counts and the registry stay in agreement; no
  iterator stands in freed memory; a traversal meets every member.
* **mud events**: owner lists and events agree; no event outlives what it points
  at; a death leaves exactly the event that caused it.
* **fights and extraction**: list, pointer and round event agree; nobody fights,
  guards or hunts a freed struct; the flagged leave; fighters keep acting.
* **publish-subscribe**: counters and reference counts are exact; urgent first;
  a pass ends; what is queued is delivered or given up.
* **intermud client**: events are heard once, in order, and also while the loop
  sleeps; one descriptor at most; the game believes in a session only while it has
  one; a shutdown ends.
* **rename**: all or nothing, and the report says which; the old files can be put
  back at every step.
* **scripts**: a freed trigger is not followed; a trigger is not left busy; a wait
  leads to its owner; a sweep survives what it runs.
* **autosave**: what changed is saved, whoever comes and goes and whatever fails.
* **wilderness**: whoever is in a room is at its place; those at a place meet; a room
  in use is lent to nobody else.

The hazards, each at its line with the properties that would catch it, are in
`PROJECT.json`.

## 2. Plan

Done, in this order, each with its MC module where it needs one:

1. `EventSchedule` (abstract) and `EventQueue`, with `EventQueueProofs`.
2. `ListSpec` (abstract) and `Lists`.
3. `MudEvents`, which stands on both: it keeps of the queue which events are
   queued or running, and of the lists the order and the reset of `simple_list()`.
4. `Fights`: combat and deferred extraction together, since each is only right
   with the other. It relies on what `EventQueue` shows of events.
5. `PubSubQueue`.
6. `I3Client`: two threads, two mutexes, a pipe, a gateway that comes and goes.
7. `PlayerRename`: failures at every step, a crash, a lost answer.
8. `Scripts`: nested drivers, waits, the random sweep, rooms that move.
9. `Persistence`: the autosave over a world that changes under it.
10. `Wilderness`: the pool of rooms and everything that draws on it.

11. Theorems, each in a module beside its component: `EventQueueProofs`,
    `ListsProofs`, `WildernessProofs`, `PubSubQueueProofs`, `I3ClientProofs`,
    `FightsProofs`, `ScriptsProofs`, and `CharacterProofs` for `MudEvents` and
    `PlayerRename` (section 7).

Next:

12. `AiService`: request threads, a cache, an answer for a character who may have left.
13. `Grapple`, only once something in the code clears those pointers.

Abstract specifications worth stating: the schedule and the sequence (done); the
rename as one atomic step; the wilderness as a function from places to those who
are there.

## 3. Modules

### EventSchedule, EventQueue, EventQueueProofs

`EventSchedule` is the promise: a set of events, each with a due pulse; the clock
does not pass a due event; one callback at a time; an event runs at its pulse.

`EventQueue` is `dg_event.c`. `bucket` is the array of lists of `event_q`, `key` a
queue element's key, `queued` the events with `q_el # NULL`, `live` the structs
that are allocated, `unfreed` a history variable counting each payload's
owners. `event_process` is split where it calls out: `Dequeue` enters a callback,
`ReturnAgain`/`ReturnDone` leave it, `EndProcess` is the end of the loop, and in
between the callback may do `event_create` and `event_cancel`, on its own event
too. `queue_enq` keeps the scan from the tail (`InsertionPoint`), `TargetTime` the
saturation at `LONG_MAX`. Three kinds of payload are told apart because they are
freed in three ways. Profiling and logging are left out.

### ListSpec, Lists, ListsProofs

`ListSpec`: a list is a sequence. `Lists` is `lists.c` pointer by pointer: `heap`
holds containers and nodes (`pFirstItem`, `pLastItem`, `iSize`, `iIterators`;
`pNextItem`, `pPrevItem`, `pContent`), `iter` the callers' iterators, `static` the
three static variables of `simple_list()`. A freed node is handed out again. The
shape of the module follows the code: operators change one list of a heap, the
actions string them together (`FreeList` is reset, nodes, registry, container).
Callers are assumed to keep two rules of `docs/systems/LISTS.md`; `MudEvents`
follows those that do not. `iSize` and `iIterators` wrap at `SizeMod`. A nested
`simple_list()` takes the place of the outer one, as in the code: `LoopVisitsAll` is
about the pass that holds the static iterator, and promises nothing to the outer one.

### MudEvents, CharacterProofs

One record `mem` holds the shared memory: events, owner lists, whether an owner's
list exists, the static iterator, and `fault`, set when a path touches freed
memory. Operators map a `mem` to the next, so that a handler that makes ten calls
is one action. `attach_mud_event` covers the five kinds of owner; `free_mud_event`
takes the event off its owner's list and frees an emptied list; the four ways to
clear an owner are kept apart, since they differ: two passes, two passes through
`simple_list()`, first-until-empty, and a walk under removal. What a pass has chosen
is a set (`QueuedEvents`), which `CancelEach` cancels in the order of the list.
No owner is of two kinds (`KindsAssumption`). Callbacks run between
`Fire` and `Requeue`/`Finish`; in them a character may be killed or flagged, but a
descriptor, a region or a batch of characters is taken away outside only.
`Risks` names three situations the code mishandles (section 8); they are switched
on in the configurations that show them and off elsewhere.

### Fights, FightsProofs

`characterList`, `pending`, `extractionsPending` and `menu` are the lifecycle; `f`
holds `combat_list` with each entry's initiative, `FIGHTING`, and the state of each
round event; `ref` the pointers `GUARDING`, `HUNTING`, `last_attacker`; `running`
the fighter whose round is on the stack. `Inserted` is the walk of `set_fighting`;
dexterity, which spells change, is chosen anew at every step. A round is two steps,
`RoundStarts` and `RoundReturns`, and anything may happen between them: that is
where the fighter dies, its opponent flees, or it is purged. `hit` and `damage` are
the parts of those functions that change fights and pointers; their dice, and the
positions and rooms they ask for, are choices. `hit` goes on to `damage` or not, as
two actions, because scripts and reactions run in between.
`extract_pending_chars` is one action: the prepass over pointers and fights, then
`extract_char_final` for each flagged character the counting loop reaches, some
players keeping their struct at the menu. Both loops treat each entry by itself, so
that they are written as what they leave behind (`Kept`, `FightsOver`), not turn by
turn. `scenario`, chosen once, says who is ever
awake enough to fight and which pointers are followed, so that one run covers
fights and references without the product of both.

### PubSubQueue, PubSubQueueProofs

`queue`, `count`, `total` are the lists and their counters, `live` and `refs` the
messages, `pass` the local variables of the processing functions. `Take` is one turn
of the inner loop (deliver, requeue, give up), `NextPriority` the end of an inner
loop. Messages are told apart by the memory they live in. Today's callers only
publish at one priority; the queue takes five and the model two.

### I3Client, I3ClientProofs

One critical section or one system call of `i3_client.c` is one step. `state`,
`authed`, `synced`, `sock` and `open` are the shared struct; `pc`, `inbox` and `consumed` the thread
(`ThreadDial` to `ThreadSignal`, in the order of `i3_client_thread` and
`i3_process_input`); `cmds`, `evts`, `wake` the two queues and the pipe; `main` the game
loop, which may sleep without connections and is woken by the pipe (`WakeUp`,
`Drain`, `Deliver`). `i3_queue_event` is two steps, since the byte is written after
the unlock. `received` is `receive_length`, counted in messages; `i3_process_input` reads
on until it meets `consumed`. `Dialled` and `Closed` are shared by the thread and by `i3admin
reconnect`, which the game loop runs. The last line of `i3_disconnect`, `receive_length =
0`, is outside the mutex: in the thread it is part of `Disconnect`, on the loop a step of
its own (`AdminReset`), which may come while the thread parses. Then the unsigned
difference wraps round and the thread reads on (`ThreadOverruns`): a line parsed before,
or what is behind the buffer. The gateway is external: it welcomes, accepts, refuses,
speaks, closes. What it says is numbered.

### PlayerRename, CharacterProofs

`pc` walks through `rename_player_everywhere` and, after a failure, `rename_rollback`.
The database is what is committed (`db`), whether the server has a transaction open,
and what the connection sees in it (`view`); files are at the old or the new path
with the old or the new content; `snaps` are the snapshots; `ctx` is the
`rename_context` by which the rollback knows what to undo. Every step may fail
(`Fail`) and so may every step of the rollback; `Disconnect` loses the transaction,
`CommitUnheard` only the answer, `Crash` ends the game between any two steps.

### Scripts, ScriptsProofs

`stack` has one frame per call of `script_driver()`, which keeps its trigger and its
owner over every command; a command (`ScriptCommand`) may run another driver.
`script` is the set of triggers on each owner's `SCRIPT`, in whatever order.
`freed` in a frame says how its trigger was freed under it: with `dg_owner_purged`
set, which the driver looks at in `CommandDone`, or without. A flag that another driver
clears again makes it "reset". After `dg_cast` and `dg_affect` the driver does not look;
the head of its loop reads the trigger first (`SpellDone`). `wait` holds what a
`wait_event_data` holds: a pointer, or for rooms a place in `world[]`, which the
editor moves (`AddRoom`, `DeleteRoom`, `WaitsIn`). `registry` is the three linked lists of
`dg_handler.c`, as the relation of who is or comes after whom; `sweep` and `next` are the
iteration of `script_trigger_check`; `due` and `visited` are
history. `busy` is `GET_TRIG_DEPTH`, `stuck` the triggers a driver returned from
without ending them.

### Persistence

`descriptorList`, `playing`, `houseControl` are the world the autosave walks over;
`sched` is `persistence_scheduler` and `pass` the static variables of
`Crash_save_incremental` and `House_save_incremental`: an address that may be
another descriptor's by now, and an index that may be another house's. `Heartbeat` is
one pulse: the request on a minute, then the loop through the tasks as far as the
first that saved or failed. What is saved is abstracted to the sets of what has
changed since; `crash` is `PLR_CRASH`, `objects` what it stands for.

### Wilderness, WildernessProofs

`w` holds the rooms' coordinates, `ROOM_OCCUPIED`, the queued checks, and everyone's
room and coordinates; operators map a `w` to the next. `Reached` is the idiom of all
callers: find the room of a place, or lend a free one. Walking and the staff's
`goto` are two or three steps, because scripts run between the choice of a room and
the arrival; the frame on `stack` keeps the chosen room meanwhile. `char_to_room` looks
again. Ships have their own cache of rooms (`mapped`), vehicles take their riders along,
encounter regions move a fixed room. `Risks` names two situations the code mishandles.

### MC modules

`MCLists`, `MCMudEvents`, `MCFights`, `MCPubSub`, `MCPlayerRename`, `MCScripts`,
`MCPersistence`, `MCWilderness` hold what the configurations need: symmetry sets, the
initiatives and dexterities, where triggers may be attached, model values.

Operators whose comment begins with "Mutant:" are not part of a model. Each is a
plausible mistake in one definition; with it in that definition's place the named
property fails, which shows that the property depends on the code.

## 4. Runs

Each passing run also checks the types, in the first conjunct of one of its
properties (for the event queue they are a theorem only).

| run | what it shows | states |
|---|---|---|
| `event_queue` | `QueueSound`, the lists are sorted and agree with `q_el`; `UnqueuedIsRunning`, a NULL `q_el` means "running"; `PayloadBalance`, one free per payload; `CounterExact`; `ImplementsSchedule`, the queue implements `EventSchedule`; `Served`, each event whose time comes is run or cancelled | 398,783 |
| `lists` | `HeapSound`; `NoDanglingIterator`; `LoopVisitsAll`, `simple_list()` has returned exactly the nodes up to its place; `ImplementsListSpec` | 4,786 |
| `mud_events` | `NoUseAfterFree`; `OwnersAndEventsAgree`; `DeathLeavesTheRunning` | 15,744 |
| `clear_room` | violation, see section 8 | 7 |
| `fights` | `CombatListSound`; `FighterHasRound`; `LeftNothingBehind`, nobody in the world refers to one who left; `ExtractionHappens`; `RoundsKeepComing` | 33,290 |
| `pubsub_queue` | `CountersExact`; `NodesAreSound`; `PassDiscipline`, urgent first and no more than the batch; `QueueDrains`, a pass ends and the most urgent are delivered or given up | 18,512 |
| `i3_client` | `HeardInOrder`, as long as no reconnection by hand empties the buffer between two lines; `SessionSound`; `EventsDelivered`, also by a loop that slept, and presence is announced; `ShutdownEnds`, outside a handshake | 451,990 |
| `player_rename` | `ReportIsTrue`; `NothingLost`; `CommitIsLast` | 2,200 |
| `scripts` | `FreedNotUsed`; `BusyMeansRunning`; `WaitSound`; `RegistrySound`; `SweepEnds` | 453,423 |
| `persistence` | `CharactersSaved`; `ObjectsSaved`; `HousesSaved` | 246,101 |
| `persistence_retry` | violation, see section 8 | 5,000 |
| `wilderness` | `LiveRoomKept`; `MeetAtPlace`; `ThingsStayInPlace` | 338,545 |

Further configurations can be run by hand. `EventQueuePulse.cfg` (with `EventQueue`)
passes and shows that a heartbeat ends, whatever its callbacks queue. The others
each show one more disagreement of section 8: `ListsReset.cfg` (with `MCLists`);
`MudEventsExtractObj.cfg`, `MudEventsAttachNowhere.cfg` (`MCMudEvents`);
`FightsLastAttacker.cfg`, `FightsUnaffect.cfg` (`MCFights`); `PubSubPublish.cfg`,
`PubSubLeave.cfg`, `PubSubUnheard.cfg`
(`MCPubSub`); `I3Shutdown.cfg` (`I3Client`); `PlayerRenameFails.cfg`
(`MCPlayerRename`); `ScriptsRooms.cfg` (`MCScripts`); `PersistenceOneUnit.cfg`,
`PersistenceBroken.cfg` (`MCPersistence`); `WildernessVehicle.cfg`,
`WildernessScriptSails.cfg`, `WildernessGap.cfg`, `WildernessEncounter.cfg`
(`MCWilderness`).

## 5. Bounds, and why they are enough

* `EventQueue`: three structs suffice for a running event, one before and one
  behind it in a bucket. Two buckets and three pulses let a key come round to a
  bucket again; delays 0 and 3 hit the correction to the future, an other-bucket
  and a same-bucket delay, and the saturation (`LongMax` is 4). The limit of three
  events is reached. `MaxPulse` bounds the clock, in `Tick` only.
* `Lists`: a registry and two lists share five nodes, so that nodes are reused,
  a list has up to three members (first, middle, last), and one list is freed or
  shuffled while another is walked. Two iterators can stand on one node.
* `MudEvents`: three events, two characters and one owner of each other kind:
  one event running, two to clear; two owners whose events interleave; both
  characters flagged together. Outside the risky configurations an object has at
  most one event and a room with events is not deleted.
* `Fights`: two mobiles and one player make every pair of roles, a third party,
  and a batch of three. The mobiles roll the same initiative and either may be
  the quicker, the player rolls a higher one, so every outcome of the
  comparison occurs. In one scenario everyone fights, in the other nobody is awake
  and all guard and hunt: the code treats the two sets of pointers in loops of
  their own.
* `PubSubQueue`: two messages, two players, two priorities, a queue of three and a
  batch of two: the batch ends within and between priorities, the queue fills in
  the middle of an audience, a message is shared. Retries are the code's three.
* `I3Client`: two sessions make a lost connection and its successor, two events an
  order, queues of two fill up with the two commands every session starts with.
  One reconnection by hand. The thread reads no more lines beyond the end of the
  buffer than there are messages (`MaxRead`).
* `PlayerRename`: two of everything there are several of (tables, auxiliary files,
  files of others), so that one is done and one is not at any point.
* `Scripts`: a mobile, an object and two rooms, three triggers, two of them of random
  type, one attached to either of two kinds of owner; drivers nest to two, which is the
  limit, so that the depth check fires; a driver runs two lines, which lets it do
  something after a command; one call stays counted by a `while` without its `done`.
* `Persistence`: two players, two addresses and two houses: one saved and one not, an
  address that is freed and used again, an index that shifts. A minute of three pulses is
  shorter than a cycle, so that requests overlap it; an autosave every second minute.
  Two incidents (a descriptor or a house comes or goes, a save or an allocation
  fails): the properties ask whether the saving recovers from them.
* `Wilderness`: a pool of two rooms and three places exhausts the pool and lends a room
  again; two characters, a thing, a ship and a vehicle, of which three are in the
  world at once; one command half way. With four at once (1,619,438 states) the
  properties hold as well. A pool with a gap is `WildernessGap.cfg`.

Deadlock is checked in every run except those whose system stops (the intermud
client's shutdown, a rename, a script that follows a freed pointer); the bound on
the clock never stops the event queue since callers may always create or free.

## 6. Fairness

* `EventQueue`: weak fairness of `Tick`, `Dequeue`, `Return` and `EndProcess`: the
  game loop keeps calling `heartbeat`, the loop of `event_process` goes on, and a
  callback returns. Nobody is obliged to create or cancel.
* `Fights`: strong fairness of each fighter's round, since every due event is run
  (`Served`, `EventsFireOnTime`); it is strong because another's running round
  disables it now and then. Weak fairness of `RoundReturns`. Strong fairness of
  `extract_pending_chars`, which ends every heartbeat.
* `PubSubQueue`: weak fairness of the steps of a pass, which is one call; strong
  fairness of the heartbeat's pass, which comes again as long as the server runs.
* `I3Client`: weak fairness of the thread, which the operating system schedules, and of
  the loop inside a drain or a shutdown; strong fairness of the heartbeat, which busy
  players delay and do not prevent. The gateway owes nothing.
* `Scripts`: weak fairness of the driver and of the sweep: the one thread goes on with
  what it runs. That a driver ends is the bound on its lines; the code bounds loops
  by pulses.
* `Persistence`: weak fairness of the heartbeat. Nobody is obliged to stay or to come.

`MudEvents`, `PlayerRename` and `Wilderness` have safety properties only.

## 7. Proofs

Eight modules prove what the runs check on small instances for every value of the
constants: any number of characters, triggers, rooms, messages, sessions, any depth
of nesting and any limits. What the assumptions demand of the constants is listed
with each; TLC evaluates them in every run of the component.

| module | theorem | statement |
|---|---|---|
| `EventQueueProofs` | `TypeCorrect` | `Spec => []TypeOK` |
| | `QueueStaysSound` | `Spec => []QueueSound` |
| | `NothingOverdue` | `Spec => []NoOverdue` |
| | `UnqueuedMeansRunning` | `Spec => []UnqueuedIsRunning` |
| | `PayloadFreedOnce` | `Spec => []PayloadBalance` |
| | `CounterIsExact` | `Spec => []CounterExact` |
| | `EventsFireOnTime` | `Spec => FiresOnTime`, an action property |
| | `QueueImplementsSchedule` | `Spec => ImplementsSchedule`, the refinement |
| `ListsProofs` | `HeapSoundHolds` | `Spec => []HeapSound` |
| | `NoDanglingIteratorHolds` | `Spec => []NoDanglingIterator` |
| | `LoopVisitsAllHolds` | `Spec => []LoopVisitsAll` |
| | `TraversalCompleteHolds` | `Spec => TraversalComplete`, an action property |
| | `ListsImplementSequences` | `Spec => ImplementsListSpec`, the refinement |
| `FightsProofs` | `CombatListStaysSound` | `Spec => []CombatListSound` |
| | `NothingIsLeftBehind` | `Spec => []LeftNothingBehind` |
| | `FightersHaveRounds` | without `"unaffect_fighter"`, `"event_limit"`: `Spec => []FighterHasRound` |
| `PubSubQueueProofs` | `CountersAreExact` | `Spec => []CountersExact` |
| | `PassesAreDisciplined` | `Spec => []PassDiscipline` |
| | `QueuedNodesAreSound` | without `"publish"`, `"leave"`: `Spec => []NodesAreSound` |
| | `NothingIsLeaked` | without `"publish"`, `"unheard"`: `Spec => []NothingLeaks` |
| `I3ClientProofs` | `EventsAreHeardInOrder` | `Spec => []HeardInOrder` |
| | `SessionsAreSound` | `Spec => []SessionSound` |
| `CharacterProofs` | `NoUseAfterFreeHolds` | without risks: `Spec => []NoUseAfterFree` |
| | `OwnersAndEventsAgreeHolds` | without risks: `Spec => []OwnersAndEventsAgree` |
| | `DeathLeavesTheRunningHolds` | without risks: `Spec => DeathLeavesTheRunning`, an action property |
| | `ReportsAreTrue` | `RenameSpec => []ReportIsTrue` |
| | `NothingIsLost` | `RenameSpec => []NothingLost` |
| | `TheCommitIsLast` | `RenameSpec => []CommitIsLast` |
| `ScriptsProofs` | `NeverUsesFlagged` | `Spec => []FreedNotUsed` |
| | `BusyIsRunning` | `Spec => []BusyMeansRunning` |
| | `WaitsLead` | `Spec => []WaitSound` |
| | `RegistryIsSound` | `Spec => []RegistrySound` |
| `WildernessProofs` | `ThingsStay` | `Spec => ThingsStayInPlace`, an action property |
| | `RoomsAreKept` | with `CalmEncounters`: `Spec => []LiveRoomKept` |
| | `ThoseAtAPlaceMeet` | with `CalmSeas`: `Spec => []MeetAtPlace` |

Each of the modules after the first also states its inductive invariant as a theorem
(`Inductive` for the lists and the mud events, `RenameInductive` for the rename,
`Invariance` for the others). A hypothesis in the table switches off a situation that the code
mishandles and section 8 describes (with the situation, TLC refutes the property);
theorems without one hold with all of them on. Three of these properties name the
situation they except instead: `HeardInOrder` (`"reading"`), `SessionSound` (`"admin"`) and
`FreedNotUsed` (the spells of scripts). The steps of every proof
follow one pattern: a lemma for each operator of the model says what it leaves
behind, a lemma for each action that it keeps the invariant, and the theorem joins
them with the temporal rule.

### Event queue

Assumed: `NoEvent` is no event, `Events` is finite, `NumQueues` is positive,
`MaxEvents` is a natural number, delays are integers up to `LongMax`, and
`MaxPulse < LongMax`.

The inductive invariant `IInv` joins the types, the three parts of `QueueSound`,
`NoOverdue`, `UnqueuedIsRunning` and `ReadyInv` (without a queue nothing is queued).
None of them is inductive alone. `NoOverdue` needs the order of the buckets: the loop
ends when the head is later than the pulse, and only order makes the head speak for
the rest (`HeadIsEarliest`). The order survives `queue_enq` only if the list was
sorted where the scan stopped (`EnqKeepsQueueInv`), and `queue_deq` only if the
element is there once, in the bucket of its key (`DeqKeepsQueueInv`).
`UnqueuedIsRunning` needs to know that a running event is not queued. The payload
and the counter are then inductive relative to `IInv`, and the refinement needs it
in two places: `Advance` (nothing is due when the clock moves, from `NoOverdue`) and
`Fire` (what is dequeued is due now, from `HeadIsDue`). Two lemmas about `InsertAt` and
`RemoveAt` of the community modules carry the work on sequences.

### Lists

Assumed: `NULL` is no container, node, value or sequence of values, the registry is
not one of the callers' lists, nodes and iterators are finitely many and fewer than
the 2^16 that `iSize` and `iIterators` can count.

The properties read a list along its `pNextItem` (`Chain`, a recursive function), which
says nothing directly about a list that has just changed. The invariant therefore
speaks of the sequences themselves: `Sound(h, ch)` says that `ch` has for every container the
sequence its first and last pointers, its links and its size describe, that no node
is in two, and that the allocated nodes are those in some list. `ChainIs` shows once
that `Chain` then finds this sequence, because two walks along the same links cannot
part (`OneWalk`) and a list without repetition is no longer than there are nodes
(`ShortEnough`). After that each operator has a lemma on sequences: `add_to_list` appends
(`AddKeeps`), `remove_from_list` removes at a place (`RemoveKeeps`), `free_list` empties (`DropKeeps`).
`Good` adds the registry, and `State` the iterators, their counts and the loop of
`simple_list()`.

What is not inductive alone: `NoDanglingIterator` needs `Unread` of a removal and the reset of a
free, and both need that nodes are in one list only; the counts of readers need that an
attached iterator's list is allocated, else a reused container would start with
foreign readers; `LoopVisitsAll` needs that removals shift places without reordering. The
shuffle is a recursive function over the moves: `AllMove` takes the first move after which the
heap would not be as it should, and shows that there is none. `LoopVisitsAll` at the last step
of a loop gives `TraversalComplete`. For the refinement every lemma about an action
also says what it does to what the lists hold (`Abs`).

### Mud events

Assumed: `None` is no owner, event or kind of event, no owner is of two of the
kinds that are treated differently. The theorems hold with `Risks = {}`: a room is deleted
without events, an object that is extracted has had one event at a time, an event is attached
to a room that exists. With any of the three TLC finds the use of freed memory
(`clear_room`, and two configurations of section 4), so none of them can be left out.

An action is a handler of many calls, and between two of them `IInv` does not hold:
`simple_list()` stands inside a list, or an owner is half cleared. `Sound(m, r)` is what
holds of every `mem` between two calls while `r` runs, and `IInv` adds what is so when
the handler is done (`simple_list()` is at rest, only characters are flagged). `Sound`
says that a list has exactly the events that carry something for its owner, each once;
that such an event is allocated and its owner there; that a list which is freed when
it gets empty exists just when it has a member; that an object has one event at most;
and that `r` and no other event runs. `OwnersAndEventsAgree` alone is not inductive:
it does not bound the events of an object, lets an event of a room outlive the room,
and lets a second event be left running, all of which the handlers rely on.

Each operator has a lemma: it takes a sound `mem` to a sound one and changes no more than
it says (`Lost`, `OtherEvents`, `OtherLists`). Loops (`CancelEach`, `CancelLoop`,
the batch of `extract_pending_chars`) are functions of the number of turns taken; that
every turn keeps the loop's invariant, and no first turn can break it (`UpTo`), gives the
end of the loop. `CancelEachSound` is the heart of it: cancelling one event takes away
that event only, so the others chosen in the first pass are still allocated when
their turn comes. A walk by `simple_list()` over an object's events is sound only
because there is one: cancelling it frees the list and resets the walk.

### Fights

Assumed: no character is `None`, nobody is a mobile and a player, initiatives are
sets of natural numbers for each character.

`IInv` has four parts: `FightPart` (the list, its order, and fights only within the world),
`RunningPart` (one round on the stack), `WorldPart` (who is in the world, who is
flagged, and the counter), `RefsPart`. `LeftNothingBehind` alone is not inductive: a
struct that is freed is handed out again, and whoever gets it would inherit its
pointers, so `RefsPart` also says what those who are gone refer to. The functions of
`fight.c` are described once by the relations `GoodMove`, `Refers` and `Forgets`
between two states; the steps follow from the relations. That `extract_pending_chars`
keeps order and multiplicity of `combat_list` is a lemma on the increasing count of
the entries that stay (`Kept`).

### Publish-subscribe queue

Assumed: `Players` is finite; priorities, sizes, the batch and the retries are positive.

The invariant is layered, so that each theorem has only the hypotheses it needs:
`QueueInv` (lists, counters, the pass) holds whatever happens; `MessagesInv` (a
queued message is allocated and its count is the number of its nodes) needs that
`pubsub_publish` does not free what it queued; `PlayersInv` that nobody leaves
with a node queued; `NothingLeaks` both that and a listener for every audio message.
Counts are cardinalities of sets of places in the lists; the lemmas say how these
sets change when a node is added, taken, or put back.

### Intermud client

Assumed: queues and sessions are bounded by positive numbers.

`HeardInOrder` speaks of the game loop and becomes inductive only as a chain:
heard, then queued, then received, then on the wire, each part rising and all of it
before the next (`OrderInv`). It survives a full queue and a lost connection since
dropping from a rising sequence leaves a rising one. It needs `BufferInv`: until the
buffer is emptied between two lines the thread has parsed no more than it received, so
that it never reads what it parsed before. `SessionSound` needs what the
thread knows at each of its places (`PlacesInv`), what a lost descriptor leaves
(`ClosedInv`), and that the welcome comes once and first (`HandshakeInv`): only then
is an "authenticated" packet the answer to this session's key.

### Player rename

Assumed: there is a table to update. The specification is `RenameSpec`, and its parts have names
of their own, because `CharacterProofs` extends `MudEvents` as well.

The invariant says what the transaction, the memory, the files and the report
tell of each other at every step (`TransactionInv`, `MemoryInv`, `FilesInv`,
`ReportInv`). `NothingLost` needs that snapshots are taken before anything they cover is
changed and are discarded only when all files are as they were; `ReportIsTrue`
needs what each flag of `rename_context` implies about the step it records.

### Scripts

Assumed: finitely many mobiles and objects; an order of the rooms; owners of three
kinds have nothing in common; triggers are attached where the world files attach them.

`IInv` has six parts, and the four properties need one another through them. A wait
leads to its owner (`WaitsPart`) because whoever is freed is freed with all triggers
(`ScriptsPart`). A trigger is not run twice because the trigger of a waiting call stays
busy until it is freed (`Owned`, `Gone`). A driver stops in time because
`dg_owner_purged` stays set while some call relies on it, and is reset only where the
top call is about to look at its next line (`Told`). The registry is a union of three
orders (`Ordered`); an iteration has ahead of it whom it owes and behind it whom it
visited (`Iterates`), which survives the removal of the next one since `next` is
moved on first. That a list has a first member is the well-foundedness of strict
inclusion on finite sets.

### Wilderness

Assumed: bodies of different kinds are different; pool and fixed rooms are different;
no two fixed rooms stand for one place.

Three layers. `RoomsInv`, under no hypothesis: rooms in use are marked and checked, and
whatever lies in a room of the pool keeps it marked. With a pool without gaps and
encounter rooms that are moved to free places (`CalmEncounters`), all are at the
place of their room (`AtTheirPlaces`), also when scripts move others or sail
ships inside a move, because `char_to_room` looks again. Without ships that sail
inside a move (`CalmSeas`), no two rooms in use stand for one place (`OneRoomEach`):
for this the rooms that half-done moves have chosen must stay what a new search
would choose (`ChosenFrames`).

### What is only model-checked

* All liveness properties, under the fairness of section 6: `Served`,
  `ExtractionHappens`, `RoundsKeepComing`, `QueueDrains`, `EventsDelivered`,
  `ShutdownEnds`, `SweepEnds`, and the three of `Persistence`, which has no other.
* `ENABLED` and what a recursive function computes for every input.

Every other property of the passing runs is a theorem.

## 8. Where code and documentation disagree

With a run:

* **Deleting a room with an event** (`clear_room`; `src/mud_event.c:1184`). The comment
  says "we use a TWO-PASS algorithm for safety"; the second pass cancels the last
  event, which frees `room->events` and thereby resets `simple_list()`, so the walk
  starts again at a freed event.
* **Objects that could not be written** (`persistence_retry`; `src/obj/objsave.c:1905`).
  `docs/development/perfmon_help.txt:66` says "failed work is retried"; `PLR_CRASH` is
  cleared as soon as the character was saved, whatever became of the objects.

With a configuration of section 4:

* `last_attacker` (`src/handler.c:200`): a player at the menu is not on
  `character_list`, so "Clear last_attacker references to this character"
  (`src/handler.c:3056`) misses it; back in the game it points at a freed struct,
  whose flags the next prepass reads (`FightsLastAttacker.cfg`).
* `pubsub_publish` frees a message it queued: "queue makes copies"
  (`src/pubsub/pubsub.c:621`), but the queue keeps the pointer (`PubSubPublish.cfg`).
* `free_list()` resets `simple_list()` whichever list it iterates (`src/lists.c:111`), its
  comment says only for "THIS specific list" (`ListsReset.cfg`).
* `extract_obj()` removes what the static iterator stands on (`src/handler.c:2965`), which
  `docs/systems/LISTS.md:205` warns of; with two events it reads a freed node
  (`MudEventsExtractObj.cfg`).
* `attach_mud_event()` to a room or region that does not exist frees the vnum twice
  (`src/mud_event.c:582`, `:631`); `docs/systems/MUD_EVENTS.md:263` says it "cancels safely"
  (`MudEventsAttachNowhere.cfg`).
* The wizard command `unaffect` cancels a fighter's round with its other events
  (`src/act.wizard.c:3359`): the fighter keeps its opponent and no longer acts
  (`FightsUnaffect.cfg`). So does one whose round `attach_mud_event()` could not create
  because the event queue is at its limit (`src/mud_event.c:517`), which `set_fighting()`
  does not look at (`src/combat/fight.c:1830`; `"event_limit"` in the `Risks` of that configuration).
* A queued node keeps pointing at a player who left (`src/pubsub/pubsub_queue.c:220`;
  `PubSubLeave.cfg`).
* An audio message nobody takes is never freed (`src/pubsub/pubsub.c:736`); the comment says
  "Message will be freed when queue processing completes" (`PubSubUnheard.cfg`).
* "Player not available, re-queue for later" (`src/pubsub/pubsub_queue.c:269`): later is the
  same pass, which spends all three tries; the retry delay is used nowhere
  (`RetryIsLater`, checked with the constants of `PubSubQueue.cfg`).
* `process_batch` has the "Same processing logic as process_priority"
  (`src/pubsub/pubsub_queue.c:312`) but does not count what it gives up as failed
  (`DropsAreCounted`, checked with the constants of `PubSubQueue.cfg`).
* `i3_connect` writes `I3_STATE_CONNECTING` over `I3_STATE_SHUTDOWN`
  (`src/net/i3_client.c:383`), and so do the handshake's states: the thread goes on and
  `i3_shutdown`, which joins it, does not return. `docs/systems/INTERMUD3.md:164` has
  "Proper cleanup on shutdown" (`I3Shutdown.cfg`).
* `i3admin reconnect` resets `receive_length` (`src/net/i3_client.c:428`) while the thread may
  be between two lines of `i3_process_input` (`:941` to `:967`), which "Accumulate newline-delimited
  JSON" (`:885`): lines are parsed twice, or memory beyond the buffer is read. With
  `INVARIANT InOrder` in place of the properties of `I3Client.cfg`, TLC shows an event heard twice.
* A failed rename need not leave the old name everywhere
  (`docs/systems/CHARACTER_RENAME_SYSTEM.md:645` asks for it): when the answer to COMMIT
  is lost, or a step of the rollback fails, the report says that recovery is incomplete
  and the snapshots are kept, as `:652` asks (`PlayerRenameFails.cfg`). `ReportIsTrue`
  holds all the same.
* "The script may have been detached while the trigger was running"
  (`src/dgscript/dg_scripts.c:3314`): when the spell of `dg_cast` or `dg_affect` had that effect
  the trigger is freed, and is read all the same (`:3117`, `:3323`). With `INVARIANT
  crashed # "spell"` as a definition of its own TLC shows it.
* "Reaching this callback therefore proves the owner remains valid"
  (`src/dgscript/dg_scripts.c:788`): `add_room()` may move `world[]` by `realloc()`, and only
  the waits of the rooms behind the new one are told (`ScriptsRooms.cfg`).
* "At most one ... unit per pulse" (`docs/development/perfmon_help.txt:63`): an incremental
  walk whose last unit ends it answers "complete", and the loop goes on to the
  next task, which saves as well (`PersistenceOneUnit.cfg`).
* A character that cannot be saved at all keeps those behind it in the snapshot from
  being saved (`src/comm.c:1777`): its task stays at its place (`PersistenceBroken.cfg`).
* "Callers that place persistent objects must mark the room ... or the allocator can
  reuse a live room" (`src/wilderness/wilderness.c:1086`): `move_vehicle` does not
  (`src/vessels/vehicles.c:1726`), and the room is lent again under the vehicle
  (`WildernessVehicle.cfg`).
* A gap in the numbers of the pool ends the search for a place
  (`src/wilderness/wilderness.c:893`) and not the search for a free room (`:923`): two at
  one place are in two rooms (`WildernessGap.cfg`).
* A script that forces a ship to sail between a walker's choice of a room and his
  arrival: the ship's cache (`src/vessels/vessels.c:901`) and the walker have different
  rooms for one place (`WildernessScriptSails.cfg`).
* After 128 tries an encounter room is put where somebody may be
  (`src/mud_event.c:283`), although "noone should be at those coordinates" (`:288`;
  `WildernessEncounter.cfg`).

Without a model: `src/pubsub/pubsub.c:996` says "Process every 3 pulses (~0.75
seconds)"; `heartbeat` calls it once a second (`src/comm.c:2004`), so a pass comes
every third second.

## 9. What is not modelled

The server has half a million lines of C, of which these modules cover the few
thousand that hold shared state over a call, a pulse or a thread. Most of the rest
is rules and tables: what several hundred spells, feats, commands, recipes and
special procedures compute from a character's data in one call. A model of them
would repeat them.

* Attack rolls, damage, experience, corpses, affects, equipment: data these
  properties do not tell apart.
* Casting targets, grapples, marks, masters and groups in `Fights`: the same kind of
  pointer as guarding and hunting; grapples and marks are not cleared by any code.
* The contents of messages, handlers' output, topics and subscriptions.
* The script language, its variables and its text.
* The intermud protocol's packets, channels and who lists; the gateway.
* Elevation, noise, regions, paths and which places are neighbours; crews, docking,
  autopilots and weapons of ships.
* Clans: tables, and a queue of transactions that is committed in the call that
  fills it. Action queues and spell preparation: one owner, one caller.
* The AI service: planned. Its threads meet the game in a cache and an event.
* File and table formats, parsing, editors: input and output.
* An event queue at its limit outside `EventQueue`, `MudEvents` and the round of `Fights`:
  `mark_wilderness_room_occupied` always gets its check. Without it the room is never
  taken back, which keeps what the properties promise of it.
* Scripts inside a death: `die` is one step, although `raw_kill` runs `death_mtrigger`
  (`src/combat/fight.c:2412`) after it has taken the victim out of the fights and before it
  extracts it. What such a script does to others are steps before or after; that it draws
  the victim, who stands again, into a new fight is left out.
* Rooms of one encounter region: `EncounterReset` moves one and looks up the map
  afresh; the code moves them one after another and rebuilds the tree once at the end
  (`src/mud_event.c:259` to `:312`), so that two of them may choose one place. The run has one.
* The connection to the database lost with a COMMIT that the server carries out after the
  rename has counted the rows again (`src/player_rename.c:2557`): the model's server has
  committed, or not, by then.
* Missed pulses: `EventQueue` sees consecutive pulses, as `game_loop` delivers them.
* Profiling: invisible to the game.
